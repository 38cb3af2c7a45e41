------------------------- MODULE CloneLoaderProofs -------------------------
(***************************************************************************)
(* CloneLoader for all files, limits and histories of loads.               *)
(***************************************************************************)
EXTENDS CloneLoader, PersonIndexProofs

------------------------------------------------------------------------------
(* The feed plans, of which no two copy the same rows.                     *)

LEMMA PlanFacts ==
  /\ Len(FeedPlans) = 7 /\ DOMAIN FeedPlans = 1..7
  /\ FeedPlans[1].shape = "utility" /\ FeedPlans[1].table = "legacy"
  /\ \A i \in 1..7 : /\ FeedPlans[i].shape \in Shapes /\ FeedPlans[i].table \in Tables
                     /\ FeedPlans[i] = Plan(FeedPlans[i].shape, FeedPlans[i].table)
  /\ \A i, j \in 1..7 : FeedPlans[i].shape = FeedPlans[j].shape
                        /\ FeedPlans[i].table = FeedPlans[j].table => i = j
  /\ \A s \in Shapes : \E i \in 1..7 : FeedPlans[i].shape = s
<1>1. \A i \in 1..7 : i = 1 \/ i = 2 \/ i = 3 \/ i = 4 \/ i = 5 \/ i = 6 \/ i = 7
  OBVIOUS
<1>2. Len(FeedPlans) = 7 /\ DOMAIN FeedPlans = 1..7
  BY DEF FeedPlans
<1>3. /\ FeedPlans[1] = Plan("utility", "legacy") /\ FeedPlans[2] = Plan("trace", "legacy")
      /\ FeedPlans[3] = Plan("base", "legacy") /\ FeedPlans[4] = Plan("base", "new")
      /\ FeedPlans[5] = Plan("loan", "new") /\ FeedPlans[6] = Plan("auto", "new")
      /\ FeedPlans[7] = Plan("tax", "new")
  BY DEF FeedPlans
<1>4. \A s, t : Plan(s, t).shape = s /\ Plan(s, t).table = t
  BY DEF Plan
<1> DEFINE F == FeedPlans
<1>5. \A i \in 1..7 : /\ F[i].shape \in Shapes /\ F[i].table \in Tables
                     /\ F[i] = Plan(F[i].shape, F[i].table)
  BY <1>1, <1>3, <1>4 DEF Shapes, Tables
<1>6. /\ F[1].shape = "utility" /\ F[2].shape = "trace" /\ F[3].shape = "base"
      /\ F[4].shape = "base" /\ F[5].shape = "loan" /\ F[6].shape = "auto"
      /\ F[7].shape = "tax" /\ F[3].table = "legacy" /\ F[4].table = "new"
      /\ F[1].table = "legacy"
  BY <1>3, <1>4
<1> HIDE DEF F
<1>7. \A i, j \in 1..7 : F[i].shape = F[j].shape /\ F[i].table = F[j].table => i = j
  BY <1>1, <1>6
<1>8. \A s \in Shapes : \E i \in 1..7 : F[i].shape = s
  <2>1. \A s \in Shapes : s \in {"utility", "trace", "base", "loan", "auto", "tax"}
    BY DEF Shapes
  <2> QED BY <1>6, <2>1
<1> QED BY <1>2, <1>5, <1>6, <1>7, <1>8 DEF F

LEMMA CorpusFacts ==
  ASSUME NEW c \in Corpora
  PROVE  /\ \A s \in Shapes : c[s] \in Seq(Rows) /\ 7 * Len(c[s]) <= SsnCapacity
         /\ c["utility"] # <<>> /\ c.drive \in Seq(Drives)
         /\ SsnCapacity \in Nat
<1>1. SsnCapacity \in Nat
  <2>1. Areas \in Nat /\ Groups \in Nat /\ Serials \in Nat
    BY SsnAssumption
  <2> QED BY <2>1 DEF SsnCapacity
<1>2. Len(FeedPlans) = 7
  BY PlanFacts
<1> QED BY <1>1, <1>2, LoaderAssumption

(* _plan_rows: rows that the plan owns, in their order, and all if there   *)
(* is no limit.                                                            *)
LEMMA PlanRowsFacts ==
  ASSUME csv \in Corpora, limit \in Limits \cup {None}, NEW i \in 1..7
  PROVE  LET p == FeedPlans[i]
             n == Len(PlanRows(p))
         IN  /\ PlanRows(p) \in Seq(Nat) /\ DOMAIN PlanRows(p) = 1..n
             /\ \A k \in 1..n : PlanRows(p)[k] \in Owned(p)
                                /\ PlanRows(p)[k] \in 1..Len(csv[p.shape])
             /\ 7 * n <= SsnCapacity
             /\ limit = None => \A x \in Owned(p) : \E k \in 1..n : PlanRows(p)[k] = x
             /\ i = 1 => n >= 1
<1> DEFINE p == FeedPlans[i]
           own == Owned(p)
           m == Cardinality(own)
           n == IF limit = None THEN m ELSE Min({limit, m})
           rows == PlanRows(p)
           len == Len(csv[p.shape])
<1>1. p.shape \in Shapes
  BY PlanFacts
<1>2. csv[p.shape] \in Seq(Rows) /\ 7 * len <= SsnCapacity /\ len \in Nat
       /\ SsnCapacity \in Nat
  BY <1>1, CorpusFacts
<1>3. own \subseteq 1..len
  BY <1>2 DEF Owned
<1> HIDE DEF len, own
<1>4. IsFiniteSet(1..len) /\ Cardinality(1..len) = len
  BY <1>2, FS_Interval
<1>5. /\ IsFiniteSet(own) /\ m <= len /\ m \in Nat /\ own \subseteq Nat
  <2>1. own \subseteq Nat
    BY <1>2, <1>3
  <2> QED BY <1>3, <1>4, <2>1, FS_Subset, FS_CardinalityType
<1>6. /\ \A x \in own : RankIn(own, x) \in 1..m
      /\ \A x, y \in own : x < y => RankIn(own, x) < RankIn(own, y)
      /\ \A k \in 1..m : \E x \in own : RankIn(own, x) = k
  BY <1>5, Ranks
<1>7. n \in 0..m /\ (limit = None => n = m) /\ (m >= 1 => n >= 1)
  <2>1. CASE limit = None
    BY <1>5, <2>1
  <2>2. CASE limit # None
    <3>1. limit \in Nat \ {0}
      BY <2>2, LoaderAssumption
    <3>2. Min({limit, m}) = IF limit <= m THEN limit ELSE m
      BY <1>5, <3>1, MinOfTwo
    <3> QED BY <1>5, <2>2, <3>1, <3>2
  <2> QED BY <2>1, <2>2
<1>8. rows = [k \in 1..n |-> CHOOSE x \in own : RankIn(own, x) = k]
  BY DEF PlanRows, RankIn, own
<1> HIDE DEF n, m, rows, p
<1>9. n \in Nat /\ \A k \in 1..n : k \in 1..m
  BY <1>5, <1>7
<1>10. \A k \in 1..n : rows[k] \in own /\ RankIn(own, rows[k]) = k
  BY <1>6, <1>8, <1>9
<1>11. rows \in [1..n -> Nat]
  BY <1>5, <1>8, <1>10
<1>12. rows \in Seq(Nat) /\ Len(rows) = n /\ DOMAIN rows = 1..n
  BY <1>9, <1>11
<1>13. 7 * n <= SsnCapacity
  BY <1>2, <1>5, <1>7
<1>14. ASSUME limit = None, NEW x \in own PROVE \E k \in 1..n : rows[k] = x
  <2>1. RankIn(own, x) \in 1..n
    BY <1>6, <1>7, <1>14
  <2>2. rows[RankIn(own, x)] \in own
         /\ RankIn(own, rows[RankIn(own, x)]) = RankIn(own, x)
    BY <1>10, <2>1
  <2>3. rows[RankIn(own, x)] = x
    <3> DEFINE y == rows[RankIn(own, x)]
    <3>1. y \in own /\ RankIn(own, y) = RankIn(own, x)
      BY <2>2
    <3> HIDE DEF y
    <3>2. ~(x < y) /\ ~(y < x)
      BY <1>6, <3>1
    <3>3. x = y
      BY <1>5, <3>1, <3>2
    <3> QED BY <3>3 DEF y
  <2> QED BY <2>1, <2>3
<1>15. ASSUME i = 1 PROVE n >= 1
  <2>1. p.shape = "utility" /\ csv["utility"] # <<>>
    BY <1>15, PlanFacts, CorpusFacts DEF p
  <2>2. 1 \in own
    BY <1>2, <2>1 DEF own, Owned
  <2>3. m # 0
    BY <1>5, <2>2, FS_EmptySet DEF m
  <2> QED BY <1>5, <1>7, <2>3
<1>16. \A k \in 1..n : rows[k] \in 1..len
  BY <1>3, <1>10
<1> QED BY <1>10, <1>12, <1>13, <1>14, <1>15, <1>16 DEF own, rows, p, len
------------------------------------------------------------------------------
(* The invariant. A process is fresh until its first COPY, of which the    *)
(* tables know nothing, and after it the tables are what it has copied: it *)
(* would otherwise have met record 10 of legacy, with which every load     *)
(* begins.                                                                 *)

Stages == Stopped \cup {"identify", "licences", "records", "oracle", "diverged",
                        "people", "masters", "links", "analyze"}

Fresh == \/ stage \in {"idle", "failed", "identify", "licences"}
         \/ stage = "records" /\ plan = 1

Fields == [name : Nat, home : Nat, dob : Nat, phone : Nat]

Dbs == [records : Seq(Records), oracle : SUBSET Owners, people : SUBSET People,
        masters : SUBSET Masters, links : SUBSET Links]

Owner(r, x) ==
  [person |-> x, table |-> r.table, id |-> r.id, shape |-> r.shape]

OwnersOf(recs, who, a, b) == {Owner(recs[i], who[i]) : i \in a..b}

OfPlan(r, i) == r.shape = FeedPlans[i].shape /\ r.table = FeedPlans[i].table

SamePlan(r, q) == r.shape = q.shape /\ r.table = q.table

(* The oracle knows the owners of the first m records, and the rest are    *)
(* all the records there are of one plan.                                  *)
Ledger(recs, oracle, who, m) ==
  /\ Len(recs) <= Len(who) /\ m \in 0..Len(recs)
  /\ \A i \in 1..Len(recs) : recs[i].ssn \in {None, SyntheticSsn(who[i])}
  /\ oracle = OwnersOf(recs, who, 1, m)
  /\ \A i \in (m + 1)..Len(recs), j \in 1..Len(recs) :
       j > m <=> SamePlan(recs[i], recs[j])

Whos == Seq(0..(SsnCapacity - 1))

IdsAscend(recs) ==
  \A i, j \in 1..Len(recs) : recs[i].table = recs[j].table /\ i < j =>
    recs[i].id < recs[j].id

DbOK(d) ==
  /\ d \in Dbs
  /\ IdsAscend(d.records)
  /\ d.records = <<>> => d = EmptyDb
  /\ d.records # <<>> => d.records[1].table = "legacy" /\ d.records[1].id = 10
  /\ \E who \in Whos, m \in Nat : Ledger(d.records, d.oracle, who, m)

TypesOK ==
  /\ csv \in Corpora /\ replaced \in BOOLEAN /\ stage \in Stages
  /\ limit \in Limits \cup {None} /\ plan \in 1..7 /\ count \in Nat
  /\ persons \in Seq(0..(Len(persons) - 1)) /\ Len(persons) <= SsnCapacity
  /\ licences \in [DOMAIN licences -> Nat]
  /\ nextId \in [Tables -> Nat]
  /\ stage = "licences" => plan = 1

Indexing(ix, p, c) ==
  /\ 7 * c <= SsnCapacity
  /\ \E rows \in Seq(Fields) :
       Indexed(ix, rows, {}) /\ 7 * Len(rows) <= (p - 1) * SsnCapacity + 7 * c

IndexOK ==
  /\ stage = "identify" => Indexing(index, plan, count)
  /\ stage # "identify" => index = EmptyIndex

FreshOK == Fresh => node = 0 /\ nextId = IdBase /\ pending = {}

CopyOK ==
  ~Fresh =>
    /\ node = Len(db.records) /\ node \in 1..Len(persons)
    /\ \A i \in 1..node : db.records[i].id < nextId[db.records[i].table]
    /\ \A i \in 1..node, k \in 1..7 :
         k > plan \/ (k = plan /\ stage = "records") => ~OfPlan(db.records[i], k)
    /\ \E m \in 0..node :
         /\ Ledger(db.records, db.oracle, persons, m)
         /\ pending = OwnersOf(db.records, persons, m + 1, node)
         /\ stage # "oracle" => m = node

EntityOK ==
  ~Fresh =>
    /\ stage \in {"people", "masters", "links", "analyze", "done"} => node = Len(persons)
    /\ db.people = IF stage \in {"masters", "links", "analyze", "done"}
                   THEN PeopleOf(db.oracle) ELSE {}
    /\ db.masters = IF stage \in {"links", "analyze", "done"}
                    THEN MastersOf(db.records) ELSE {}
    /\ db.links = IF stage \in {"analyze", "done"} THEN LinksOf(db.records) ELSE {}

IInv == TypesOK /\ DbOK(db) /\ IndexOK /\ FreshOK /\ CopyOK /\ EntityOK

------------------------------------------------------------------------------
(* What the ledger says of each record.                                    *)

Attributed(recs, oracle, who, m) ==
  LET n == Len(recs)
  IN  /\ n \in Nat /\ DOMAIN recs = 1..n /\ m \in 0..n
      /\ \A i \in 1..n : recs[i] \in Records /\ who[i] \in 0..(SsnCapacity - 1)
      /\ \A i, j \in 1..n : recs[i].table = recs[j].table /\ recs[i].id = recs[j].id
                            => i = j
      /\ oracle = OwnersOf(recs, who, 1, m)
      /\ \A i \in 1..m : Owner(recs[i], who[i]) \in oracle
      /\ \A o \in oracle : \E i \in 1..m : o = Owner(recs[i], who[i])
      /\ \A i \in 1..n : (\E o \in oracle : o.table = recs[i].table /\ o.id = recs[i].id)
                           <=> i <= m

LEMMA LedgerFacts ==
  ASSUME NEW d, d \in Dbs, IdsAscend(d.records),
         NEW who \in Whos, NEW m, Ledger(d.records, d.oracle, who, m)
  PROVE  Attributed(d.records, d.oracle, who, m)
<1> DEFINE recs == d.records
           n    == Len(recs)
<1>1. recs \in Seq(Records)
  BY DEF Dbs
<1>2. n \in Nat /\ DOMAIN recs = 1..n /\ m \in 0..n /\ \A i \in 1..n : recs[i] \in Records
  BY <1>1, LenProperties, ElementOfSeq DEF Ledger
<1>3. \A i \in 1..n : who[i] \in 0..(SsnCapacity - 1)
  <2>1. n <= Len(who)
    BY DEF Ledger
  <2>2. who \in Seq(0..(SsnCapacity - 1)) /\ Len(who) \in Nat
    BY LenProperties DEF Whos
  <2> SUFFICES ASSUME NEW i \in 1..n PROVE who[i] \in 0..(SsnCapacity - 1)
    OBVIOUS
  <2>3. i \in 1..Len(who)
    BY <1>2, <2>1, <2>2
  <2> QED BY <2>2, <2>3, ElementOfSeq
<1>4. ASSUME NEW i \in 1..n, NEW j \in 1..n, recs[i].table = recs[j].table,
             recs[i].id = recs[j].id
      PROVE  i = j
  <2>1. recs[i].id \in Nat
    BY <1>2 DEF Records
  <2>2. ~(i < j) /\ ~(j < i)
    BY <1>4, <2>1 DEF IdsAscend
  <2> QED BY <1>2, <2>2
<1>5. d.oracle = OwnersOf(recs, who, 1, m)
  BY DEF Ledger
<1>6. /\ \A i \in 1..m : Owner(recs[i], who[i]) \in d.oracle
      /\ \A o \in d.oracle : \E i \in 1..m : o = Owner(recs[i], who[i])
  BY <1>5 DEF OwnersOf
<1>7. \A r, x : Owner(r, x).table = r.table /\ Owner(r, x).id = r.id
  BY DEF Owner
<1> HIDE DEF n, recs
<1>8. ASSUME NEW i \in 1..n
      PROVE  (\E o \in d.oracle : o.table = recs[i].table /\ o.id = recs[i].id) <=> i <= m
  <2>1. ASSUME i <= m PROVE \E o \in d.oracle : o.table = recs[i].table /\ o.id = recs[i].id
    <3>1. i \in 1..m
      BY <1>2, <2>1
    <3> QED BY <1>6, <1>7, <3>1
  <2>2. ASSUME NEW o \in d.oracle, o.table = recs[i].table, o.id = recs[i].id
        PROVE  i <= m
    <3>1. PICK j \in 1..m : o = Owner(recs[j], who[j])
      BY <1>6
    <3>2. j \in 1..n /\ recs[j].table = recs[i].table /\ recs[j].id = recs[i].id
      BY <1>2, <1>7, <2>2, <3>1
    <3>3. i = j
      BY <1>4, <3>2
    <3> QED BY <1>2, <3>3
  <2> QED BY <2>1, <2>2
<1> QED BY <1>2, <1>3, <1>4, <1>5, <1>6, <1>8 DEF n, recs, Attributed

LEMMA OracleFollows ==
  ASSUME DbOK(db)
  PROVE  OracleBehindOnePlan
<1> DEFINE recs == db.records
           n    == Len(recs)
           owned(r) == \E o \in db.oracle : o.table = r.table /\ o.id = r.id
           bare == {i \in DOMAIN recs : ~owned(recs[i])}
<1>1. PICK who \in Whos, m \in Nat : Ledger(recs, db.oracle, who, m)
  BY DEF DbOK
<1>2. /\ n \in Nat /\ DOMAIN recs = 1..n /\ m \in 0..n
      /\ \A i, j \in 1..n : recs[i].table = recs[j].table /\ recs[i].id = recs[j].id => i = j
      /\ \A o \in db.oracle : \E i \in 1..m : o = Owner(recs[i], who[i])
      /\ \A i \in 1..n : owned(recs[i]) <=> i <= m
  <2>1. Attributed(recs, db.oracle, who, m)
    BY <1>1, LedgerFacts DEF DbOK
  <2> HIDE DEF recs
  <2> QED BY <2>1 DEF Attributed
<1>3. \A i \in (m + 1)..n, j \in 1..n : j > m <=> SamePlan(recs[i], recs[j])
  BY <1>1 DEF Ledger
<1> HIDE DEF owned, recs, n
<1>4. bare = (m + 1)..n
  BY <1>2
<1>5. ASSUME NEW o \in db.oracle
      PROVE  Cardinality({i \in DOMAIN recs : /\ recs[i].table = o.table /\ recs[i].id = o.id
                                              /\ recs[i].shape = o.shape}) = 1
  <2>1. PICK i \in 1..m : o = Owner(recs[i], who[i])
    BY <1>2
  <2>2. /\ o.table = recs[i].table /\ o.id = recs[i].id /\ o.shape = recs[i].shape
        /\ i \in 1..n
    BY <1>2, <2>1 DEF Owner
  <2>3. {k \in DOMAIN recs : /\ recs[k].table = o.table /\ recs[k].id = o.id
                             /\ recs[k].shape = o.shape} = {i}
    BY <1>2, <2>2
  <2> QED BY <2>3, FS_Singleton
<1>6. ASSUME NEW i \in bare, NEW j \in DOMAIN recs
      PROVE  /\ j \in bare <=> recs[i].shape = recs[j].shape /\ recs[i].table = recs[j].table
             /\ j > i => j \in bare
  <2>1. i \in (m + 1)..n /\ j \in 1..n
    BY <1>2, <1>4
  <2>2. j \in bare <=> j > m
    BY <1>2, <1>4, <2>1
  <2> QED BY <1>2, <1>3, <2>1, <2>2 DEF SamePlan
<1> QED BY <1>5, <1>6 DEF OracleBehindOnePlan, bare, owned, recs

------------------------------------------------------------------------------
(* The entity graph. Hal numbers the ssns that there are.                  *)

LEMMA HalFacts ==
  ASSUME NEW recs, NEW n \in Nat, DOMAIN recs = 1..n,
         \A i \in Linked(recs) : recs[i].ssn \in Nat
  PROVE  /\ Ssns(recs) = {recs[i].ssn : i \in Linked(recs)}
         /\ Ssns(recs) \subseteq Nat /\ IsFiniteSet(Linked(recs))
         /\ \A s \in Ssns(recs) : Hal(recs, s) \in Nat
         /\ \A s, t \in Ssns(recs) : Hal(recs, s) = Hal(recs, t) => s = t
<1> DEFINE S == Ssns(recs)
           L == Linked(recs)
           below(s) == {t \in S : t < s}
           upto(s)  == {t \in S : t <= s}
<1>1. S = {recs[i].ssn : i \in L}
  BY DEF Ssns, Linked, ToSet
<1>2. S \subseteq Nat
  BY <1>1
<1>3. IsFiniteSet(L)
  <2>1. IsFiniteSet(1..n)
    BY FS_Interval
  <2>2. L \subseteq 1..n
    BY DEF Linked
  <2> QED BY <2>1, <2>2, FS_Subset
<1>4. IsFiniteSet(S)
  <2> DEFINE f == [i \in L |-> recs[i].ssn]
  <2>1. f \in Surjection(L, S)
    BY <1>1 DEF Surjection
  <2> HIDE DEF f, L, S
  <2> QED BY <1>3, <2>1, FS_Surjection
<1> HIDE DEF S, L
<1>5. ASSUME NEW s \in S
      PROVE  Hal(recs, s) \in Nat /\ RankIn(S, s) = Hal(recs, s) + 1
  <2>1. upto(s) = below(s) \cup {s} /\ s \notin below(s) /\ below(s) \subseteq S
    <3>1. \A t \in S : t <= s <=> t < s \/ t = s
      BY <1>2
    <3>2. ~(s < s)
      BY <1>2
    <3> QED BY <3>1, <3>2
  <2>2. Hal(recs, s) = Cardinality(below(s)) /\ RankIn(S, s) = Cardinality(upto(s))
    BY DEF Hal, RankIn, S
  <2> HIDE DEF below, upto
  <2>3. IsFiniteSet(below(s)) /\ Cardinality(below(s)) \in Nat
    BY <1>4, <2>1, FS_Subset, FS_CardinalityType
  <2>4. Cardinality(upto(s)) = Cardinality(below(s)) + 1
    BY <2>1, <2>3, FS_AddElement
  <2> QED BY <2>2, <2>3, <2>4
<1>6. \A s, t \in S : s < t => RankIn(S, s) < RankIn(S, t)
  BY <1>2, <1>4, Ranks
<1>7. ASSUME NEW s \in S, NEW t \in S, Hal(recs, s) = Hal(recs, t) PROVE s = t
  <2>1. ~(s < t) /\ ~(t < s)
    BY <1>5, <1>6, <1>7
  <2> QED BY <1>2, <2>1
<1> QED BY <1>1, <1>2, <1>3, <1>5, <1>7 DEF S, L

LEMMA BijectionCounts ==
  ASSUME NEW S, NEW T, IsFiniteSet(S), NEW f \in Bijection(S, T)
  PROVE  IsFiniteSet(T) /\ Cardinality(T) = Cardinality(S)
<1>1. ExistsBijection(S, T)
  BY DEF ExistsBijection
<1> QED BY <1>1, FS_Bijection

LEMMA PersonsAreWhos ==
  ASSUME TypesOK
  PROVE  persons \in Whos
<1>1. /\ persons \in Seq(0..(Len(persons) - 1)) /\ Len(persons) \in Nat
      /\ Len(persons) <= SsnCapacity
  BY LenProperties DEF TypesOK
<1>2. SsnCapacity \in Nat
  BY CorpusFacts DEF TypesOK
<1>3. \A i \in 1..Len(persons) : persons[i] \in 0..(SsnCapacity - 1)
  <2> TAKE i \in 1..Len(persons)
  <2>1. persons[i] \in 0..(Len(persons) - 1)
    BY <1>1, ElementOfSeq
  <2> QED BY <1>1, <1>2, <2>1
<1> DEFINE W == 0..(SsnCapacity - 1)
<1>4. \A i \in 1..Len(persons) : persons[i] \in W
  BY <1>3
<1> HIDE DEF W
<1>5. persons = [i \in 1..Len(persons) |-> persons[i]]
  BY <1>1
<1>6. persons \in [1..Len(persons) -> W]
  BY <1>4, <1>5
<1>7. persons \in Seq(W)
  BY <1>1, <1>6
<1> QED BY <1>7 DEF Whos, W

LEMMA EntitiesFollow ==
  ASSUME TypesOK, DbOK(db), CopyOK, EntityOK
  PROVE  EntitiesArePeople
<1> SUFFICES ASSUME stage = "done" PROVE EntitiesArePeople
  BY DEF EntitiesArePeople
<1> DEFINE recs == db.records
           n    == Len(recs)
           who  == persons
           L    == Linked(recs)
           S    == Ssns(recs)
           hal(s) == Hal(recs, s)
           link(i) == [hal |-> hal(recs[i].ssn), table |-> recs[i].table, id |-> recs[i].id]
           own(i) == Owner(recs[i], who[i])
           owner(l) == CHOOSE o \in db.oracle : o.table = l.table /\ o.id = l.id
<1>1. ~Fresh
  BY DEF Fresh
<1>2. who \in Whos
  BY PersonsAreWhos
<1>3. Ledger(recs, db.oracle, who, n)
  BY <1>1 DEF CopyOK
<1>4. Attributed(recs, db.oracle, who, n)
  BY <1>2, <1>3, LedgerFacts DEF DbOK
<1>5. /\ n \in Nat /\ DOMAIN recs = 1..n
      /\ \A i \in 1..n : recs[i] \in Records /\ who[i] \in 0..(SsnCapacity - 1)
      /\ \A i, j \in 1..n : recs[i].table = recs[j].table /\ recs[i].id = recs[j].id => i = j
      /\ \A i \in 1..n : own(i) \in db.oracle
      /\ \A o \in db.oracle : \E i \in 1..n : o = own(i)
      /\ db.oracle = OwnersOf(recs, who, 1, n)
  <2> HIDE DEF recs, who
  <2> QED BY <1>4 DEF Attributed
<1>6. \A i \in 1..n : recs[i].ssn \in {None, SyntheticSsn(who[i])}
  BY <1>3 DEF Ledger
<1>7. /\ db.people = PeopleOf(db.oracle) /\ db.masters = MastersOf(recs)
      /\ db.links = LinksOf(recs)
  BY <1>1 DEF EntityOK
<1> HIDE DEF recs, n, who
<1>8. \A i \in L : i \in 1..n /\ recs[i].ssn = SyntheticSsn(who[i])
  BY <1>5, <1>6 DEF Linked
<1>9. \A i \in L : recs[i].ssn \in Nat
  <2> TAKE i \in L
  <2>1. who[i] \in Nat
    BY <1>5, <1>8
  <2> QED BY <1>8, <2>1, SsnIsNatural
<1>10. /\ S = {recs[i].ssn : i \in L} /\ IsFiniteSet(L)
       /\ \A s, t \in S : hal(s) = hal(t) => s = t
  BY <1>5, <1>9, HalFacts
<1>11. \A i, j \in L : recs[i].ssn = recs[j].ssn <=> who[i] = who[j]
  BY <1>5, <1>8, SsnsDiffer
<1> HIDE DEF hal, S
<1>12. db.links = {link(i) : i \in L}
  BY <1>7 DEF LinksOf, hal
<1>13. \A i \in L : /\ link(i).hal = hal(recs[i].ssn) /\ link(i).table = recs[i].table
                    /\ link(i).id = recs[i].id /\ link(i) \in db.links
  BY <1>12
<1>14. \A i \in 1..n : /\ own(i).person = who[i] /\ own(i).table = recs[i].table
                       /\ own(i).id = recs[i].id
  BY DEF Owner
<1> HIDE DEF L, link, own
<1>15. \A l \in db.links : \E i \in L : l = link(i)
  BY <1>12
<1>16. \A i, j \in L : link(i) = link(j) => i = j
  BY <1>5, <1>8, <1>13
<1>17. \A i \in L : owner(link(i)) = own(i)
  <2> TAKE i \in L
  <2>1. own(i) \in db.oracle /\ own(i).table = link(i).table /\ own(i).id = link(i).id
    BY <1>5, <1>8, <1>13, <1>14
  <2>2. ASSUME NEW o \in db.oracle, o.table = link(i).table, o.id = link(i).id
        PROVE  o = own(i)
    <3>1. PICK j \in 1..n : o = own(j)
      BY <1>5
    <3>2. recs[j].table = recs[i].table /\ recs[j].id = recs[i].id
      BY <1>8, <1>13, <1>14, <2>2, <3>1
    <3>3. i = j
      BY <1>5, <1>8, <3>2
    <3> QED BY <3>1, <3>3
  <2> QED BY <2>1, <2>2
<1> HIDE DEF owner
<1>18. Cardinality(db.links) = Cardinality(L)
  <2> DEFINE f == [i \in L |-> link(i)]
  <2>1. f \in Bijection(L, db.links)
    BY <1>13, <1>15, <1>16 DEF Bijection, Injection, Surjection, IsInjective
  <2> HIDE DEF f
  <2> QED BY <1>10, <2>1, BijectionCounts
<1>19. ASSUME NEW l \in db.links, NEW m \in db.links
       PROVE  l.hal = m.hal <=> owner(l).person = owner(m).person
  <2>1. PICK i \in L : l = link(i)
    BY <1>15
  <2>2. PICK j \in L : m = link(j)
    BY <1>15
  <2>3. recs[i].ssn \in S /\ recs[j].ssn \in S
    BY <1>10
  <2>4. l.hal = m.hal <=> recs[i].ssn = recs[j].ssn
    BY <1>10, <1>13, <2>1, <2>2, <2>3
  <2>5. owner(l).person = who[i] /\ owner(m).person = who[j]
    BY <1>8, <1>14, <1>17, <2>1, <2>2
  <2> QED BY <1>11, <2>4, <2>5
<1>20. \A e \in db.masters : \E s \in S :
         /\ e.hal = hal(s) /\ e.ssn = s
         /\ e.count = Cardinality({i \in 1..n : recs[i].ssn = s})
  <2> DEFINE master(s) == [hal |-> hal(s), ssn |-> s,
                           count |-> Cardinality({i \in 1..n : recs[i].ssn = s})]
  <2>1. db.masters = {master(s) : s \in S}
    BY <1>5, <1>7 DEF MastersOf, S, hal
  <2>2. \A s : /\ master(s).hal = hal(s) /\ master(s).ssn = s
               /\ master(s).count = Cardinality({i \in 1..n : recs[i].ssn = s})
    OBVIOUS
  <2> HIDE DEF master
  <2> QED BY <2>1, <2>2
<1>21. ASSUME NEW e \in db.masters
       PROVE  /\ e.count = Cardinality({l \in db.links : l.hal = e.hal})
              /\ \E x \in db.people : x.ssn = e.ssn /\ e.count <= x.count
  <2>1. PICK s \in S : /\ e.hal = hal(s) /\ e.ssn = s
                       /\ e.count = Cardinality({i \in 1..n : recs[i].ssn = s})
    BY <1>20
  <2> DEFINE I == {i \in 1..n : recs[i].ssn = s}
             K == {l \in db.links : l.hal = e.hal}
  <2>2. PICK k \in L : recs[k].ssn = s
    BY <1>10
  <2>3. I \subseteq L
    <3>1. s # None
      BY <2>2 DEF L, Linked
    <3> QED BY <1>5, <3>1 DEF L, Linked
  <2>4. IsFiniteSet(I)
    BY <1>10, <2>3, FS_Subset
  <2>5. \A i \in L : recs[i].ssn = s => i \in I
    BY <1>8
  <2>6. Cardinality(K) = Cardinality(I)
    <3> DEFINE f == [i \in I |-> link(i)]
    <3>1. \A i \in I : link(i) \in K
      BY <1>13, <2>1, <2>3
    <3>2. ASSUME NEW l \in K PROVE \E i \in I : l = link(i)
      <4>1. PICK i \in L : l = link(i)
        BY <1>15
      <4>2. hal(recs[i].ssn) = hal(s) /\ recs[i].ssn \in S
        BY <1>10, <1>13, <2>1, <4>1
      <4>3. recs[i].ssn = s
        BY <1>10, <4>2
      <4> QED BY <2>5, <4>1, <4>3
    <3>3. \A i, j \in I : link(i) = link(j) => i = j
      BY <1>16, <2>3
    <3> HIDE DEF I, K
    <3>4. f \in Bijection(I, K)
      BY <3>1, <3>2, <3>3 DEF Bijection, Injection, Surjection, IsInjective
    <3> HIDE DEF f
    <3> QED BY <2>4, <3>4, BijectionCounts
  <2> DEFINE O == {o \in db.oracle : o.person = who[k]}
             x == [person |-> who[k], ssn |-> SyntheticSsn(who[k]),
                   count |-> Cardinality(O)]
  <2>7. x \in db.people
    <3>1. own(k) \in db.oracle /\ own(k).person = who[k]
      BY <1>5, <1>8, <1>14
    <3> QED BY <1>7, <3>1 DEF PeopleOf
  <2>8. x.ssn = e.ssn /\ x.count = Cardinality(O)
    BY <1>8, <2>1, <2>2
  <2>9. IsFiniteSet(O)
    <3> DEFINE f == [i \in 1..n |-> own(i)]
    <3>1. f \in Surjection(1..n, db.oracle)
      BY <1>5 DEF Surjection
    <3>2. IsFiniteSet(1..n)
      BY <1>5, FS_Interval
    <3> HIDE DEF f
    <3>3. IsFiniteSet(db.oracle)
      BY <3>1, <3>2, FS_Surjection
    <3> QED BY <3>3, FS_Subset
  <2>10. Cardinality(I) <= Cardinality(O)
    <3> DEFINE f == [i \in I |-> own(i)]
    <3>1. \A i \in I : own(i) \in O
      BY <1>5, <1>8, <1>11, <1>14, <2>2, <2>3
    <3>2. \A i, j \in I : own(i) = own(j) => i = j
      <4>1. \A i \in I : i \in 1..n
        OBVIOUS
      <4> HIDE DEF I
      <4> QED BY <1>5, <1>14, <4>1
    <3> HIDE DEF I, O
    <3>3. f \in Injection(I, O)
      BY <3>1, <3>2 DEF Injection, IsInjective
    <3> HIDE DEF f
    <3> QED BY <2>9, <3>3, FS_Injection
  <2> HIDE DEF I, K, O, x
  <2> QED BY <2>1, <2>6, <2>7, <2>8, <2>10 DEF I, K
<1>22. {l.hal : l \in db.links} = {e.hal : e \in db.masters}
  <2>1. {l.hal : l \in db.links} = {hal(s) : s \in S}
    <3>1. \A l \in db.links : \E s \in S : l.hal = hal(s)
      BY <1>10, <1>13, <1>15
    <3>2. \A s \in S : \E l \in db.links : l.hal = hal(s)
      BY <1>10, <1>13
    <3> QED BY <3>1, <3>2
  <2>2. \A s \in S : \E e \in db.masters : e.hal = hal(s)
    <3> DEFINE master(s) == [hal |-> hal(s), ssn |-> s,
                             count |-> Cardinality({i \in 1..n : recs[i].ssn = s})]
    <3>1. db.masters = {master(s) : s \in S}
      BY <1>5, <1>7 DEF MastersOf, S, hal
    <3>2. \A s : master(s).hal = hal(s)
      OBVIOUS
    <3> HIDE DEF master
    <3> QED BY <3>1, <3>2
  <2>3. \A e \in db.masters : \E s \in S : e.hal = hal(s)
    BY <1>20
  <2> QED BY <2>1, <2>2, <2>3
<1> QED BY <1>18, <1>19, <1>21, <1>22 DEF EntitiesArePeople, L, recs, owner

------------------------------------------------------------------------------
(* The invariant says what the properties do.                              *)

LEMMA IndexTypes ==
  ASSUME NEW ix, NEW p, NEW c, Indexing(ix, p, c) \/ ix = EmptyIndex
  PROVE  ix.parent \in Seq(Nat) /\ Len(ix.rank) = Len(ix.parent)
<1>1. CASE ix = EmptyIndex
  BY <1>1 DEF EmptyIndex
<1>2. CASE Indexing(ix, p, c)
  <2>1. PICK rows \in Seq(Fields) : Forest(ix.parent, ix.rank, Len(rows))
    BY <1>2 DEF Indexing, Indexed
  <2> DEFINE n == Len(rows)
  <2>2. n \in Nat
    BY LenProperties
  <2>3. ix.parent \in [1..n -> 1..n] /\ ix.rank \in [1..n -> Nat]
    BY <2>1 DEF Forest
  <2> HIDE DEF n
  <2>4. ix.parent \in [1..n -> Nat]
    <3>1. 1..n \subseteq Nat
      BY <2>2
    <3> QED BY <2>3, <3>1
  <2>5. ix.parent \in Seq(Nat) /\ Len(ix.parent) = n
    BY <2>2, <2>4
  <2>6. Len(ix.rank) = n
    BY <2>2, <2>3
  <2> QED BY <2>5, <2>6
<1> QED BY <1>1, <1>2

LEMMA OwnersFinite ==
  ASSUME NEW recs, NEW who, NEW a \in Nat \ {0}, NEW b \in Nat, a <= b + 1,
         \A i \in a..b : recs[i] \in Records /\ who[i] \in Nat
  PROVE  /\ OwnersOf(recs, who, a, b) \subseteq Owners
         /\ IsFiniteSet(OwnersOf(recs, who, a, b))
         /\ Cardinality(OwnersOf(recs, who, a, b)) <= b - a + 1
<1> DEFINE f == [i \in a..b |-> Owner(recs[i], who[i])]
           O == OwnersOf(recs, who, a, b)
<1>1. f \in Surjection(a..b, O)
  BY DEF Surjection, OwnersOf
<1>2. IsFiniteSet(a..b) /\ Cardinality(a..b) = b - a + 1
  <2>1. a \in Int /\ b \in Int /\ (a > b => b - a + 1 = 0)
    OBVIOUS
  <2> QED BY <2>1, FS_Interval
<1>3. O \subseteq Owners
  BY DEF OwnersOf, Owner, Owners, Records
<1> HIDE DEF f, O
<1> QED BY <1>1, <1>2, <1>3, FS_Surjection DEF O

LEMMA CopiedFacts ==
  ASSUME TypesOK, DbOK(db), CopyOK, ~Fresh
  PROVE  \E m \in 0..node :
           /\ node = Len(db.records) /\ node \in Nat /\ node >= 1
           /\ node <= Len(persons) /\ Len(persons) \in Nat
           /\ Ledger(db.records, db.oracle, persons, m)
           /\ Attributed(db.records, db.oracle, persons, m)
           /\ pending = OwnersOf(db.records, persons, m + 1, node)
           /\ stage # "oracle" => m = node
           /\ \A i \in 1..node : persons[i] \in Nat
<1>1. PICK m \in 0..node :
        /\ Ledger(db.records, db.oracle, persons, m)
        /\ pending = OwnersOf(db.records, persons, m + 1, node)
        /\ stage # "oracle" => m = node
  BY DEF CopyOK
<1>2. Attributed(db.records, db.oracle, persons, m)
  BY <1>1, PersonsAreWhos, LedgerFacts DEF DbOK
<1>3. Len(persons) \in Nat /\ node \in 1..Len(persons) /\ node = Len(db.records)
  BY LenProperties DEF TypesOK, CopyOK
<1>4. \A i \in 1..node : persons[i] \in Nat
  BY <1>2, <1>3 DEF Attributed
<1> QED BY <1>1, <1>2, <1>3, <1>4

LEMMA TypesFollow ==
  ASSUME IInv
  PROVE  TypeOK
<1>1. TypesOK /\ DbOK(db) /\ IndexOK /\ FreshOK /\ CopyOK
  BY DEF IInv
<1>2. index.parent \in Seq(Nat) /\ Len(index.rank) = Len(index.parent)
  BY <1>1, IndexTypes DEF IndexOK
<1>3. /\ node \in 0..Len(persons) /\ pending \subseteq Owners
      /\ Cardinality(pending) <= node
  <2>1. CASE Fresh
    <3>1. Len(persons) \in Nat
      BY <1>1, LenProperties DEF TypesOK
    <3>2. node = 0 /\ pending = {}
      BY <1>1, <2>1 DEF FreshOK
    <3> QED BY <3>1, <3>2, FS_EmptySet
  <2>2. CASE ~Fresh
    <3>1. PICK m \in 0..node :
            /\ node = Len(db.records) /\ node \in Nat
            /\ node <= Len(persons) /\ Len(persons) \in Nat
            /\ pending = OwnersOf(db.records, persons, m + 1, node)
            /\ Attributed(db.records, db.oracle, persons, m)
            /\ \A i \in 1..node : persons[i] \in Nat
      BY <1>1, <2>2, CopiedFacts
    <3>2. \A i \in (m + 1)..node : db.records[i] \in Records /\ persons[i] \in Nat
      BY <3>1 DEF Attributed
    <3>3. m + 1 \in Nat \ {0} /\ m + 1 <= node + 1
      BY <3>1
    <3>4. /\ pending \subseteq Owners /\ IsFiniteSet(pending)
          /\ Cardinality(pending) <= node - (m + 1) + 1
      BY <3>1, <3>2, <3>3, OwnersFinite
    <3>5. Cardinality(pending) \in Nat
      BY <3>4, FS_CardinalityType
    <3> QED BY <3>1, <3>4, <3>5
  <2> QED BY <2>1, <2>2
<1>4. Range(licences) \subseteq Nat
  BY <1>1 DEF TypesOK, Range
<1>5. /\ db.records \in Seq(Records) /\ db.oracle \subseteq Owners
      /\ db.people \subseteq People /\ db.masters \subseteq Masters
      /\ db.links \subseteq Links
  BY <1>1 DEF DbOK, Dbs
<1>6. plan \in DOMAIN FeedPlans
  BY <1>1, PlanFacts DEF TypesOK
<1> QED BY <1>1, <1>2, <1>3, <1>4, <1>5, <1>6 DEF TypesOK, TypeOK, Stages

LEMMA AccountsFollow ==
  ASSUME IInv
  PROVE  RowsAccounted
BY DEF IInv, CopyOK, EntityOK, RowsAccounted, Fresh

------------------------------------------------------------------------------
(* A process that begins, or ends with an error.                           *)

LEMMA EmptyDbOK == DbOK(EmptyDb)
<1>1. EmptyDb \in Dbs /\ EmptyDb.records = <<>> /\ EmptyDb.oracle = {}
  BY DEF EmptyDb, Dbs
<1>2. IdsAscend(<<>>)
  BY DEF IdsAscend
<1>3. Ledger(<<>>, {}, <<>>, 0) /\ <<>> \in Whos
  <2>1. OwnersOf(<<>>, <<>>, 1, 0) = {}
    BY DEF OwnersOf
  <2> QED BY <2>1 DEF Ledger, Whos
<1> QED BY <1>1, <1>2, <1>3 DEF DbOK

LEMMA EmptyIndexed == Indexed(EmptyIndex, <<>>, {}) /\ Indexing(EmptyIndex, 1, 0)
<1>1. /\ EmptyIndex.parent = <<>> /\ EmptyIndex.rank = <<>> /\ EmptyIndex.blocks = <<>>
      /\ EmptyIndex = [parent |-> <<>>, rank |-> <<>>, blocks |-> <<>>]
  BY DEF EmptyIndex
<1>2. Forest(<<>>, <<>>, 0)
  BY DEF Forest
<1>3. Anchored(EmptyIndex, <<>>, {})
  BY <1>1 DEF Anchored
<1>4. Indexed(EmptyIndex, <<>>, {})
  BY <1>1, <1>2, <1>3 DEF Indexed
<1>5. SsnCapacity \in Nat
  <2>1. Areas \in Nat /\ Groups \in Nat /\ Serials \in Nat
    BY SsnAssumption
  <2> QED BY <2>1 DEF SsnCapacity
<1>6. /\ 7 * 0 <= SsnCapacity /\ 7 * Len(<<>>) <= (1 - 1) * SsnCapacity + 7 * 0
      /\ <<>> \in Seq(Fields)
  BY <1>5
<1>7. Indexing(EmptyIndex, 1, 0)
  BY <1>4, <1>6, Zenon DEF Indexing
<1> QED BY <1>4, <1>7

LEMMA NewProcess ==
  ASSUME IInv, NewMemory, stage' \in {"idle", "failed", "identify"}, csv' = csv,
         limit' \in Limits \cup {None}, replaced' \in BOOLEAN,
         db' = db \/ db' = EmptyDb
  PROVE  IInv'
<1>1. DbOK(db)'
  <2>1. DbOK(db')
    BY EmptyDbOK DEF IInv
  <2> QED BY <2>1 DEF DbOK
<1>2. /\ plan' = 1 /\ count' = 0 /\ index' = EmptyIndex /\ persons' = <<>>
      /\ licences' = <<>> /\ node' = 0 /\ nextId' = IdBase /\ pending' = {}
  BY DEF NewMemory
<1>3. TypesOK'
  <2>1. IdBase \in [Tables -> Nat]
    BY DEF IdBase, Tables
  <2>2. csv \in Corpora
    BY DEF IInv, TypesOK
  <2>3. SsnCapacity \in Nat
    BY <2>2, CorpusFacts
  <2>4. stage' \in Stages
    BY DEF Stages, Stopped
  <2>5. <<>> \in Seq(0..(Len(<<>>) - 1)) /\ Len(<<>>) <= SsnCapacity
    BY <2>3
  <2>6. <<>> \in [DOMAIN <<>> -> Nat]
    OBVIOUS
  <2> QED BY <1>2, <2>1, <2>2, <2>4, <2>5, <2>6 DEF TypesOK
<1>4. IndexOK'
  BY <1>2, EmptyIndexed DEF IndexOK
<1>5. Fresh'
  BY DEF Fresh
<1> QED BY <1>1, <1>2, <1>3, <1>4, <1>5 DEF IInv, FreshOK, CopyOK, EntityOK

LEMMA AbortStep ==
  ASSUME IInv, Abort
  PROVE  IInv'
BY NewProcess DEF Abort, IInv, TypesOK

LEMMA StartStep ==
  ASSUME IInv, NEW l \in Limits, Start(l)
  PROVE  IInv'
BY NewProcess DEF Start

LEMMA RebuildStep ==
  ASSUME IInv, Rebuild
  PROVE  IInv'
BY NewProcess DEF Rebuild, IInv, TypesOK

LEMMA CheckoutStep ==
  ASSUME IInv, Checkout
  PROVE  IInv'
<1>1. csv' \in Corpora /\ replaced' \in BOOLEAN
  BY LoaderAssumption DEF Checkout
<1>2. UNCHANGED <<stage, limit, plan, count, index, persons, licences, node, nextId,
                  pending, db>>
  BY DEF Checkout, memory
<1>3. TypesOK'
  BY <1>1, <1>2 DEF IInv, TypesOK
<1>4. DbOK(db)' /\ IndexOK'
  <2>1. DbOK(db') /\ (stage' = "identify" => Indexing(index', plan', count'))
    BY <1>2 DEF IInv, IndexOK
  <2>2. stage' # "identify" => index' = EmptyIndex
    BY <1>2 DEF IInv, IndexOK
  <2> QED BY <2>1, <2>2 DEF DbOK, IndexOK, Indexing
<1>5. Fresh' <=> Fresh
  BY <1>2 DEF Fresh
<1>6. FreshOK' /\ CopyOK' /\ EntityOK'
  BY <1>2, <1>5 DEF IInv, FreshOK, CopyOK, EntityOK
<1> QED BY <1>3, <1>4, <1>6 DEF IInv

------------------------------------------------------------------------------
(* Pass 1 *)

LEMMA RowFields ==
  ASSUME csv \in Corpora, limit \in Limits \cup {None}, NEW i \in 1..7,
         NEW k \in 1..Len(PlanRows(FeedPlans[i]))
  PROVE  LET p == FeedPlans[i]
             row == csv[p.shape][PlanRows(p)[k]]
         IN  /\ row \in Rows /\ PlanRows(p)[k] \in Nat
             /\ IdentityFields(p.shape, row) \in Fields
<1> DEFINE p == FeedPlans[i]
           at == PlanRows(p)[k]
           row == csv[p.shape][at]
<1>1. p.shape \in Shapes
  BY PlanFacts
<1>2. csv[p.shape] \in Seq(Rows)
  BY <1>1, CorpusFacts
<1>3. at \in 1..Len(csv[p.shape])
  BY PlanRowsFacts
<1> HIDE DEF p, at
<1>4. row \in Rows /\ at \in Nat
  <2>1. at \in Nat
    BY <1>2, <1>3
  <2> QED BY <1>2, <1>3, <2>1, ElementOfSeq
<1> HIDE DEF row
<1>5. /\ row.name \in Nat /\ row.home \in Nat /\ row.dob \in Nat /\ row.phone \in Nat
  BY <1>4 DEF Rows
<1>6. IdentityFields(p.shape, row) \in Fields
  BY <1>5 DEF IdentityFields, Fields
<1> QED BY <1>4, <1>6 DEF row, at, p

LEMMA ForestLength ==
  ASSUME NEW parent, NEW rank, NEW n \in Nat, Forest(parent, rank, n)
  PROVE  Len(parent) = n /\ parent \in Seq(Nat)
<1>1. parent \in [1..n -> 1..n]
  BY DEF Forest
<1>2. 1..n \subseteq Nat
  OBVIOUS
<1>3. parent \in [1..n -> Nat]
  BY <1>1, <1>2
<1> QED BY <1>3

LEMMA IdentifyStep ==
  ASSUME IInv, IdentifyRow
  PROVE  IInv'
<1> DEFINE p == FeedPlans[plan]
           row == IdentityFields(p.shape, csv[p.shape][PlanRows(p)[count + 1]])
           n == Len(PlanRows(p))
<1>1. /\ stage = "identify" /\ count < n /\ index' = Add(index, row) /\ count' = count + 1
      /\ UNCHANGED <<csv, replaced, stage, limit, plan, persons, licences, node, nextId,
                     pending, db>>
  BY DEF IdentifyRow
<1>2. /\ csv \in Corpora /\ limit \in Limits \cup {None} /\ plan \in 1..7 /\ count \in Nat
  BY DEF IInv, TypesOK
<1>3. n \in Nat /\ 7 * n <= SsnCapacity
  BY <1>2, PlanRowsFacts, LenProperties
<1>4. count + 1 \in 1..n
  BY <1>1, <1>2, <1>3
<1>5. row \in Fields
  BY <1>2, <1>4, RowFields
<1>6. PICK rows \in Seq(Fields) :
        /\ Indexed(index, rows, {})
        /\ 7 * Len(rows) <= (plan - 1) * SsnCapacity + 7 * count
  BY <1>1 DEF IInv, IndexOK, Indexing
<1>7. Len(rows) \in Nat /\ Len(index.parent) = Len(rows)
  BY <1>6, LenProperties, ForestLength DEF Indexed
<1> HIDE DEF row, n
<1> DEFINE more == Append(rows, row)
<1>8. Indexed(index', more, {})
  BY <1>1, <1>5, <1>6, <1>7, AddStep
<1>9. more \in Seq(Fields) /\ Len(more) = Len(rows) + 1
  BY <1>5, <1>6, AppendProperties
<1> HIDE DEF more
<1>10. SsnCapacity \in Nat
  BY <1>2, CorpusFacts
<1>11. 7 * (count + 1) <= SsnCapacity
  BY <1>2, <1>3, <1>4, <1>10
<1>12. 7 * Len(more) <= (plan - 1) * SsnCapacity + 7 * (count + 1)
  <2> DEFINE x == (plan - 1) * SsnCapacity
  <2>1. x \in Int
    BY <1>2, <1>10
  <2>2. 7 * Len(rows) <= x + 7 * count
    BY <1>6
  <2> HIDE DEF x
  <2>3. 7 * Len(more) <= x + 7 * (count + 1)
    BY <1>2, <1>7, <1>9, <2>1, <2>2
  <2> QED BY <2>3 DEF x
<1>13. Indexing(index', plan', count')
  BY <1>1, <1>8, <1>9, <1>11, <1>12 DEF Indexing
<1>14. IndexOK'
  <2>1. Indexing(index', plan', count') /\ stage' = "identify"
    BY <1>1, <1>13
  <2> QED BY <2>1 DEF IndexOK, Indexing
<1>15. TypesOK'
  BY <1>1, <1>2 DEF IInv, TypesOK
<1>16. Fresh /\ Fresh' /\ DbOK(db)'
  <2>1. DbOK(db')
    BY <1>1 DEF IInv
  <2> QED BY <1>1, <2>1 DEF Fresh, DbOK
<1> QED BY <1>1, <1>14, <1>15, <1>16 DEF IInv, FreshOK, CopyOK, EntityOK

LEMMA EndPlanStep ==
  ASSUME IInv, EndPlan
  PROVE  IInv'
<1>1. /\ stage = "identify" /\ count' = 0
      /\ UNCHANGED <<csv, replaced, limit, licences, node, nextId, pending, db>>
  BY DEF EndPlan
<1>2. /\ csv \in Corpora /\ limit \in Limits \cup {None} /\ plan \in 1..7 /\ count \in Nat
  BY DEF IInv, TypesOK
<1>3. PICK rows \in Seq(Fields) :
        /\ Indexed(index, rows, {})
        /\ 7 * Len(rows) <= (plan - 1) * SsnCapacity + 7 * count
  BY <1>1 DEF IInv, IndexOK, Indexing
<1>4. 7 * count <= SsnCapacity /\ SsnCapacity \in Nat /\ Len(rows) \in Nat
  BY <1>1, <1>2, <1>3, CorpusFacts, LenProperties DEF IInv, IndexOK, Indexing
<1>5. Fresh /\ DbOK(db)'
  <2>1. DbOK(db')
    BY <1>1 DEF IInv
  <2> QED BY <1>1, <2>1 DEF Fresh, DbOK
<1>6. CASE plan < 7
  <2>1. plan' = plan + 1 /\ UNCHANGED <<stage, index, persons>>
    BY <1>6, PlanFacts DEF EndPlan
  <2>2. 7 * Len(rows) <= ((plan + 1) - 1) * SsnCapacity + 7 * 0
    <3>1. ((plan + 1) - 1) * SsnCapacity = (plan - 1) * SsnCapacity + SsnCapacity
            /\ (plan - 1) * SsnCapacity \in Int
      BY <1>2, <1>4
    <3> DEFINE x == (plan - 1) * SsnCapacity
    <3>2. x \in Int /\ 7 * Len(rows) <= x + 7 * count
      BY <1>3, <3>1
    <3> HIDE DEF x
    <3>3. 7 * Len(rows) <= x + SsnCapacity
      BY <1>2, <1>4, <3>2
    <3> QED BY <1>2, <1>4, <3>1, <3>3 DEF x
  <2>3. Indexing(index, plan + 1, 0)
    <3>1. 7 * 0 <= SsnCapacity
      BY <1>4
    <3> QED BY <1>3, <2>2, <3>1 DEF Indexing
  <2>4. IndexOK'
    <3>1. Indexing(index', plan', count') /\ stage' = "identify"
      BY <1>1, <2>1, <2>3
    <3> QED BY <3>1 DEF IndexOK, Indexing
  <2>5. TypesOK'
    <3>1. plan' \in 1..7
      BY <1>2, <1>6, <2>1
    <3> QED BY <1>1, <2>1, <3>1 DEF IInv, TypesOK
  <2>6. Fresh'
    BY <1>1, <2>1 DEF Fresh
  <2> QED BY <1>1, <1>5, <2>4, <2>5, <2>6 DEF IInv, FreshOK, CopyOK, EntityOK
<1>7. CASE plan = 7
  <2>1. persons' = PersonIds(index) /\ plan' = 1 /\ index' = EmptyIndex
         /\ stage' = "licences"
    BY <1>7, PlanFacts DEF EndPlan
  <2>2. persons' \in Seq(0..(Len(rows) - 1)) /\ Len(persons') = Len(rows)
    BY <1>3, <2>1, PersonsOfAnIndex
  <2>3. Len(rows) <= SsnCapacity
    BY <1>2, <1>3, <1>4, <1>7
  <2>4. TypesOK'
    <3>1. "licences" \in Stages
      BY DEF Stages
    <3> QED BY <1>1, <2>1, <2>2, <2>3, <3>1 DEF IInv, TypesOK
  <2>5. IndexOK'
    BY <2>1 DEF IndexOK
  <2>6. Fresh'
    BY <2>1 DEF Fresh
  <2> QED BY <1>1, <1>5, <2>4, <2>5, <2>6 DEF IInv, FreshOK, CopyOK, EntityOK
<1> QED BY <1>2, <1>6, <1>7

FirstOf(drive, key) == CHOOSE d \in DOMAIN drive :
                         /\ JoinKey(drive[d]) = key
                         /\ \A e \in 1..(d - 1) : JoinKey(drive[e]) # key

LEMMA FirstDrive ==
  ASSUME NEW drive, drive \in Seq(Drives), NEW d \in 1..Len(drive)
  PROVE  LET first == FirstOf(drive, JoinKey(drive[d]))
         IN  /\ first \in 1..Len(drive) /\ JoinKey(drive[first]) = JoinKey(drive[d])
             /\ \A f \in 1..(first - 1) : JoinKey(drive[f]) # JoinKey(drive[d])
<1> DEFINE T == {e \in 1..Len(drive) : JoinKey(drive[e]) = JoinKey(drive[d])}
<1>1. T \subseteq Nat /\ T # {} /\ Len(drive) \in Nat /\ DOMAIN drive = 1..Len(drive)
  BY LenProperties
<1>2. PICK e \in T : \A f \in T : e <= f
  <2> HIDE DEF T
  <2> QED BY <1>1, LeastNatural
<1>3. \A f \in 1..(e - 1) : f \in 1..Len(drive) /\ ~(e <= f)
  BY <1>1
<1>4. \A f \in 1..(e - 1) : JoinKey(drive[f]) # JoinKey(drive[d])
  BY <1>2, <1>3
<1> QED BY <1>1, <1>4 DEF FirstOf

LEMMA LicencesStep ==
  ASSUME IInv, LoadLicences
  PROVE  IInv'
<1> DEFINE first(key) == FirstOf(csv.drive, key)
           keys == {JoinKey(d) : d \in ToSet(csv.drive)}
<1>1. /\ stage = "licences" /\ stage' = "records"
      /\ licences' = [key \in keys |-> csv.drive[first(key)].licence]
      /\ UNCHANGED <<csv, replaced, limit, plan, count, index, persons, node, nextId,
                     pending, db>>
  BY DEF LoadLicences, FirstOf
<1>2. csv.drive \in Seq(Drives)
  BY CorpusFacts DEF IInv, TypesOK
<1>3. ASSUME NEW key \in keys PROVE csv.drive[first(key)].licence \in Nat
  <2>1. PICK d \in 1..Len(csv.drive) : key = JoinKey(csv.drive[d])
    BY <1>2, InToSet
  <2>2. first(key) \in 1..Len(csv.drive)
    BY <1>2, <2>1, FirstDrive
  <2> HIDE DEF first
  <2>3. csv.drive[first(key)] \in Drives
    BY <1>2, <2>2, ElementOfSeq
  <2> QED BY <2>3 DEF Drives
<1> HIDE DEF keys, first
<1>4. licences' \in [DOMAIN licences' -> Nat]
  BY <1>1, <1>3
<1>5. plan = 1 /\ "records" \in Stages
  BY <1>1 DEF IInv, TypesOK, Stages
<1>6. TypesOK'
  BY <1>1, <1>4, <1>5 DEF IInv, TypesOK
<1>7. Fresh /\ Fresh'
  BY <1>1, <1>5 DEF Fresh
<1>8. DbOK(db)' /\ IndexOK'
  <2>1. DbOK(db')
    BY <1>1 DEF IInv
  <2>2. index' = EmptyIndex
    BY <1>1 DEF IInv, IndexOK
  <2> QED BY <1>1, <2>1, <2>2 DEF DbOK, IndexOK
<1> QED BY <1>1, <1>6, <1>7, <1>8 DEF IInv, FreshOK, CopyOK, EntityOK

------------------------------------------------------------------------------
(* Pass 2: records grow by those of a plan.                                *)

LEMMA Grown ==
  ASSUME NEW S, NEW s \in Seq(S), NEW t \in Seq(S)
  PROVE  /\ s \o t \in Seq(S) /\ Len(s \o t) = Len(s) + Len(t)
         /\ Len(s) \in Nat /\ Len(t) \in Nat
         /\ \A i \in 1..Len(s) : (s \o t)[i] = s[i]
         /\ \A i \in 1..Len(t) : (s \o t)[Len(s) + i] = t[i]
         /\ \A i \in 1..Len(s \o t) :
              i \in 1..Len(s) \/ (i > Len(s) /\ \E k \in 1..Len(t) : i = Len(s) + k)
<1>1. /\ s \o t \in Seq(S) /\ Len(s \o t) = Len(s) + Len(t)
      /\ \A i \in 1..(Len(s) + Len(t)) :
           (s \o t)[i] = IF i <= Len(s) THEN s[i] ELSE t[i - Len(s)]
      /\ Len(s) \in Nat /\ Len(t) \in Nat
  BY ConcatProperties, LenProperties
<1> DEFINE m == Len(s)
           n == Len(t)
<1>2. m \in Nat /\ n \in Nat
  BY <1>1
<1> HIDE DEF m, n
<1>3. \A i \in 1..m : i \in 1..(m + n) /\ i <= m
  BY <1>2
<1>4. \A i \in 1..n : m + i \in 1..(m + n) /\ ~(m + i <= m) /\ (m + i) - m = i
  BY <1>2
<1>5. \A i \in 1..(m + n) : i \in 1..m \/ (i > m /\ i - m \in 1..n /\ i = m + (i - m))
  BY <1>2
<1>6. \A i \in 1..(m + n) : i \in 1..m \/ (i > m /\ \E k \in 1..n : i = m + k)
  BY <1>5
<1> QED BY <1>1, <1>3, <1>4, <1>6 DEF m, n

LEMMA LedgerGrows ==
  ASSUME NEW recs \in Seq(Records), NEW new \in Seq(Records), NEW who \in Whos, NEW oracle,
         NEW p \in 1..7, Ledger(recs, oracle, who, Len(recs)),
         Len(recs) + Len(new) <= Len(who),
         \A i \in 1..Len(recs) : ~OfPlan(recs[i], p),
         \A i \in 1..Len(new) : OfPlan(new[i], p)
                                /\ new[i].ssn \in {None, SyntheticSsn(who[Len(recs) + i])}
  PROVE  Ledger(recs \o new, oracle, who, Len(recs))
<1> DEFINE all == recs \o new
           m == Len(recs)
           n == Len(new)
<1>1. /\ Len(all) = m + n /\ m \in Nat /\ n \in Nat
      /\ \A i \in 1..m : all[i] = recs[i]
      /\ \A i \in 1..n : all[m + i] = new[i]
      /\ \A i \in 1..Len(all) : i \in 1..m \/ (i > m /\ \E k \in 1..n : i = m + k)
  BY Grown
<1>2. /\ \A i \in 1..m : recs[i].ssn \in {None, SyntheticSsn(who[i])}
      /\ oracle = OwnersOf(recs, who, 1, m)
  BY DEF Ledger
<1>3. \A i \in 1..m : ~OfPlan(recs[i], p)
  OBVIOUS
<1>4. \A i \in 1..n : OfPlan(new[i], p) /\ new[i].ssn \in {None, SyntheticSsn(who[m + i])}
  OBVIOUS
<1> HIDE DEF all, m, n
<1>5. m + n <= Len(who) /\ m \in 0..(m + n)
  BY <1>1 DEF m, n
<1>6. \A i \in 1..Len(all) : all[i].ssn \in {None, SyntheticSsn(who[i])}
  <2> TAKE i \in 1..Len(all)
  <2>1. CASE i \in 1..m
    BY <1>1, <1>2, <2>1
  <2>2. ASSUME NEW k \in 1..n, i = m + k PROVE all[i].ssn \in {None, SyntheticSsn(who[i])}
    BY <1>1, <1>4, <2>2
  <2> QED BY <1>1, <2>1, <2>2
<1>7. oracle = OwnersOf(all, who, 1, m)
  BY <1>1, <1>2 DEF OwnersOf
<1>8. \A i \in 1..Len(all) : OfPlan(all[i], p) <=> i > m
  <2> TAKE i \in 1..Len(all)
  <2>1. CASE i \in 1..m
    BY <1>1, <1>3, <2>1
  <2>2. ASSUME NEW k \in 1..n, i = m + k PROVE OfPlan(all[i], p)
    BY <1>1, <1>4, <2>2
  <2>3. i \in 1..m => ~(i > m)
    BY <1>1
  <2> QED BY <1>1, <2>1, <2>2, <2>3
<1>9. \A i \in (m + 1)..Len(all), j \in 1..Len(all) : j > m <=> SamePlan(all[i], all[j])
  <2> TAKE i \in (m + 1)..Len(all), j \in 1..Len(all)
  <2>1. i \in 1..Len(all) /\ i > m
    BY <1>1
  <2>2. OfPlan(all[i], p)
    BY <1>8, <2>1
  <2>3. SamePlan(all[i], all[j]) <=> OfPlan(all[j], p)
    BY <2>2 DEF SamePlan, OfPlan
  <2> QED BY <1>8, <2>3
<1>10. Ledger(all, oracle, who, m)
  BY <1>1, <1>5, <1>6, <1>7, <1>9 DEF Ledger
<1> QED BY <1>10 DEF all, m

LEMMA IdsGrow ==
  ASSUME NEW recs \in Seq(Records), NEW new \in Seq(Records), NEW next \in [Tables -> Nat],
         NEW t \in Tables, IdsAscend(recs),
         \A i \in 1..Len(recs) : recs[i].id < next[recs[i].table],
         \A i \in 1..Len(new) : new[i].table = t /\ new[i].id = next[t] + i - 1
  PROVE  LET later == [next EXCEPT ![t] = @ + Len(new)]
         IN  /\ IdsAscend(recs \o new) /\ later \in [Tables -> Nat]
             /\ \A i \in 1..Len(recs \o new) :
                  (recs \o new)[i].id < later[(recs \o new)[i].table]
<1> DEFINE all == recs \o new
           m == Len(recs)
           n == Len(new)
           later == [next EXCEPT ![t] = @ + Len(new)]
<1>1. /\ Len(all) = m + n /\ m \in Nat /\ n \in Nat /\ all \in Seq(Records)
      /\ \A i \in 1..m : all[i] = recs[i]
      /\ \A i \in 1..n : all[m + i] = new[i]
      /\ \A i \in 1..Len(all) : i \in 1..m \/ (i > m /\ \E k \in 1..n : i = m + k)
  BY Grown
<1>2. \A i \in 1..m : recs[i].table \in Tables /\ recs[i].id \in Nat
  <2> TAKE i \in 1..m
  <2>1. recs[i] \in Records
    BY ElementOfSeq
  <2> QED BY <2>1 DEF Records
<1>3. /\ later \in [Tables -> Nat] /\ later[t] = next[t] + n
      /\ \A u \in Tables : next[u] <= later[u]
  BY <1>1
<1>4. \A i \in 1..n : new[i].table = t /\ new[i].id = next[t] + i - 1
  OBVIOUS
<1>5. \A i \in 1..m : recs[i].id < next[recs[i].table]
  OBVIOUS
<1>6. \A i, j \in 1..m : recs[i].table = recs[j].table /\ i < j => recs[i].id < recs[j].id
  BY DEF IdsAscend
<1> HIDE DEF all, m, n, later
<1>7. next[t] \in Nat /\ \A u \in Tables : next[u] \in Nat /\ later[u] \in Nat
  BY <1>3
<1>8. ASSUME NEW i \in 1..Len(all) PROVE all[i].id < later[all[i].table]
  <2>1. CASE i \in 1..m
    <3>1. all[i] = recs[i] /\ recs[i].id < next[recs[i].table] /\ recs[i].id \in Nat
          /\ next[recs[i].table] <= later[recs[i].table]
          /\ next[recs[i].table] \in Nat /\ later[recs[i].table] \in Nat
      BY <1>1, <1>2, <1>3, <1>5, <1>7, <2>1
    <3> QED BY <3>1
  <2>2. ASSUME NEW k \in 1..n, i = m + k PROVE all[i].id < later[all[i].table]
    <3>1. all[i].table = t /\ all[i].id = next[t] + k - 1
      BY <1>1, <1>4, <2>2
    <3>2. next[t] + k - 1 < next[t] + n
      BY <1>1, <1>7
    <3> QED BY <1>3, <3>1, <3>2
  <2> QED BY <1>1, <2>1, <2>2
<1>9. ASSUME NEW i \in 1..Len(all), NEW j \in 1..Len(all), all[i].table = all[j].table, i < j
      PROVE  all[i].id < all[j].id
  <2>1. CASE j \in 1..m
    <3>1. i \in 1..m
      BY <1>1, <1>9, <2>1
    <3> QED BY <1>1, <1>6, <1>9, <2>1, <3>1
  <2>2. ASSUME NEW l \in 1..n, j = m + l PROVE all[i].id < all[j].id
    <3>1. all[j].table = t /\ all[j].id = next[t] + l - 1
      BY <1>1, <1>4, <2>2
    <3>2. CASE i \in 1..m
      <4>1. all[i] = recs[i] /\ recs[i].id < next[t] /\ recs[i].id \in Nat
        BY <1>1, <1>2, <1>5, <1>9, <3>1, <3>2
      <4>2. recs[i].id < next[t] + l - 1
        BY <1>7, <4>1
      <4> QED BY <3>1, <4>1, <4>2
    <3>3. ASSUME NEW k \in 1..n, i = m + k PROVE all[i].id < all[j].id
      <4>1. all[i].id = next[t] + k - 1
        BY <1>1, <1>4, <3>3
      <4>2. k < l
        BY <1>1, <1>9, <2>2, <3>3
      <4>3. next[t] + k - 1 < next[t] + l - 1
        BY <1>1, <1>7, <4>2
      <4> QED BY <3>1, <4>1, <4>3
    <3> QED BY <1>1, <3>2, <3>3
  <2> QED BY <1>1, <2>1, <2>2
<1>10. IdsAscend(all)
  BY <1>9 DEF IdsAscend
<1> QED BY <1>3, <1>8, <1>10 DEF all, later

LEMMA RecordFacts ==
  ASSUME IInv, NEW i \in 1..7, NEW k \in 1..Len(PlanRows(FeedPlans[i])),
         node + k \in 1..Len(persons)
  PROVE  LET r == RecordOf(FeedPlans[i], k)
             p == FeedPlans[i]
         IN  /\ r \in Records /\ OfPlan(r, i)
             /\ r.table = p.table /\ r.shape = p.shape
             /\ r.id = nextId[p.table] + k - 1
             /\ r.ssn \in {None, SyntheticSsn(persons[node + k])}
<1> DEFINE p == FeedPlans[i]
           r == RecordOf(p, k)
           at == PlanRows(p)[k]
           row == csv[p.shape][at]
           id == nextId[p.table] + k - 1
           ssn == IF KeepValue(p.shape, "ssn", id) THEN SyntheticSsn(PersonOf(k)) ELSE None
           house == row.house /\ KeepValue(p.shape, "house_number", id)
           licence == IF p.shape = "loan" /\ JoinKey(row) \in DOMAIN licences
                      THEN licences[JoinKey(row)] ELSE None
<1>1. /\ csv \in Corpora /\ limit \in Limits \cup {None} /\ nextId \in [Tables -> Nat]
      /\ licences \in [DOMAIN licences -> Nat] /\ TypesOK
  BY DEF IInv, TypesOK
<1>2. row \in Rows /\ at \in Nat
  BY <1>1, RowFields
<1>3. p.shape \in Shapes /\ p.table \in Tables
  BY PlanFacts
<1>4. r = [table |-> p.table, id |-> id, shape |-> p.shape, at |-> at, ssn |-> ssn,
           house |-> house, licence |-> licence]
  BY DEF RecordOf
<1>5. k \in Nat /\ k >= 1
  <2>1. Len(PlanRows(p)) \in Nat
    BY <1>1, PlanRowsFacts, LenProperties
  <2> QED BY <2>1
<1> HIDE DEF p, at, row
<1>6. id \in Nat
  BY <1>1, <1>3, <1>5
<1>7. ssn \in {None, SyntheticSsn(persons[node + k])} /\ ssn \in Nat \cup {None}
  <2>1. persons \in Whos
    BY <1>1, PersonsAreWhos
  <2>2. persons[node + k] \in Nat
    <3> DEFINE W == 0..(SsnCapacity - 1)
    <3>1. persons \in Seq(W)
      BY <2>1 DEF Whos
    <3>2. W \subseteq Nat
      OBVIOUS
    <3> HIDE DEF W
    <3> QED BY <3>1, <3>2, ElementOfSeq
  <2>3. SyntheticSsn(persons[node + k]) \in Nat
    BY <2>2, SsnIsNatural
  <2> QED BY <2>3 DEF PersonOf
<1>8. house \in BOOLEAN
  OBVIOUS
<1>9. licence \in Nat \cup {None}
  BY <1>1
<1> HIDE DEF id, ssn, house, licence, r
<1>10. r \in Records
  BY <1>2, <1>3, <1>4, <1>6, <1>7, <1>8, <1>9 DEF Records
<1>11. OfPlan(r, i)
  BY <1>4 DEF OfPlan, p
<1> QED BY <1>4, <1>7, <1>10, <1>11 DEF r, p, id

(* What a plan that can be copied finds: everything so far is its own load's, *)
(* of other plans, and has its owners.                                      *)
LEMMA ReadyToCopy ==
  ASSUME IInv, stage = "records", NEW records,
         records = [k \in 1..Len(PlanRows(FeedPlans[plan])) |-> RecordOf(FeedPlans[plan], k)],
         node + Len(PlanRows(FeedPlans[plan])) <= Len(persons), ~Conflicts(records)
  PROVE  /\ node = Len(db.records) /\ node \in Nat
         /\ node + Len(PlanRows(FeedPlans[plan])) >= 1
         /\ \A i \in 1..node : db.records[i].id < nextId[db.records[i].table]
         /\ \A i \in 1..node, k \in plan..7 : ~OfPlan(db.records[i], k)
         /\ Ledger(db.records, db.oracle, persons, node)
         /\ db.people = {} /\ db.masters = {} /\ db.links = {}
<1> DEFINE n == Len(PlanRows(FeedPlans[plan]))
<1>1. TypesOK /\ DbOK(db) /\ plan \in 1..7
  BY DEF IInv, TypesOK
<1>2. n \in Nat /\ (plan = 1 => n >= 1)
  BY <1>1, PlanRowsFacts, LenProperties DEF TypesOK
<1>3. Len(persons) \in Nat
  BY <1>1, LenProperties DEF TypesOK
<1>4. CASE Fresh
  <2>1. plan = 1 /\ node = 0 /\ nextId = IdBase
    BY <1>4 DEF Fresh, IInv, FreshOK
  <2>2. 1 \in 1..n /\ node + 1 \in 1..Len(persons)
    BY <1>2, <1>3, <2>1
  <2>3. records[1].table = "legacy" /\ records[1].id = 10
    <3>1. RecordOf(FeedPlans[1], 1).table = FeedPlans[1].table
          /\ RecordOf(FeedPlans[1], 1).id = nextId[FeedPlans[1].table] + 1 - 1
      BY <2>1, <2>2, RecordFacts
    <3>2. records[1] = RecordOf(FeedPlans[1], 1)
      BY <2>1, <2>2
    <3>3. FeedPlans[1].table = "legacy" /\ nextId["legacy"] = 10
      BY <2>1, PlanFacts DEF IdBase
    <3> QED BY <3>1, <3>2, <3>3
  <2>4. db.records = <<>>
    <3> SUFFICES ASSUME db.records # <<>> PROVE FALSE
      OBVIOUS
    <3>1. db.records[1].table = "legacy" /\ db.records[1].id = 10
      BY <1>1 DEF DbOK
    <3>2. db.records[1] \in ToSet(db.records)
      <4>1. db.records \in Seq(Records)
        BY <1>1 DEF DbOK, Dbs
      <4>2. 1 \in DOMAIN db.records
        BY <4>1, EmptySeq, LenProperties
      <4> QED BY <4>2 DEF ToSet
    <3>3. records[1] \in ToSet(records)
      BY <2>1, <2>2 DEF ToSet
    <3> QED BY <2>3, <3>1, <3>2, <3>3 DEF Conflicts
  <2>5. db = EmptyDb
    BY <1>1, <2>4 DEF DbOK
  <2>6. Len(db.records) = 0 /\ db.oracle = {}
    BY <2>4, <2>5 DEF EmptyDb
  <2>7. Ledger(db.records, db.oracle, persons, 0)
    <3>1. OwnersOf(db.records, persons, 1, 0) = {}
      BY DEF OwnersOf
    <3> QED BY <1>3, <2>6, <3>1 DEF Ledger
  <2> QED BY <1>2, <2>1, <2>2, <2>5, <2>6, <2>7 DEF EmptyDb
<1>5. CASE ~Fresh
  <2>1. PICK m \in 0..node :
          /\ node = Len(db.records) /\ node \in Nat /\ node >= 1
          /\ Ledger(db.records, db.oracle, persons, m)
          /\ stage # "oracle" => m = node
    BY <1>1, <1>5, CopiedFacts DEF IInv
  <2>2. /\ \A i \in 1..node : db.records[i].id < nextId[db.records[i].table]
        /\ \A i \in 1..node, k \in 1..7 :
             k > plan \/ k = plan => ~OfPlan(db.records[i], k)
    BY <1>5 DEF IInv, CopyOK
  <2>3. \A k \in plan..7 : k \in 1..7 /\ (k > plan \/ k = plan)
    BY <1>1
  <2>4. db.people = {} /\ db.masters = {} /\ db.links = {}
    BY <1>5 DEF IInv, EntityOK
  <2>5. m = node
    BY <2>1
  <2>6. \A i \in 1..node, k \in plan..7 : ~OfPlan(db.records[i], k)
    BY <2>2, <2>3
  <2> HIDE DEF n
  <2>7. node + n >= 1
    BY <1>2, <2>1
  <2> QED BY <2>1, <2>2, <2>4, <2>5, <2>6, <2>7 DEF n
<1> QED BY <1>4, <1>5

LEMMA RecordsStep ==
  ASSUME IInv, CopyRecords
  PROVE  IInv'
<1> DEFINE p == FeedPlans[plan]
           n == Len(PlanRows(p))
           records == [k \in 1..n |-> RecordOf(p, k)]
           all == db.records \o records
<1>1. CASE Abort
  BY <1>1, AbortStep
<1>2. CASE ~Abort
  <2>1. /\ stage = "records" /\ node + n <= Len(persons) /\ ~Conflicts(records)
        /\ db' = [db EXCEPT !.records = all]
        /\ pending' = {[person |-> PersonOf(k), table |-> p.table,
                        id |-> records[k].id, shape |-> p.shape] : k \in 1..n}
        /\ node' = node + n
        /\ nextId' = [nextId EXCEPT ![p.table] = @ + n]
        /\ stage' = "oracle"
        /\ UNCHANGED <<csv, replaced, limit, plan, count, index, persons, licences>>
    BY <1>2 DEF CopyRecords
  <2>2. /\ TypesOK /\ DbOK(db) /\ plan \in 1..7 /\ persons \in Whos
        /\ nextId \in [Tables -> Nat] /\ db \in Dbs /\ db.records \in Seq(Records)
    BY PersonsAreWhos DEF IInv, TypesOK, DbOK, Dbs
  <2>3. n \in Nat /\ Len(persons) \in Nat /\ p.table \in Tables
    BY <2>2, PlanRowsFacts, PlanFacts, LenProperties DEF TypesOK
  <2>4. /\ node = Len(db.records) /\ node \in Nat /\ node + n >= 1
        /\ \A i \in 1..node : db.records[i].id < nextId[db.records[i].table]
        /\ \A i \in 1..node, k \in plan..7 : ~OfPlan(db.records[i], k)
        /\ Ledger(db.records, db.oracle, persons, node)
        /\ db.people = {} /\ db.masters = {} /\ db.links = {}
    BY <2>1, ReadyToCopy
  <2>5. ASSUME NEW k \in 1..n
        PROVE  /\ records[k] = RecordOf(p, k) /\ records[k] \in Records
               /\ OfPlan(records[k], plan) /\ records[k].table = p.table
               /\ records[k].shape = p.shape /\ records[k].id = nextId[p.table] + k - 1
               /\ records[k].ssn \in {None, SyntheticSsn(persons[node + k])}
    <3>1. node + k \in 1..Len(persons)
      <4> HIDE DEF n, records, p
      <4> QED BY <2>1, <2>3, <2>4
    <3>2. records[k] = RecordOf(p, k)
      OBVIOUS
    <3> HIDE DEF records
    <3> QED BY <2>2, <3>1, <3>2, RecordFacts
  <2>6. records \in Seq(Records) /\ Len(records) = n
    <3>1. records \in [1..n -> Records]
      BY <2>5
    <3> HIDE DEF records, n
    <3> QED BY <2>3, <3>1
  <2> HIDE DEF records, p
  <2>7. /\ all \in Seq(Records) /\ Len(all) = node + n
        /\ \A i \in 1..node : all[i] = db.records[i]
        /\ \A k \in 1..n : all[node + k] = records[k]
        /\ \A i \in 1..Len(all) : i \in 1..node \/ (i > node /\ \E k \in 1..n : i = node + k)
    <3> DEFINE m == Len(db.records)
               l == Len(records)
    <3>1. /\ all \in Seq(Records) /\ Len(all) = m + l
          /\ \A i \in 1..m : all[i] = db.records[i]
          /\ \A k \in 1..l : all[m + k] = records[k]
          /\ \A i \in 1..Len(all) : i \in 1..m \/ (i > m /\ \E k \in 1..l : i = m + k)
      <4>1. db.records \in Seq(Records) /\ records \in Seq(Records)
        BY <2>2, <2>6
      <4> QED BY <4>1, Grown
    <3>2. m = node /\ l = n
      BY <2>4, <2>6
    <3> HIDE DEF m, l, n, all
    <3> QED BY <3>1, <3>2
  <2>8. Ledger(all, db.oracle, persons, node)
    <3>1. \A i \in 1..Len(db.records) : ~OfPlan(db.records[i], plan)
      BY <2>2, <2>4
    <3>2. \A k \in 1..Len(records) :
            OfPlan(records[k], plan)
            /\ records[k].ssn \in {None, SyntheticSsn(persons[Len(db.records) + k])}
      BY <2>4, <2>5, <2>6
    <3> HIDE DEF all, n
    <3>3. Ledger(db.records \o records, db.oracle, persons, Len(db.records))
      BY <2>1, <2>2, <2>4, <2>6, <3>1, <3>2, LedgerGrows
    <3> QED BY <2>4, <3>3 DEF all
  <2>9. /\ IdsAscend(all) /\ nextId' \in [Tables -> Nat]
        /\ \A i \in 1..Len(all) : all[i].id < nextId'[all[i].table]
    <3>1. IdsAscend(db.records)
      BY <2>2 DEF DbOK
    <3>2. \A i \in 1..Len(records) : records[i].table = p.table
                                     /\ records[i].id = nextId[p.table] + i - 1
      BY <2>5, <2>6
    <3>3. \A i \in 1..Len(db.records) : db.records[i].id < nextId[db.records[i].table]
      BY <2>4
    <3> DEFINE later == [nextId EXCEPT ![p.table] = @ + Len(records)]
    <3> HIDE DEF n
    <3>4. /\ IdsAscend(all) /\ later \in [Tables -> Nat]
          /\ \A i \in 1..Len(all) : all[i].id < later[all[i].table]
      BY <2>2, <2>3, <2>6, <3>1, <3>2, <3>3, IdsGrow
    <3>5. nextId' = later
      BY <2>1, <2>6
    <3> HIDE DEF later, all
    <3> QED BY <3>4, <3>5
  <2>10. /\ db' \in Dbs /\ db'.records = all /\ db'.oracle = db.oracle
         /\ db'.people = {} /\ db'.masters = {} /\ db'.links = {}
    <3> HIDE DEF all
    <3> QED BY <2>1, <2>2, <2>4, <2>7 DEF Dbs
  <2> HIDE DEF all
  <2>11. all # <<>> /\ all[1].table = "legacy" /\ all[1].id = 10
    <3>1. all # <<>>
      BY <2>4, <2>7
    <3>2. CASE node >= 1
      <4>1. db.records # <<>> /\ all[1] = db.records[1]
        BY <2>4, <2>7, <3>2
      <4> QED BY <2>2, <3>1, <4>1 DEF DbOK
    <3>3. CASE node = 0
      <4>1. Fresh
        BY <2>2, <3>3, CopiedFacts DEF IInv
      <4>2. plan = 1 /\ nextId = IdBase
        BY <2>1, <4>1 DEF Fresh, IInv, FreshOK
      <4>3. 1 \in 1..n /\ all[1] = records[1]
        BY <2>3, <2>4, <2>7, <3>3
      <4>4. p.table = "legacy" /\ nextId["legacy"] = 10
        BY <4>2, PlanFacts DEF p, IdBase
      <4> QED BY <2>5, <3>1, <4>3, <4>4
    <3> QED BY <2>4, <3>1, <3>2, <3>3
  <2>12. DbOK(db)'
    <3>1. DbOK(db')
      BY <2>2, <2>4, <2>8, <2>9, <2>10, <2>11 DEF DbOK
    <3> QED BY <3>1 DEF DbOK
  <2>13. TypesOK'
    <3>1. "oracle" \in Stages
      BY DEF Stages
    <3> QED BY <2>1, <2>2, <2>9, <3>1 DEF TypesOK
  <2>14. IndexOK'
    BY <2>1 DEF IInv, IndexOK
  <2>15. pending' = OwnersOf(all, persons, node + 1, node + n)
    <3>1. \A k \in 1..n : Owner(all[node + k], persons[node + k])
            = [person |-> PersonOf(k), table |-> p.table, id |-> records[k].id,
               shape |-> p.shape]
      BY <2>5, <2>7 DEF Owner, PersonOf
    <3>2. pending' = {Owner(all[node + k], persons[node + k]) : k \in 1..n}
      BY <2>1, <3>1
    <3>3. /\ \A k \in 1..n : node + k \in (node + 1)..(node + n)
          /\ \A i \in (node + 1)..(node + n) : i - node \in 1..n /\ i = node + (i - node)
      BY <2>3, <2>4
    <3> HIDE DEF n
    <3> QED BY <3>2, <3>3 DEF OwnersOf
  <2>16. ~Fresh'
    BY <2>1 DEF Fresh
  <2>17. ASSUME NEW i \in 1..(node + n), NEW k \in 1..7, k > plan PROVE ~OfPlan(all[i], k)
    <3>1. CASE i \in 1..node
      <4>1. k \in plan..7
        BY <2>2, <2>17
      <4> QED BY <2>4, <2>7, <3>1, <4>1
    <3>2. ASSUME NEW j \in 1..n, i = node + j PROVE ~OfPlan(all[i], k)
      <4>1. OfPlan(all[i], plan)
        BY <2>5, <2>7, <3>2
      <4>2. k # plan
        BY <2>2, <2>17
      <4> QED BY <2>2, <4>1, <4>2, PlanFacts DEF OfPlan
    <3> QED BY <2>7, <3>1, <3>2
  <2>18. CopyOK'
    <3>1. /\ node' = Len(db'.records) /\ node' \in 1..Len(persons')
          /\ \A i \in 1..node' : db'.records[i].id < nextId'[db'.records[i].table]
      BY <2>1, <2>3, <2>4, <2>7, <2>9, <2>10
    <3>2. \A i \in 1..node', k \in 1..7 :
            k > plan' \/ (k = plan' /\ stage' = "records") => ~OfPlan(db'.records[i], k)
      BY <2>1, <2>10, <2>17
    <3>3. node \in 0..node'
      BY <2>1, <2>3, <2>4
    <3>4. /\ Ledger(db'.records, db'.oracle, persons', node)
          /\ pending' = OwnersOf(db'.records, persons', node + 1, node')
          /\ stage' = "oracle"
      BY <2>1, <2>8, <2>10, <2>15
    <3> QED BY <3>1, <3>2, <3>3, <3>4 DEF CopyOK, Ledger, OwnersOf, OfPlan
  <2>19. EntityOK'
    BY <2>1, <2>10 DEF EntityOK
  <2> QED BY <2>12, <2>13, <2>14, <2>16, <2>18, <2>19 DEF IInv, FreshOK
<1> QED BY <1>1, <1>2

LEMMA YetToCome ==
  ASSUME CopyOK, ~Fresh, NEW i \in 1..node, NEW k \in 1..7, k > plan
  PROVE  ~OfPlan(db.records[i], k)
<1> HIDE DEF OfPlan
<1>1. \A q \in 1..node, l \in 1..7 :
        l > plan \/ (l = plan /\ stage = "records") => ~OfPlan(db.records[q], l)
  BY DEF CopyOK
<1> QED BY <1>1

LEMMA OracleStep ==
  ASSUME IInv, CopyOracle
  PROVE  IInv'
<1>1. CASE Abort
  BY <1>1, AbortStep
<1>2. CASE ~Abort
  <2>1. /\ stage = "oracle"
        /\ db' = [db EXCEPT !.oracle = @ \cup pending]
        /\ pending' = {}
        /\ \/ plan < 7 /\ plan' = plan + 1 /\ stage' = "records"
           \/ /\ plan = 7 /\ plan' = plan
              /\ stage' = IF PassesAgree THEN "people" ELSE "diverged"
        /\ UNCHANGED <<csv, replaced, limit, count, index, persons, licences, node, nextId>>
    BY <1>2, PlanFacts DEF CopyOracle
  <2>2. ~Fresh
    BY <2>1 DEF Fresh
  <2>3. TypesOK /\ DbOK(db) /\ plan \in 1..7 /\ db \in Dbs /\ persons \in Whos
    BY PersonsAreWhos DEF IInv, TypesOK, DbOK
  <2>4. PICK m \in 0..node :
          /\ node = Len(db.records) /\ node \in Nat /\ node >= 1
          /\ Len(persons) \in Nat /\ node <= Len(persons)
          /\ Ledger(db.records, db.oracle, persons, m)
          /\ Attributed(db.records, db.oracle, persons, m)
          /\ pending = OwnersOf(db.records, persons, m + 1, node)
          /\ \A i \in 1..node : persons[i] \in Nat
    BY <2>2, CopiedFacts DEF IInv
  <2>5. pending \subseteq Owners
    <3>1. \A i \in (m + 1)..node : db.records[i] \in Records /\ persons[i] \in Nat
      BY <2>4 DEF Attributed
    <3>2. m + 1 \in Nat \ {0} /\ m + 1 <= node + 1
      BY <2>4
    <3> QED BY <2>4, <3>1, <3>2, OwnersFinite
  <2>6. /\ db' \in Dbs /\ db'.records = db.records /\ db'.oracle = db.oracle \cup pending
        /\ db'.people = db.people /\ db'.masters = db.masters /\ db'.links = db.links
    BY <2>1, <2>3, <2>5 DEF Dbs
  <2>7. db.oracle \cup pending = OwnersOf(db.records, persons, 1, node)
    <3>1. db.oracle = OwnersOf(db.records, persons, 1, m)
      BY <2>4 DEF Ledger
    <3>2. \A i : i \in 1..node <=> i \in 1..m \/ i \in (m + 1)..node
      BY <2>4
    <3> QED BY <2>4, <3>1, <3>2 DEF OwnersOf
  <2>8. Ledger(db'.records, db'.oracle, persons, node)
    <3>1. /\ Len(db.records) <= Len(persons) /\ node \in 0..Len(db.records)
          /\ \A i \in 1..Len(db.records) : db.records[i].ssn \in {None, SyntheticSsn(persons[i])}
          /\ (node + 1)..Len(db.records) = {}
      BY <2>4 DEF Ledger
    <3> QED BY <2>6, <2>7, <3>1 DEF Ledger
  <2>9. DbOK(db)'
    <3>1. db.records # <<>>
      BY <2>4
    <3>2. IdsAscend(db'.records)
      BY <2>3, <2>6 DEF DbOK
    <3>3. DbOK(db')
      BY <2>3, <2>4, <2>6, <2>8, <3>1, <3>2 DEF DbOK
    <3> QED BY <3>3 DEF DbOK
  <2>10. plan' \in 1..7 /\ stage' \in {"records", "people", "diverged"}
         /\ (stage' = "records" => plan' = plan + 1) /\ plan' >= plan
    BY <2>1, <2>3
  <2>11. TypesOK'
    <3>1. stage' \in Stages /\ stage' # "licences"
      BY <2>10 DEF Stages
    <3> QED BY <2>1, <2>3, <2>10, <3>1 DEF TypesOK
  <2>12. IndexOK'
    BY <2>1, <2>10 DEF IInv, IndexOK
  <2>13. ~Fresh'
    BY <2>3, <2>10 DEF Fresh
  <2>14. CopyOK'
    <3>1. /\ node' = Len(db'.records) /\ node' \in 1..Len(persons')
          /\ \A i \in 1..node' : db'.records[i].id < nextId'[db'.records[i].table]
      BY <2>1, <2>2, <2>4, <2>6 DEF IInv, CopyOK
    <3>2. ASSUME NEW i \in 1..node', NEW k \in 1..7,
                 k > plan' \/ (k = plan' /\ stage' = "records")
          PROVE  ~OfPlan(db'.records[i], k)
      <4>1. k > plan
        BY <2>3, <2>10, <3>2
      <4>2. i \in 1..node /\ db'.records[i] = db.records[i]
        BY <2>1, <2>6
      <4>3. CopyOK
        BY DEF IInv
      <4>4. ~OfPlan(db.records[i], k)
        BY <2>2, <4>1, <4>2, <4>3, YetToCome
      <4> QED BY <4>2, <4>4 DEF OfPlan
    <3>3. /\ Ledger(db'.records, db'.oracle, persons', node')
          /\ pending' = OwnersOf(db'.records, persons', node' + 1, node')
          /\ node' \in 0..node'
      <4>1. (node + 1)..node = {}
        BY <2>4
      <4>2. OwnersOf(db.records, persons, node + 1, node) = {}
        BY <4>1 DEF OwnersOf
      <4> QED BY <2>1, <2>4, <2>6, <2>8, <4>2
    <3> QED BY <3>1, <3>2, <3>3 DEF CopyOK, Ledger, OwnersOf, OfPlan
  <2>15. EntityOK'
    <3>1. stage' = "people" => node' = Len(persons')
      BY <2>1 DEF PassesAgree
    <3>2. db.people = {} /\ db.masters = {} /\ db.links = {}
      BY <2>1, <2>2 DEF IInv, EntityOK
    <3> QED BY <2>6, <2>10, <3>1, <3>2 DEF EntityOK
  <2> QED BY <2>9, <2>11, <2>12, <2>13, <2>14, <2>15 DEF IInv, FreshOK
<1> QED BY <1>1, <1>2

------------------------------------------------------------------------------
(* The people and the entity graph                                         *)

LEMMA OracleFinite ==
  ASSUME IInv, ~Fresh
  PROVE  IsFiniteSet(db.oracle) /\ db.oracle \subseteq Owners
<1>1. PICK m \in 0..node :
        /\ node = Len(db.records) /\ node \in Nat
        /\ Attributed(db.records, db.oracle, persons, m)
        /\ \A i \in 1..node : persons[i] \in Nat
  BY CopiedFacts DEF IInv
<1>2. /\ db.oracle = OwnersOf(db.records, persons, 1, m) /\ m \in Nat
      /\ \A i \in 1..m : db.records[i] \in Records /\ persons[i] \in Nat
  BY <1>1 DEF Attributed
<1>3. 1 \in Nat \ {0} /\ 1 <= m + 1
  BY <1>2
<1>4. /\ OwnersOf(db.records, persons, 1, m) \subseteq Owners
      /\ IsFiniteSet(OwnersOf(db.records, persons, 1, m))
  BY <1>2, <1>3, OwnersFinite
<1> QED BY <1>2, <1>4

LEMMA PeopleTyped ==
  ASSUME NEW oracle, IsFiniteSet(oracle), oracle \subseteq Owners
  PROVE  PeopleOf(oracle) \subseteq People
<1> DEFINE times(x) == Cardinality({o \in oracle : o.person = x})
           entry(x) == [person |-> x, ssn |-> SyntheticSsn(x), count |-> times(x)]
<1>1. ASSUME NEW x PROVE times(x) \in Nat
  <2>1. IsFiniteSet({o \in oracle : o.person = x})
    BY FS_Subset
  <2> QED BY <2>1, FS_CardinalityType
<1> HIDE DEF times
<1>2. ASSUME NEW x \in Nat PROVE entry(x) \in People
  BY <1>1, SsnIsNatural DEF People
<1>3. PeopleOf(oracle) = {entry(x) : x \in {o.person : o \in oracle}}
  BY DEF PeopleOf, times
<1>4. \A o \in oracle : o.person \in Nat
  BY DEF Owners
<1> HIDE DEF entry
<1> QED BY <1>2, <1>3, <1>4

LEMMA GraphTyped ==
  ASSUME NEW recs \in Seq(Records)
  PROVE  MastersOf(recs) \subseteq Masters /\ LinksOf(recs) \subseteq Links
<1> DEFINE n == Len(recs)
           times(s) == Cardinality({i \in DOMAIN recs : recs[i].ssn = s})
           master(s) == [hal |-> Hal(recs, s), ssn |-> s, count |-> times(s)]
           link(i) == [hal |-> Hal(recs, recs[i].ssn), table |-> recs[i].table,
                       id |-> recs[i].id]
<1>1. n \in Nat /\ DOMAIN recs = 1..n /\ \A i \in 1..n : recs[i] \in Records
  BY LenProperties, ElementOfSeq
<1> HIDE DEF n
<1>2. \A i \in Linked(recs) : recs[i].ssn \in Nat /\ recs[i].table \in Tables
                              /\ recs[i].id \in Nat
  BY <1>1 DEF Linked, Records
<1>3. /\ Ssns(recs) = {recs[i].ssn : i \in Linked(recs)} /\ Ssns(recs) \subseteq Nat
      /\ \A s \in Ssns(recs) : Hal(recs, s) \in Nat
  BY <1>1, <1>2, HalFacts
<1>4. ASSUME NEW s PROVE times(s) \in Nat
  <2>1. IsFiniteSet(1..n)
    BY <1>1, FS_Interval
  <2>2. {i \in DOMAIN recs : recs[i].ssn = s} \subseteq 1..n
    BY <1>1
  <2>3. IsFiniteSet({i \in DOMAIN recs : recs[i].ssn = s})
    BY <2>1, <2>2, FS_Subset
  <2> QED BY <2>3, FS_CardinalityType
<1>5. MastersOf(recs) = {master(s) : s \in Ssns(recs)}
  BY DEF MastersOf
<1>6. LinksOf(recs) = {link(i) : i \in Linked(recs)}
  BY DEF LinksOf
<1> HIDE DEF times
<1>7. \A s \in Ssns(recs) : master(s) \in Masters
  BY <1>3, <1>4 DEF Masters
<1>8. \A i \in Linked(recs) : link(i) \in Links
  BY <1>2, <1>3 DEF Links
<1> HIDE DEF master, link
<1> QED BY <1>5, <1>6, <1>7, <1>8

(* What remains true while people, masters and links are written.          *)
LEMMA TablesWritten ==
  ASSUME IInv, stage \in {"people", "masters", "links"},
         stage' \in {"masters", "links", "analyze"},
         db' \in Dbs, db'.records = db.records, db'.oracle = db.oracle,
         UNCHANGED <<csv, replaced, limit, memory>>
  PROVE  TypesOK' /\ DbOK(db)' /\ IndexOK' /\ FreshOK' /\ CopyOK' /\ ~Fresh /\ ~Fresh'
<1>1. UNCHANGED <<csv, replaced, limit, plan, count, index, persons, licences, node,
                  nextId, pending>>
  BY DEF memory
<1>2. ~Fresh /\ ~Fresh'
  BY DEF Fresh
<1>3. TypesOK'
  <2>1. stage' \in Stages /\ stage' # "licences"
    BY DEF Stages
  <2> QED BY <1>1, <2>1 DEF IInv, TypesOK
<1>4. IndexOK'
  BY <1>1 DEF IInv, IndexOK
<1>5. CopyOK /\ node >= 1 /\ node = Len(db.records)
  BY <1>2, CopiedFacts DEF IInv
<1>6. DbOK(db)'
  <2>1. db.records # <<>>
    BY <1>5
  <2>2. DbOK(db')
    BY <2>1 DEF IInv, DbOK
  <2> QED BY <2>2 DEF DbOK
<1>7. CopyOK'
  <2>1. /\ node = Len(db.records) /\ node \in 1..Len(persons)
        /\ \A i \in 1..node : db.records[i].id < nextId[db.records[i].table]
        /\ \A i \in 1..node, k \in 1..7 : k > plan => ~OfPlan(db.records[i], k)
        /\ \E m \in 0..node :
             /\ Ledger(db.records, db.oracle, persons, m)
             /\ pending = OwnersOf(db.records, persons, m + 1, node)
             /\ m = node
    <3>1. stage # "oracle" /\ stage # "records"
      OBVIOUS
    <3>2. PICK m \in 0..node :
            /\ Ledger(db.records, db.oracle, persons, m)
            /\ pending = OwnersOf(db.records, persons, m + 1, node)
            /\ stage # "oracle" => m = node
      BY <1>2, <1>5 DEF CopyOK
    <3>3. m = node
      BY <3>1, <3>2
    <3>4. /\ node = Len(db.records) /\ node \in 1..Len(persons)
          /\ \A i \in 1..node : db.records[i].id < nextId[db.records[i].table]
      BY <1>2, <1>5 DEF CopyOK
    <3>5. ASSUME NEW i \in 1..node, NEW k \in 1..7, k > plan
          PROVE  ~OfPlan(db.records[i], k)
      BY <1>2, <1>5, <3>5, YetToCome
    <3> QED BY <3>2, <3>3, <3>4, <3>5
  <2>2. /\ node' = Len(db'.records) /\ node' \in 1..Len(persons')
        /\ \A i \in 1..node' : db'.records[i].id < nextId'[db'.records[i].table]
    BY <1>1, <2>1
  <2>3. ASSUME NEW i \in 1..node', NEW k \in 1..7,
               k > plan' \/ (k = plan' /\ stage' = "records")
        PROVE  ~OfPlan(db'.records[i], k)
    <3>1. i \in 1..node /\ k > plan /\ db'.records[i] = db.records[i]
      BY <1>1, <2>3
    <3>2. ~OfPlan(db.records[i], k)
      BY <2>1, <3>1
    <3> QED BY <3>1, <3>2 DEF OfPlan
  <2>4. /\ Ledger(db'.records, db'.oracle, persons', node')
        /\ pending' = OwnersOf(db'.records, persons', node' + 1, node')
        /\ node' \in 0..node'
    <3>1. /\ Ledger(db.records, db.oracle, persons, node) /\ node \in Nat
          /\ pending = OwnersOf(db.records, persons, node + 1, node)
      BY <1>5, <2>1
    <3> QED BY <1>1, <3>1
  <2> QED BY <2>2, <2>3, <2>4 DEF CopyOK, Ledger, OwnersOf, OfPlan
<1> QED BY <1>2, <1>3, <1>4, <1>6, <1>7 DEF FreshOK

LEMMA PeopleStep ==
  ASSUME IInv, CopyPeople
  PROVE  IInv'
<1>1. CASE Abort
  BY <1>1, AbortStep
<1>2. CASE ~Abort
  <2>1. /\ stage = "people" /\ stage' = "masters"
        /\ db' = [db EXCEPT !.people = @ \cup PeopleOf(db.oracle)]
        /\ UNCHANGED <<csv, replaced, limit, memory>>
    BY <1>2 DEF CopyPeople
  <2>2. ~Fresh
    BY <2>1 DEF Fresh
  <2>3. PeopleOf(db.oracle) \subseteq People /\ db \in Dbs
    BY <2>2, OracleFinite, PeopleTyped DEF IInv, DbOK
  <2>4. /\ db' \in Dbs /\ db'.records = db.records /\ db'.oracle = db.oracle
        /\ db'.people = db.people \cup PeopleOf(db.oracle)
        /\ db'.masters = db.masters /\ db'.links = db.links
    BY <2>1, <2>3 DEF Dbs
  <2>5. TypesOK' /\ DbOK(db)' /\ IndexOK' /\ FreshOK' /\ CopyOK' /\ ~Fresh'
    BY <2>1, <2>4, TablesWritten
  <2>6. EntityOK'
    <3>1. node' = Len(persons')
      BY <2>1, <2>2 DEF IInv, EntityOK, memory
    <3>2. db.people = {} /\ db.masters = {} /\ db.links = {}
      BY <2>1, <2>2 DEF IInv, EntityOK
    <3>3. db'.people = PeopleOf(db'.oracle) /\ db'.masters = {} /\ db'.links = {}
      BY <2>4, <3>2
    <3> QED BY <2>1, <3>1, <3>3 DEF EntityOK, PeopleOf
  <2> QED BY <2>5, <2>6 DEF IInv
<1> QED BY <1>1, <1>2

LEMMA MastersStep ==
  ASSUME IInv, CopyMasters
  PROVE  IInv'
<1>1. CASE Abort
  BY <1>1, AbortStep
<1>2. CASE ~Abort
  <2>1. /\ stage = "masters" /\ stage' = "links"
        /\ db' = [db EXCEPT !.masters = @ \cup MastersOf(db.records)]
        /\ UNCHANGED <<csv, replaced, limit, memory>>
    BY <1>2 DEF CopyMasters
  <2>2. ~Fresh
    BY <2>1 DEF Fresh
  <2>3. MastersOf(db.records) \subseteq Masters /\ db \in Dbs
    BY GraphTyped DEF IInv, DbOK, Dbs
  <2>4. /\ db' \in Dbs /\ db'.records = db.records /\ db'.oracle = db.oracle
        /\ db'.masters = db.masters \cup MastersOf(db.records)
        /\ db'.people = db.people /\ db'.links = db.links
    BY <2>1, <2>3 DEF Dbs
  <2>5. TypesOK' /\ DbOK(db)' /\ IndexOK' /\ FreshOK' /\ CopyOK' /\ ~Fresh'
    BY <2>1, <2>4, TablesWritten
  <2>6. EntityOK'
    <3>1. node' = Len(persons')
      BY <2>1, <2>2 DEF IInv, EntityOK, memory
    <3>2. db.people = PeopleOf(db.oracle) /\ db.masters = {} /\ db.links = {}
      BY <2>1, <2>2 DEF IInv, EntityOK
    <3>3. db'.people = PeopleOf(db'.oracle) /\ db'.masters = MastersOf(db'.records)
          /\ db'.links = {}
      BY <2>4, <3>2
    <3> QED BY <2>1, <3>1, <3>3 DEF EntityOK, PeopleOf, MastersOf, Hal, Ssns
  <2> QED BY <2>5, <2>6 DEF IInv
<1> QED BY <1>1, <1>2

LEMMA LinksStep ==
  ASSUME IInv, CopyLinks
  PROVE  IInv'
<1>1. CASE Abort
  BY <1>1, AbortStep
<1>2. CASE ~Abort
  <2>1. /\ stage = "links" /\ stage' = "analyze"
        /\ db' = [db EXCEPT !.links = @ \cup LinksOf(db.records)]
        /\ UNCHANGED <<csv, replaced, limit, memory>>
    BY <1>2 DEF CopyLinks
  <2>2. ~Fresh
    BY <2>1 DEF Fresh
  <2>3. LinksOf(db.records) \subseteq Links /\ db \in Dbs
    BY GraphTyped DEF IInv, DbOK, Dbs
  <2>4. /\ db' \in Dbs /\ db'.records = db.records /\ db'.oracle = db.oracle
        /\ db'.links = db.links \cup LinksOf(db.records)
        /\ db'.people = db.people /\ db'.masters = db.masters
    BY <2>1, <2>3 DEF Dbs
  <2>5. TypesOK' /\ DbOK(db)' /\ IndexOK' /\ FreshOK' /\ CopyOK' /\ ~Fresh'
    BY <2>1, <2>4, TablesWritten
  <2>6. EntityOK'
    <3>1. node' = Len(persons')
      BY <2>1, <2>2 DEF IInv, EntityOK, memory
    <3>2. db.people = PeopleOf(db.oracle) /\ db.masters = MastersOf(db.records)
          /\ db.links = {}
      BY <2>1, <2>2 DEF IInv, EntityOK
    <3>3. db'.people = PeopleOf(db'.oracle) /\ db'.masters = MastersOf(db'.records)
          /\ db'.links = LinksOf(db'.records)
      BY <2>4, <3>2
    <3> QED BY <2>1, <3>1, <3>3 DEF EntityOK, PeopleOf, MastersOf, LinksOf, Linked, Hal, Ssns
  <2> QED BY <2>5, <2>6 DEF IInv
<1> QED BY <1>1, <1>2

LEMMA StandStill ==
  ASSUME IInv, UNCHANGED <<csv, replaced, limit, memory, db>>,
         stage' = stage \/ (stage = "analyze" /\ stage' = "done")
  PROVE  IInv'
<1>1. UNCHANGED <<csv, replaced, limit, plan, count, index, persons, licences, node,
                  nextId, pending, db>>
  BY DEF memory
<1>2. Fresh' <=> Fresh
  BY <1>1 DEF Fresh
<1>3. TypesOK'
  <2>1. "done" \in Stages
    BY DEF Stages, Stopped
  <2> QED BY <1>1, <2>1 DEF IInv, TypesOK
<1>4. IndexOK'
  <2>1. /\ stage' = "identify" => Indexing(index', plan', count')
        /\ stage' # "identify" => index' = EmptyIndex
    BY <1>1 DEF IInv, IndexOK
  <2> QED BY <2>1 DEF IndexOK, Indexing
<1>5. DbOK(db)'
  <2>1. DbOK(db')
    BY <1>1 DEF IInv
  <2> QED BY <2>1 DEF DbOK
<1>6. FreshOK'
  BY <1>1, <1>2 DEF IInv, FreshOK
<1>7. CopyOK'
  <2>1. stage' = "records" => stage = "records"
    OBVIOUS
  <2>2. stage' # "oracle" => stage # "oracle"
    OBVIOUS
  <2> QED BY <1>1, <1>2, <2>1, <2>2 DEF IInv, CopyOK
<1>8. EntityOK'
  BY <1>1, <1>2 DEF IInv, EntityOK
<1> QED BY <1>3, <1>4, <1>5, <1>6, <1>7, <1>8 DEF IInv

------------------------------------------------------------------------------
(* Together                                                                *)

LEMMA InitInv == Init => IInv
<1> SUFFICES ASSUME Init PROVE IInv
  OBVIOUS
<1>1. /\ csv \in Corpora /\ replaced = FALSE /\ stage = "idle" /\ limit = None
      /\ db = EmptyDb /\ plan = 1 /\ count = 0 /\ index = EmptyIndex /\ persons = <<>>
      /\ licences = <<>> /\ node = 0 /\ nextId = IdBase /\ pending = {}
  BY DEF Init
<1>2. DbOK(db)
  BY <1>1, EmptyDbOK
<1>3. TypesOK
  <2>1. IdBase \in [Tables -> Nat] /\ stage \in Stages
    BY <1>1 DEF IdBase, Tables, Stages, Stopped
  <2>2. SsnCapacity \in Nat
    BY <1>1, CorpusFacts
  <2>3. <<>> \in Seq(0..(Len(<<>>) - 1)) /\ Len(<<>>) <= SsnCapacity
    BY <2>2
  <2>4. <<>> \in [DOMAIN <<>> -> Nat]
    OBVIOUS
  <2>5. csv \in Corpora /\ replaced \in BOOLEAN /\ limit \in Limits \cup {None}
    BY <1>1
  <2>6. plan \in 1..7 /\ count \in Nat /\ (stage = "licences" => plan = 1)
    BY <1>1
  <2>7. /\ persons \in Seq(0..(Len(persons) - 1)) /\ Len(persons) <= SsnCapacity
        /\ licences \in [DOMAIN licences -> Nat] /\ nextId \in [Tables -> Nat]
    BY <1>1, <2>1, <2>3, <2>4
  <2> QED BY <2>1, <2>5, <2>6, <2>7 DEF TypesOK
<1>4. Fresh
  BY <1>1 DEF Fresh
<1> QED BY <1>1, <1>2, <1>3, <1>4 DEF IInv, IndexOK, FreshOK, CopyOK, EntityOK

LEMMA NextInv == IInv /\ [Next]_vars => IInv'
<1> SUFFICES ASSUME IInv, [Next]_vars PROVE IInv'
  OBVIOUS
<1>1. ASSUME NEW l \in Limits, Start(l) PROVE IInv'
  BY <1>1, StartStep
<1>2. CASE IdentifyRow
  BY <1>2, IdentifyStep
<1>3. CASE EndPlan
  BY <1>3, EndPlanStep
<1>4. CASE LoadLicences
  BY <1>4, LicencesStep
<1>5. CASE CopyRecords
  BY <1>5, RecordsStep
<1>6. CASE CopyOracle
  BY <1>6, OracleStep
<1>7. CASE Diverge
  BY <1>7, AbortStep DEF Diverge
<1>8. CASE CopyPeople
  BY <1>8, PeopleStep
<1>9. CASE CopyMasters
  BY <1>9, MastersStep
<1>10. CASE CopyLinks
  BY <1>10, LinksStep
<1>11. CASE Analyze
  BY <1>11, StandStill DEF Analyze
<1>12. CASE Crash
  BY <1>12, AbortStep DEF Crash
<1>13. CASE Checkout
  BY <1>13, CheckoutStep
<1>14. CASE Rebuild
  BY <1>14, RebuildStep
<1>15. CASE UNCHANGED vars
  <2>1. UNCHANGED <<csv, replaced, limit, memory, db>> /\ stage' = stage
    BY <1>15 DEF vars
  <2>2. stage' = stage \/ (stage = "analyze" /\ stage' = "done")
    BY <2>1
  <2>3. UNCHANGED <<csv, replaced, limit, memory, db>>
    BY <2>1
  <2> QED BY <2>2, <2>3, StandStill
<1> QED BY <1>1, <1>2, <1>3, <1>4, <1>5, <1>6, <1>7, <1>8, <1>9, <1>10, <1>11, <1>12,
           <1>13, <1>14, <1>15 DEF Next

THEOREM Invariant == Spec => []IInv
BY InitInv, NextInv, PTL DEF Spec

(* Every variable of the loader holds values of its type, and the oracle   *)
(* rows that await their COPY are of records that were copied.             *)
THEOREM TypeCorrect == Spec => []TypeOK
<1>1. IInv => TypeOK
  BY TypesFollow
<1> QED BY <1>1, Invariant, PTL

(* _load_rows may be stopped at any step and the load started again: every *)
(* row of the oracle has one record, and the records without an owner are  *)
(* those of one plan, the last.                                            *)
THEOREM OracleIsNeverAhead == Spec => []OracleBehindOnePlan
<1>1. IInv => OracleBehindOnePlan
  BY OracleFollows DEF IInv
<1> QED BY <1>1, Invariant, PTL

(* A load that ends has given each record that has an ssn to the entity of *)
(* its owner and to no other, though build_entities never sees a person:   *)
(* no two persons have one synthetic_ssn.                                  *)
THEOREM EntitiesAreThePeople == Spec => []EntitiesArePeople
<1>1. IInv => EntitiesArePeople
  BY EntitiesFollow DEF IInv
<1> QED BY <1>1, Invariant, PTL

(* The check at the end of the second pass leaves no load whose passes     *)
(* counted differently.                                                    *)
THEOREM AllRowsAccounted == Spec => []RowsAccounted
<1>1. IInv => RowsAccounted
  BY AccountsFollow
<1> QED BY <1>1, Invariant, PTL

------------------------------------------------------------------------------
(* What a load has read.                                                   *)

Sizes == [i \in 1..7 |-> Len(PlanRows(FeedPlans[i]))]

(* The rows of the plans before i.                                         *)
Before(sizes, i) ==
    (IF i > 1 THEN sizes[1] ELSE 0) + (IF i > 2 THEN sizes[2] ELSE 0)
  + (IF i > 3 THEN sizes[3] ELSE 0) + (IF i > 4 THEN sizes[4] ELSE 0)
  + (IF i > 5 THEN sizes[5] ELSE 0) + (IF i > 6 THEN sizes[6] ELSE 0)
  + (IF i > 7 THEN sizes[7] ELSE 0)

Places == [table : Tables, shape : Shapes, at : Nat]

Place(i, k) == [table |-> FeedPlans[i].table, shape |-> FeedPlans[i].shape,
                at |-> PlanRows(FeedPlans[i])[k]]

Part(i) == [k \in 1..Sizes[i] |-> Place(i, k)]

(* A sequence that holds the first i parts, one after another.             *)
Spread(flat, i) ==
  /\ flat \in Seq(Places) /\ Len(flat) = Before(Sizes, i + 1)
  /\ \A j \in 1..i : \A k \in 1..Sizes[j] :
       Before(Sizes, j) + k \in 1..Len(flat) /\ flat[Before(Sizes, j) + k] = Place(j, k)
  /\ \A n \in 1..Len(flat) : \E j \in 1..i : \E k \in 1..Sizes[j] : n = Before(Sizes, j) + k

LEMMA BeforeFacts ==
  ASSUME csv \in Corpora, limit \in Limits \cup {None}
  PROVE  /\ Before(Sizes, 1) = 0
         /\ \A i \in 1..8 : Before(Sizes, i) \in Nat
         /\ \A i \in 1..7 : Sizes[i] \in Nat /\ Before(Sizes, i + 1) = Before(Sizes, i) + Sizes[i]
         /\ \A i, j \in 1..8 : i <= j => Before(Sizes, i) <= Before(Sizes, j)
<1> DEFINE s1 == Sizes[1]
           s2 == Sizes[2]
           s3 == Sizes[3]
           s4 == Sizes[4]
           s5 == Sizes[5]
           s6 == Sizes[6]
           s7 == Sizes[7]
<1>1. \A i \in 1..7 : Sizes[i] \in Nat
  <2> TAKE i \in 1..7
  <2>1. PlanRows(FeedPlans[i]) \in Seq(Nat)
    BY PlanRowsFacts
  <2> QED BY <2>1, LenProperties DEF Sizes
<1>2. /\ s1 \in Nat /\ s2 \in Nat /\ s3 \in Nat /\ s4 \in Nat /\ s5 \in Nat /\ s6 \in Nat
      /\ s7 \in Nat
  BY <1>1
<1> HIDE DEF s1, s2, s3, s4, s5, s6, s7
<1>3. /\ Before(Sizes, 1) = 0 /\ Before(Sizes, 2) = s1 /\ Before(Sizes, 3) = s1 + s2
      /\ Before(Sizes, 4) = s1 + s2 + s3 /\ Before(Sizes, 5) = s1 + s2 + s3 + s4
      /\ Before(Sizes, 6) = s1 + s2 + s3 + s4 + s5 /\ Before(Sizes, 7) = s1 + s2 + s3 + s4 + s5 + s6
      /\ Before(Sizes, 8) = s1 + s2 + s3 + s4 + s5 + s6 + s7
  BY <1>2 DEF Before, s1, s2, s3, s4, s5, s6, s7
<1>4. \A i \in 1..7 : i = 1 \/ i = 2 \/ i = 3 \/ i = 4 \/ i = 5 \/ i = 6 \/ i = 7
  OBVIOUS
<1>5. \A i \in 1..8 : i \in 1..7 \/ i = 8
  OBVIOUS
<1>6. \A i \in 1..8 : Before(Sizes, i) \in Nat
  BY <1>2, <1>3, <1>4, <1>5
<1>7. \A i \in 1..7 : Before(Sizes, i + 1) = Before(Sizes, i) + Sizes[i]
  <2> TAKE i \in 1..7
  <2>1. CASE i = 1
    BY <1>2, <1>3, <2>1 DEF s1
  <2>2. CASE i = 2
    BY <1>2, <1>3, <2>2 DEF s2
  <2>3. CASE i = 3
    BY <1>2, <1>3, <2>3 DEF s3
  <2>4. CASE i = 4
    BY <1>2, <1>3, <2>4 DEF s4
  <2>5. CASE i = 5
    BY <1>2, <1>3, <2>5 DEF s5
  <2>6. CASE i = 6
    BY <1>2, <1>3, <2>6 DEF s6
  <2>7. CASE i = 7
    BY <1>2, <1>3, <2>7 DEF s7
  <2> QED BY <1>4, <2>1, <2>2, <2>3, <2>4, <2>5, <2>6, <2>7
<1>8. \A i, j \in 1..8 : i <= j => Before(Sizes, i) <= Before(Sizes, j)
  <2>1. /\ Before(Sizes, 1) <= Before(Sizes, 2) /\ Before(Sizes, 2) <= Before(Sizes, 3) /\ Before(Sizes, 3) <= Before(Sizes, 4)
        /\ Before(Sizes, 4) <= Before(Sizes, 5) /\ Before(Sizes, 5) <= Before(Sizes, 6) /\ Before(Sizes, 6) <= Before(Sizes, 7)
        /\ Before(Sizes, 7) <= Before(Sizes, 8)
    BY <1>2, <1>3
  <2> DEFINE B == [i \in 1..8 |-> Before(Sizes, i)]
  <2>2. /\ B[1] <= B[2] /\ B[2] <= B[3] /\ B[3] <= B[4] /\ B[4] <= B[5] /\ B[5] <= B[6]
        /\ B[6] <= B[7] /\ B[7] <= B[8]
    BY <2>1
  <2>3. B \in [1..8 -> Nat]
    BY <1>6
  <2>4. \A i \in 1..8 : B[i] = Before(Sizes, i)
    OBVIOUS
  <2> HIDE DEF B
  <2>5. \A i, j \in 1..8 : i <= j => B[i] <= B[j]
    BY <1>4, <1>5, <2>2, <2>3
  <2> QED BY <2>4, <2>5
<1> QED BY <1>1, <1>3, <1>6, <1>7, <1>8

LEMMA PartFacts ==
  ASSUME csv \in Corpora, limit \in Limits \cup {None}, NEW i \in 1..7
  PROVE  /\ Part(i) \in Seq(Places) /\ Len(Part(i)) = Sizes[i]
         /\ \A k \in 1..Sizes[i] : Part(i)[k] = Place(i, k)
<1>1. Sizes[i] \in Nat
  BY BeforeFacts
<1>2. FeedPlans[i].shape \in Shapes /\ FeedPlans[i].table \in Tables
  BY PlanFacts
<1>3. \A k \in 1..Sizes[i] : PlanRows(FeedPlans[i])[k] \in Nat
  <2>1. PlanRows(FeedPlans[i]) \in Seq(Nat)
    BY PlanRowsFacts
  <2> QED BY <2>1, ElementOfSeq DEF Sizes
<1>4. \A k \in 1..Sizes[i] : Place(i, k) \in Places
  BY <1>2, <1>3 DEF Place, Places
<1>5. Part(i) \in [1..Sizes[i] -> Places]
  BY <1>4 DEF Part
<1>6. Part(i) \in Seq(Places) /\ Len(Part(i)) = Sizes[i]
  BY <1>1, <1>5
<1> QED BY <1>6 DEF Part

LEMMA SpreadNext ==
  ASSUME csv \in Corpora, limit \in Limits \cup {None}, NEW i \in 1..6, NEW flat,
         Spread(flat, i)
  PROVE  Spread(flat \o Part(i + 1), i + 1)
<1> DEFINE new == Part(i + 1)
           all == flat \o new
           m == Len(flat)
           n == Len(new)
<1>1. i + 1 \in 1..7 /\ i \in 1..8 /\ i + 1 \in 1..8 /\ (i + 1) + 1 \in 1..8
  OBVIOUS
<1>2. /\ new \in Seq(Places) /\ n = Sizes[i + 1]
      /\ \A k \in 1..n : new[k] = Place(i + 1, k)
  BY <1>1, PartFacts
<1>3. /\ flat \in Seq(Places) /\ m = Before(Sizes, i + 1)
      /\ \A j \in 1..i : \A k \in 1..Sizes[j] :
           Before(Sizes, j) + k \in 1..m /\ flat[Before(Sizes, j) + k] = Place(j, k)
      /\ \A x \in 1..m : \E j \in 1..i : \E k \in 1..Sizes[j] : x = Before(Sizes, j) + k
  BY DEF Spread
<1>4. /\ all \in Seq(Places) /\ Len(all) = m + n /\ m \in Nat /\ n \in Nat
      /\ \A x \in 1..m : all[x] = flat[x]
      /\ \A k \in 1..n : all[m + k] = new[k]
      /\ \A x \in 1..Len(all) : x \in 1..m \/ (x > m /\ \E k \in 1..n : x = m + k)
  <2>1. flat \in Seq(Places) /\ new \in Seq(Places)
    BY <1>2, <1>3
  <2> HIDE DEF new
  <2> QED BY <2>1, Grown
<1>5. Before(Sizes, (i + 1) + 1) = Before(Sizes, i + 1) + Sizes[i + 1]
  BY <1>1, BeforeFacts
<1> HIDE DEF all, m, n, new
<1>6. \A j \in 1..(i + 1) : j \in 1..i \/ j = i + 1
  OBVIOUS
<1>7. ASSUME NEW j \in 1..(i + 1), NEW k \in 1..Sizes[j]
      PROVE  Before(Sizes, j) + k \in 1..Len(all) /\ all[Before(Sizes, j) + k] = Place(j, k)
  <2>1. CASE j \in 1..i
    <3>1. Before(Sizes, j) + k \in 1..m /\ flat[Before(Sizes, j) + k] = Place(j, k)
      BY <1>3, <2>1
    <3> QED BY <1>4, <3>1
  <2>2. CASE j = i + 1
    <3>1. k \in 1..n /\ Before(Sizes, j) = m
      BY <1>2, <1>3, <2>2
    <3>2. m + k \in 1..(m + n)
      BY <1>4, <3>1
    <3>3. all[m + k] = new[k] /\ new[k] = Place(j, k)
      BY <1>2, <1>4, <2>2, <3>1
    <3> QED BY <1>4, <3>1, <3>2, <3>3
  <2> QED BY <1>6, <2>1, <2>2
<1>8. ASSUME NEW x \in 1..Len(all)
      PROVE  \E j \in 1..(i + 1) : \E k \in 1..Sizes[j] : x = Before(Sizes, j) + k
  <2>1. CASE x \in 1..m
    <3>1. \A j \in 1..i : j \in 1..(i + 1)
      OBVIOUS
    <3> QED BY <1>3, <2>1, <3>1
  <2>2. ASSUME NEW k \in 1..n, x = m + k
        PROVE  \E j \in 1..(i + 1) : \E q \in 1..Sizes[j] : x = Before(Sizes, j) + q
    <3>1. i + 1 \in 1..(i + 1) /\ k \in 1..Sizes[i + 1] /\ x = Before(Sizes, i + 1) + k
      BY <1>2, <1>3, <2>2
    <3> QED BY <3>1
  <2> QED BY <1>4, <2>1, <2>2
<1>9. Len(all) = Before(Sizes, (i + 1) + 1)
  BY <1>2, <1>3, <1>4, <1>5
<1> QED BY <1>4, <1>7, <1>8, <1>9 DEF Spread, all, new

(* FlattenSeq of seven parts. *)
Cumulative(parts, flat) ==
  flat = [i \in 1..Len(parts) |-> IF i = 1 THEN parts[i] ELSE flat[i - 1] \o parts[i]]

LEMMA Flattened ==
  ASSUME NEW parts, Len(parts) = 7
  PROVE  \E flat : Cumulative(parts, flat) /\ FlattenSeq(parts) = flat[7]
<1> DEFINE c1 == parts[1]
           c2 == c1 \o parts[2]
           c3 == c2 \o parts[3]
           c4 == c3 \o parts[4]
           c5 == c4 \o parts[5]
           c6 == c5 \o parts[6]
           c7 == c6 \o parts[7]
           g == [i \in 1..7 |-> IF i = 1 THEN c1 ELSE IF i = 2 THEN c2 ELSE
                                IF i = 3 THEN c3 ELSE IF i = 4 THEN c4 ELSE
                                IF i = 5 THEN c5 ELSE IF i = 6 THEN c6 ELSE c7]
           h == [i \in 1..7 |-> IF i = 1 THEN parts[i] ELSE g[i - 1] \o parts[i]]
<1>1. \A i \in 1..7 : i = 1 \/ i = 2 \/ i = 3 \/ i = 4 \/ i = 5 \/ i = 6 \/ i = 7
  OBVIOUS
<1>2. /\ g[1] = c1 /\ g[2] = c2 /\ g[3] = c3 /\ g[4] = c4 /\ g[5] = c5 /\ g[6] = c6
      /\ g[7] = c7 /\ DOMAIN g = 1..7 /\ g = [i \in 1..7 |-> g[i]]
  <2> HIDE DEF c1, c2, c3, c4, c5, c6, c7
  <2> QED OBVIOUS
<1>3. /\ g[1] = parts[1] /\ g[2] = g[1] \o parts[2] /\ g[3] = g[2] \o parts[3]
      /\ g[4] = g[3] \o parts[4] /\ g[5] = g[4] \o parts[5] /\ g[6] = g[5] \o parts[6]
      /\ g[7] = g[6] \o parts[7]
  <2> HIDE DEF g
  <2> QED BY <1>2
<1> HIDE DEF g, c1, c2, c3, c4, c5, c6, c7
<1>4. \A i \in 1..7 : h[i] = g[i]
  <2> TAKE i \in 1..7
  <2>1. h[i] = IF i = 1 THEN parts[i] ELSE g[i - 1] \o parts[i]
    OBVIOUS
  <2> HIDE DEF h
  <2>2. CASE i = 1
    BY <1>3, <2>1, <2>2
  <2>3. CASE i # 1
    <3>1. /\ 2 - 1 = 1 /\ 3 - 1 = 2 /\ 4 - 1 = 3 /\ 5 - 1 = 4 /\ 6 - 1 = 5 /\ 7 - 1 = 6
      OBVIOUS
    <3>2. h[i] = g[i - 1] \o parts[i]
      BY <2>1, <2>3
    <3> QED BY <1>1, <1>3, <2>3, <3>1, <3>2
  <2> QED BY <2>2, <2>3
<1>5. DOMAIN h = 1..7 /\ h = [i \in 1..7 |-> h[i]]
  OBVIOUS
<1>6. g = h
  <2> HIDE DEF h
  <2> QED BY <1>2, <1>4, <1>5
<1>7. Cumulative(parts, g)
  BY <1>6 DEF Cumulative
<1> DEFINE flat == CHOOSE f : Cumulative(parts, f)
<1>8. Cumulative(parts, flat)
  BY <1>7
<1>9. FlattenSeq(parts) = flat[7]
  BY DEF FlattenSeq, Cumulative
<1> QED BY <1>8, <1>9

LEMMA ReadFacts ==
  ASSUME csv \in Corpora, limit \in Limits \cup {None}
  PROVE  Spread(Read, 7)
<1> DEFINE parts == [i \in 1..7 |-> Part(i)]
<1>1. Read = FlattenSeq(parts)
  <2>1. \A i \in 1..7 : DOMAIN PlanRows(FeedPlans[i]) = 1..Sizes[i]
    BY PlanRowsFacts DEF Sizes
  <2>2. \A i \in 1..7 :
          [k \in DOMAIN PlanRows(FeedPlans[i]) |->
             [table |-> FeedPlans[i].table, shape |-> FeedPlans[i].shape,
              at |-> PlanRows(FeedPlans[i])[k]]] = Part(i)
    BY <2>1 DEF Part, Place
  <2>3. DOMAIN FeedPlans = 1..7
    BY PlanFacts
  <2>4. [i \in DOMAIN FeedPlans |->
           [k \in DOMAIN PlanRows(FeedPlans[i]) |->
             [table |-> FeedPlans[i].table, shape |-> FeedPlans[i].shape,
              at |-> PlanRows(FeedPlans[i])[k]]]] = parts
    BY <2>2, <2>3
  <2> QED BY <2>4 DEF Read
<1>2. Len(parts) = 7 /\ \A i \in 1..7 : parts[i] = Part(i)
  OBVIOUS
<1> HIDE DEF parts
<1>3. PICK flat : Cumulative(parts, flat) /\ FlattenSeq(parts) = flat[7]
  BY <1>2, Flattened
<1>4. /\ flat[1] = Part(1) /\ flat[2] = flat[1] \o Part(2) /\ flat[3] = flat[2] \o Part(3)
      /\ flat[4] = flat[3] \o Part(4) /\ flat[5] = flat[4] \o Part(5)
      /\ flat[6] = flat[5] \o Part(6) /\ flat[7] = flat[6] \o Part(7)
  <2>1. \A i \in 1..7 : flat[i] = IF i = 1 THEN parts[i] ELSE flat[i - 1] \o parts[i]
    BY <1>2, <1>3 DEF Cumulative
  <2>2. flat[1] = parts[1]
    BY <2>1
  <2>3. ASSUME NEW i \in 1..7, NEW j, j = i - 1, i # 1
        PROVE  flat[i] = flat[j] \o Part(i)
    BY <1>2, <2>1, <2>3, Zenon
  <2>4. /\ 1 = 2 - 1 /\ 2 = 3 - 1 /\ 3 = 4 - 1 /\ 4 = 5 - 1 /\ 5 = 6 - 1 /\ 6 = 7 - 1
    OBVIOUS
  <2>5. /\ 2 \in 1..7 /\ 2 # 1 /\ 3 \in 1..7 /\ 3 # 1 /\ 4 \in 1..7 /\ 4 # 1
        /\ 5 \in 1..7 /\ 5 # 1 /\ 6 \in 1..7 /\ 6 # 1 /\ 7 \in 1..7 /\ 7 # 1 /\ 1 \in 1..7
    OBVIOUS
  <2>6. flat[2] = flat[1] \o Part(2) /\ flat[3] = flat[2] \o Part(3)
    BY <2>3, <2>4, <2>5, Zenon
  <2>7. flat[4] = flat[3] \o Part(4) /\ flat[5] = flat[4] \o Part(5)
    BY <2>3, <2>4, <2>5, Zenon
  <2>8. flat[6] = flat[5] \o Part(6) /\ flat[7] = flat[6] \o Part(7)
    BY <2>3, <2>4, <2>5, Zenon
  <2> QED BY <1>2, <2>2, <2>5, <2>6, <2>7, <2>8, Zenon
<1>5. Spread(flat[1], 1)
  <2>1. /\ Part(1) \in Seq(Places) /\ Len(Part(1)) = Sizes[1] /\ Sizes[1] \in Nat
        /\ \A k \in 1..Sizes[1] : Part(1)[k] = Place(1, k)
    BY PartFacts, BeforeFacts
  <2>2. Before(Sizes, 1) = 0 /\ Before(Sizes, 1 + 1) = Sizes[1]
    <3>1. 1 \in 1..7
      OBVIOUS
    <3>2. Before(Sizes, 1) = 0 /\ Before(Sizes, 1 + 1) = Before(Sizes, 1) + Sizes[1]
      BY <3>1, BeforeFacts
    <3> QED BY <2>1, <3>2
  <2>3. \A j \in 1..1 : j = 1
    OBVIOUS
  <2>4. \A k \in 1..Sizes[1] : Before(Sizes, 1) + k = k
    BY <2>1, <2>2
  <2> QED BY <1>4, <2>1, <2>2, <2>3, <2>4 DEF Spread
<1>6. /\ 1 \in 1..6 /\ 1 + 1 = 2 /\ 2 \in 1..6 /\ 2 + 1 = 3 /\ 3 \in 1..6 /\ 3 + 1 = 4
      /\ 4 \in 1..6 /\ 4 + 1 = 5 /\ 5 \in 1..6 /\ 5 + 1 = 6 /\ 6 \in 1..6 /\ 6 + 1 = 7
  OBVIOUS
<1>7. Spread(flat[2], 2)
  BY <1>4, <1>5, <1>6, SpreadNext
<1>8. Spread(flat[3], 3)
  BY <1>4, <1>6, <1>7, SpreadNext
<1>9. Spread(flat[4], 4)
  BY <1>4, <1>6, <1>8, SpreadNext
<1>10. Spread(flat[5], 5)
  BY <1>4, <1>6, <1>9, SpreadNext
<1>11. Spread(flat[6], 6)
  BY <1>4, <1>6, <1>10, SpreadNext
<1>12. Spread(flat[7], 7)
  BY <1>4, <1>6, <1>11, SpreadNext
<1> QED BY <1>1, <1>3, <1>12

------------------------------------------------------------------------------
(* The invariant of a load whose files stay: the index is that of the      *)
(* first rows to be read, and the records are exactly those rows.          *)

FieldsAt(files, read, n) ==
  IdentityFields(read[n].shape, files[read[n].shape][read[n].at])

FirstFields(files, read, m) == [n \in 1..m |-> FieldsAt(files, read, n)]

(* The rows before the n-th that go to a table.                            *)
Tally(read, t, n) == Cardinality({m \in 1..n : read[m].table = t})

Matching(drive, key) == {d \in DOMAIN drive : JoinKey(drive[d]) = key}

LicencesOf(drive) ==
  [key \in {JoinKey(d) : d \in ToSet(drive)} |-> drive[FirstOf(drive, key)].licence]

LicenceOf(drive, shape, row) ==
  LET drives == Matching(drive, JoinKey(row))
  IN  IF shape = "loan" /\ drives # {} THEN drive[Min(drives)].licence ELSE None

(* The record of the n-th row, as far as the row and its place decide it.  *)
Exact(files, read, q, n) ==
  /\ q.table = read[n].table /\ q.shape = read[n].shape /\ q.at = read[n].at
  /\ q.id = IdBase[read[n].table] + Tally(read, read[n].table, n - 1)
  /\ q.licence = LicenceOf(files.drive, read[n].shape, files[read[n].shape][read[n].at])

Dense(who) ==
  \A n \in DOMAIN who : who[n] <= Cardinality({who[m] : m \in 1..(n - 1)})

Identified(files, read, sizes, who) ==
  /\ Len(who) = Before(sizes, 8)
  /\ AreClusters(FirstFields(files, read, Before(sizes, 8)), who) /\ Dense(who)

Copied(files, read, recs, ids, m) ==
  /\ \A t \in Tables : ids[t] = IdBase[t] + Tally(read, t, m)
  /\ \A n \in 1..m : Exact(files, read, recs[n], n)

Copying == {"records", "oracle", "diverged", "people", "masters", "links", "analyze", "done"}

ReadOK ==
  /\ stage \in {"idle", "failed", "identify"} => persons = <<>>
  /\ ~replaced =>
       /\ stage = "identify" =>
            /\ count <= Sizes[plan]
            /\ Indexed(index, FirstFields(csv, Read, Before(Sizes, plan) + count), {})
       /\ stage \in Copying \cup {"licences"} => Identified(csv, Read, Sizes, persons)
       /\ stage \in Copying =>
            /\ licences = LicencesOf(csv.drive)
            /\ node = IF stage = "records" THEN Before(Sizes, plan)
                      ELSE Before(Sizes, plan + 1)
            /\ Copied(csv, Read, db.records, nextId, node)

LEMMA ReadKept ==
  ASSUME csv' = csv, limit' = limit
  PROVE  Read' = Read /\ Sizes' = Sizes
BY DEF Read, Sizes, PlanRows, Owned

LEMMA ReadStands ==
  ASSUME ReadOK, UNCHANGED <<csv, replaced, limit, memory>>,
         \/ stage' = stage
         \/ stage \in Copying \ {"records"} /\ stage' \in Copying \ {"records"},
         db'.records = db.records
  PROVE  ReadOK'
<1>1. /\ UNCHANGED <<csv, replaced, limit, plan, count, index, persons, licences, node,
                     nextId>>
      /\ Read' = Read /\ Sizes' = Sizes
  BY ReadKept DEF memory
<1>2. CASE stage' = stage
  BY <1>1, <1>2 DEF ReadOK
<1>3. CASE stage \in Copying \ {"records"} /\ stage' \in Copying \ {"records"}
  BY <1>1, <1>3 DEF ReadOK, Copying
<1> QED BY <1>2, <1>3

LEMMA ReadAt ==
  ASSUME csv \in Corpora, limit \in Limits \cup {None}
  PROVE  /\ Read \in Seq(Places) /\ Len(Read) = Before(Sizes, 8) /\ DOMAIN Read = 1..Len(Read)
         /\ \A i \in 1..7 : \A k \in 1..Sizes[i] :
              /\ Before(Sizes, i) + k \in 1..Len(Read)
              /\ Read[Before(Sizes, i) + k] = Place(i, k)
         /\ \A n \in 1..Len(Read) : \E i \in 1..7 : \E k \in 1..Sizes[i] :
              n = Before(Sizes, i) + k
<1>1. 7 + 1 = 8
  OBVIOUS
<1>2. /\ Read \in Seq(Places) /\ Len(Read) = Before(Sizes, 7 + 1)
      /\ \A i \in 1..7 : \A k \in 1..Sizes[i] :
           /\ Before(Sizes, i) + k \in 1..Len(Read)
           /\ Read[Before(Sizes, i) + k] = Place(i, k)
      /\ \A n \in 1..Len(Read) : \E i \in 1..7 : \E k \in 1..Sizes[i] :
           n = Before(Sizes, i) + k
  BY ReadFacts DEF Spread
<1>3. DOMAIN Read = 1..Len(Read)
  BY <1>2, LenProperties
<1> QED BY <1>1, <1>2, <1>3

LEMMA TallyNext ==
  ASSUME csv \in Corpora, limit \in Limits \cup {None}, NEW t, NEW i \in 1..7,
         NEW k \in 0..Sizes[i]
  PROVE  LET b == Before(Sizes, i)
         IN  /\ Tally(Read, t, b) \in Nat
             /\ Tally(Read, t, b + k)
                  = Tally(Read, t, b) + IF FeedPlans[i].table = t THEN k ELSE 0
<1> DEFINE b == Before(Sizes, i)
           at(x) == {m \in 1..x : Read[m].table = t}
           A == at(b)
           B == (b + 1)..(b + k)
<1>1. b \in Nat /\ k \in Nat /\ k <= Sizes[i] /\ Sizes[i] \in Nat
  <2>1. i \in 1..8
    OBVIOUS
  <2> QED BY <2>1, BeforeFacts
<1>2. \A q \in 1..Sizes[i] : Read[b + q] = Place(i, q)
  BY ReadAt
<1> HIDE DEF b
<1>3. \A q \in 1..k : Read[b + q].table = FeedPlans[i].table
  <2> TAKE q \in 1..k
  <2>1. q \in 1..Sizes[i]
    BY <1>1
  <2>2. Read[b + q] = Place(i, q)
    BY <1>2, <2>1
  <2> QED BY <2>2 DEF Place
<1>4. \A m \in B : m - b \in 1..k /\ m = b + (m - b)
  BY <1>1
<1>5. \A m \in B : Read[m].table = FeedPlans[i].table
  BY <1>3, <1>4
<1>6. at(b + k) = A \cup {m \in B : FeedPlans[i].table = t}
  <2>1. \A m : m \in 1..(b + k) <=> m \in 1..b \/ m \in B
    BY <1>1
  <2> QED BY <1>5, <2>1
<1>7. IsFiniteSet(1..b) /\ A \subseteq 1..b
  <2>1. 1 \in Int /\ b \in Int
    BY <1>1
  <2> QED BY <2>1, FS_Interval
<1>8. IsFiniteSet(A) /\ Cardinality(A) \in Nat
  BY <1>7, FS_Subset, FS_CardinalityType
<1>9. IsFiniteSet(B) /\ Cardinality(B) = k
  <2>1. b + 1 \in Int /\ b + k \in Int
    BY <1>1
  <2>2. IsFiniteSet(B) /\ Cardinality(B) = IF b + 1 > b + k THEN 0 ELSE (b + k) - (b + 1) + 1
    BY <2>1, FS_Interval
  <2>3. (IF b + 1 > b + k THEN 0 ELSE (b + k) - (b + 1) + 1) = k
    BY <1>1
  <2> QED BY <2>2, <2>3
<1>10. A \cap B = {}
  <2>1. \A m \in B : m \notin 1..b
    BY <1>1
  <2> QED BY <1>7, <2>1
<1> HIDE DEF A, B
<1>11. Cardinality(at(b + k)) = Cardinality(A) + IF FeedPlans[i].table = t THEN k ELSE 0
  <2>1. CASE FeedPlans[i].table = t
    <3>1. at(b + k) = A \cup B
      BY <1>6, <2>1
    <3>2. Cardinality(A \cup B) = Cardinality(A) + Cardinality(B) - Cardinality({})
      BY <1>8, <1>9, <1>10, FS_Union
    <3>3. Cardinality({}) = 0
      BY FS_EmptySet
    <3>4. Cardinality(at(b + k)) = Cardinality(A) + k - 0
      BY <1>9, <3>1, <3>2, <3>3
    <3> HIDE DEF at
    <3> QED BY <1>1, <1>8, <2>1, <3>4
  <2>2. CASE FeedPlans[i].table # t
    <3>1. at(b + k) = A
      BY <1>6, <2>2
    <3> HIDE DEF at
    <3> QED BY <1>8, <2>2, <3>1
  <2> QED BY <2>1, <2>2
<1> QED BY <1>8, <1>11 DEF Tally, A, b

LEMMA FieldsTyped ==
  ASSUME csv \in Corpora, limit \in Limits \cup {None}
  PROVE  \A m \in 0..Len(Read) :
           /\ FirstFields(csv, Read, m) \in Seq(Fields) /\ Len(FirstFields(csv, Read, m)) = m
           /\ m < Len(Read) => FirstFields(csv, Read, m + 1)
                = Append(FirstFields(csv, Read, m), FieldsAt(csv, Read, m + 1))
<1>1. Len(Read) \in Nat
  BY ReadAt, LenProperties
<1>2. \A n \in 1..Len(Read) : FieldsAt(csv, Read, n) \in Fields
  <2> TAKE n \in 1..Len(Read)
  <2>0. PICK i \in 1..7 : \E k \in 1..Sizes[i] : n = Before(Sizes, i) + k
    BY ReadAt
  <2>1. PICK k \in 1..Sizes[i] : n = Before(Sizes, i) + k
    BY <2>0
  <2>2. Read[n] = Place(i, k) /\ k \in 1..Len(PlanRows(FeedPlans[i]))
    BY <2>1, ReadAt DEF Sizes
  <2>3. IdentityFields(FeedPlans[i].shape,
                       csv[FeedPlans[i].shape][PlanRows(FeedPlans[i])[k]]) \in Fields
    BY <2>2, RowFields
  <2> QED BY <2>2, <2>3 DEF FieldsAt, Place
<1> SUFFICES ASSUME NEW m \in 0..Len(Read)
             PROVE  /\ FirstFields(csv, Read, m) \in Seq(Fields)
                    /\ Len(FirstFields(csv, Read, m)) = m
                    /\ m < Len(Read) => FirstFields(csv, Read, m + 1)
                         = Append(FirstFields(csv, Read, m), FieldsAt(csv, Read, m + 1))
  OBVIOUS
<1>3. m \in Nat /\ \A n \in 1..m : n \in 1..Len(Read)
  BY <1>1
<1> DEFINE f == [n \in 1..m |-> FieldsAt(csv, Read, n)]
<1>4. f \in [1..m -> Fields]
  BY <1>2, <1>3
<1>5. FirstFields(csv, Read, m) = f
  BY DEF FirstFields
<1>6. f \in Seq(Fields) /\ Len(f) = m
  <2> HIDE DEF f
  <2> QED BY <1>3, <1>4
<1>7. ASSUME m < Len(Read)
      PROVE  FirstFields(csv, Read, m + 1) = Append(f, FieldsAt(csv, Read, m + 1))
  <2> DEFINE x == FieldsAt(csv, Read, m + 1)
             g == [n \in 1..(m + 1) |-> FieldsAt(csv, Read, n)]
  <2>1. m + 1 \in 1..Len(Read)
    BY <1>1, <1>3, <1>7
  <2>2. x \in Fields
    BY <1>2, <2>1
  <2>3. \A n \in 1..m : f[n] = g[n]
    BY <1>3
  <2>4. g[m + 1] = x /\ DOMAIN g = 1..(m + 1) /\ g = [n \in 1..(m + 1) |-> g[n]]
    BY <1>3
  <2> HIDE DEF f, g, x
  <2>5. /\ Append(f, x) \in Seq(Fields) /\ Len(Append(f, x)) = m + 1
        /\ \A n \in 1..m : Append(f, x)[n] = f[n]
        /\ Append(f, x)[m + 1] = x
    BY <1>6, <2>2, AppendProperties
  <2>6. g = Append(f, x)
    <3> DEFINE a == Append(f, x)
    <3>1. DOMAIN a = 1..(m + 1) /\ a = [n \in 1..(m + 1) |-> a[n]]
      <4>1. a \in Seq(Fields) /\ Len(a) = m + 1
        BY <2>5
      <4> HIDE DEF a
      <4>2. a \in [1..(m + 1) -> Fields]
        BY <4>1, LenProperties
      <4> QED BY <4>2
    <3>2. \A n \in 1..(m + 1) : n \in 1..m \/ n = m + 1
      BY <1>3
    <3>3. \A n \in 1..(m + 1) : a[n] = g[n]
      BY <2>3, <2>4, <2>5, <3>2
    <3> HIDE DEF a
    <3>4. g = a
      BY <2>4, <3>1, <3>3
    <3> QED BY <3>4 DEF a
  <2> QED BY <2>6 DEF FirstFields, g, x
<1> QED BY <1>5, <1>6, <1>7

(* The licence of a join key is that of its first drive row.               *)
LEMMA LicenceFacts ==
  ASSUME NEW drive, drive \in Seq(Drives), NEW key
  PROVE  /\ key \in DOMAIN LicencesOf(drive) <=> Matching(drive, key) # {}
         /\ Matching(drive, key) # {} =>
              LicencesOf(drive)[key] = drive[Min(Matching(drive, key))].licence
<1> DEFINE M == Matching(drive, key)
           first == FirstOf(drive, key)
<1>1. DOMAIN drive = 1..Len(drive) /\ Len(drive) \in Nat
  BY LenProperties
<1>2. key \in DOMAIN LicencesOf(drive) <=> \E d \in 1..Len(drive) : JoinKey(drive[d]) = key
  <2>1. DOMAIN LicencesOf(drive) = {JoinKey(d) : d \in ToSet(drive)}
    BY DEF LicencesOf
  <2>2. ToSet(drive) = {drive[d] : d \in 1..Len(drive)}
    BY <1>1 DEF ToSet
  <2> QED BY <2>1, <2>2
<1>3. M = {d \in 1..Len(drive) : JoinKey(drive[d]) = key}
  BY <1>1 DEF Matching
<1>4. ASSUME M # {} PROVE LicencesOf(drive)[key] = drive[Min(M)].licence
  <2>1. PICK d \in 1..Len(drive) : JoinKey(drive[d]) = key
    BY <1>3, <1>4
  <2>2. /\ first \in M
        /\ \A e \in 1..(first - 1) : JoinKey(drive[e]) # key
    BY <1>3, <2>1, FirstDrive
  <2>3. M \subseteq Nat /\ M \subseteq 1..Len(drive)
    BY <1>1, <1>3
  <2> HIDE DEF first
  <2>4. Min(M) \in M /\ \A e \in M : Min(M) <= e
    <3> HIDE DEF M
    <3> QED BY <1>4, <2>3, LeastIsMin
  <2>5. ~(Min(M) < first)
    <3> SUFFICES ASSUME Min(M) < first PROVE FALSE
      OBVIOUS
    <3> DEFINE x == Min(M)
    <3>1. x \in 1..Len(drive) /\ JoinKey(drive[x]) = key /\ first \in 1..Len(drive) /\ x < first
      BY <1>3, <2>2, <2>3, <2>4
    <3> HIDE DEF x
    <3>2. x \in 1..(first - 1)
      BY <1>1, <3>1
    <3> QED BY <2>2, <3>1, <3>2
  <2>6. Min(M) = first
    <3> DEFINE x == Min(M)
    <3>1. x \in Nat /\ first \in Nat /\ x <= first /\ ~(x < first)
      BY <2>2, <2>3, <2>4, <2>5
    <3> HIDE DEF x
    <3>2. x = first
      BY <3>1
    <3> QED BY <3>2 DEF x
  <2>7. key \in {JoinKey(e) : e \in ToSet(drive)}
    BY <1>2, <2>1 DEF LicencesOf
  <2> HIDE DEF M
  <2>8. LicencesOf(drive)[key] = drive[first].licence
    BY <2>7 DEF LicencesOf, first
  <2> QED BY <2>6, <2>8
<1> QED BY <1>2, <1>3, <1>4

------------------------------------------------------------------------------
(* The steps.                                                              *)

LEMMA ReadBegins ==
  ASSUME IInv, NewMemory, stage' \in {"idle", "failed", "identify"}, csv' = csv,
         limit' \in Limits \cup {None}
  PROVE  ReadOK'
<1>1. plan' = 1 /\ count' = 0 /\ index' = EmptyIndex /\ persons' = <<>>
  BY DEF NewMemory
<1>2. csv' \in Corpora
  BY DEF IInv, TypesOK
<1>3. Sizes'[1] \in Nat /\ Before(Sizes', 1) = 0
  <2>1. \A i \in 1..7 : (Len(PlanRows(FeedPlans[i])) \in Nat)'
    BY <1>2, PlanRowsFacts, LenProperties
  <2> QED BY <2>1 DEF Sizes, Before
<1>4. FirstFields(csv', Read', Before(Sizes', plan') + count') = <<>>
  <2>1. Before(Sizes', plan') + count' = 0
    BY <1>1, <1>3
  <2>2. 1..0 = {}
    OBVIOUS
  <2> QED BY <2>1, <2>2 DEF FirstFields
<1>5. Indexed(index', FirstFields(csv', Read', Before(Sizes', plan') + count'), {})
  BY <1>1, <1>4, EmptyIndexed
<1>6. count' <= Sizes'[plan']
  BY <1>1, <1>3
<1>7. stage' \notin Copying \cup {"licences"}
  BY DEF Copying
<1> QED BY <1>1, <1>5, <1>6, <1>7 DEF ReadOK, Copying

LEMMA ReadAborts ==
  ASSUME IInv, Abort
  PROVE  ReadOK'
BY ReadBegins DEF Abort, IInv, TypesOK

LEMMA ReadCheckout ==
  ASSUME ReadOK, Checkout
  PROVE  ReadOK'
BY DEF ReadOK, Checkout, memory

LEMMA ReadIdentify ==
  ASSUME IInv, ReadOK, IdentifyRow
  PROVE  ReadOK'
<1> DEFINE p == FeedPlans[plan]
           row == IdentityFields(p.shape, csv[p.shape][PlanRows(p)[count + 1]])
           m == Before(Sizes, plan) + count
           first == FirstFields(csv, Read, m)
<1>1. /\ stage = "identify" /\ count < Len(PlanRows(p)) /\ index' = Add(index, row)
      /\ count' = count + 1
      /\ UNCHANGED <<csv, replaced, stage, limit, plan, persons, licences, node, nextId,
                     pending, db>>
  BY DEF IdentifyRow
<1>2. csv \in Corpora /\ limit \in Limits \cup {None} /\ plan \in 1..7 /\ count \in Nat
  BY DEF IInv, TypesOK
<1>3. Read' = Read /\ Sizes' = Sizes
  BY <1>1, ReadKept
<1>4. CASE replaced
  BY <1>1, <1>4 DEF ReadOK
<1>5. CASE ~replaced
  <2>1. Sizes[plan] = Len(PlanRows(p)) /\ Sizes[plan] \in Nat
    BY <1>2, BeforeFacts DEF Sizes
  <2>2. count + 1 \in 1..Sizes[plan]
    BY <1>1, <1>2, <2>1
  <2>3. Before(Sizes, plan) \in Nat
    <3>1. plan \in 1..8
      BY <1>2
    <3> QED BY <1>2, <3>1, BeforeFacts
  <2>4. /\ Before(Sizes, plan) + (count + 1) \in 1..Len(Read)
        /\ Read[Before(Sizes, plan) + (count + 1)] = Place(plan, count + 1)
    BY <1>2, <2>2, ReadAt
  <2>5. m \in Nat /\ Before(Sizes, plan) + (count + 1) = m + 1
    BY <1>2, <2>3
  <2>6. Indexed(index, first, {})
    BY <1>1, <1>5 DEF ReadOK
  <2> HIDE DEF m, row, first, p
  <2>7. Len(Read) \in Nat
    BY <1>2, ReadAt, LenProperties
  <2>8. m \in 0..Len(Read) /\ m < Len(Read)
    BY <2>4, <2>5, <2>7
  <2>9. FieldsAt(csv, Read, m + 1) = row
    BY <2>4, <2>5 DEF FieldsAt, Place, row, p
  <2>10. /\ first \in Seq(Fields) /\ Len(first) = m
         /\ FirstFields(csv, Read, m + 1) = Append(first, row)
    BY <1>2, <2>8, <2>9, FieldsTyped DEF first
  <2>11. row \in Fields
    <3>1. count + 1 \in 1..Len(PlanRows(p))
      BY <2>1, <2>2
    <3> QED BY <1>2, <3>1, RowFields DEF row, p
  <2>12. Len(index.parent) = Len(first)
    BY <2>5, <2>6, <2>10, ForestLength DEF Indexed
  <2>13. Indexed(index', FirstFields(csv, Read, m + 1), {})
    BY <1>1, <2>6, <2>10, <2>11, <2>12, AddStep
  <2>14. Indexed(index', FirstFields(csv', Read', Before(Sizes', plan') + count'), {})
    BY <1>1, <1>3, <2>5, <2>13
  <2>15. count' <= Sizes'[plan']
    BY <1>1, <1>3, <2>2
  <2>16. persons' = <<>>
    BY <1>1 DEF ReadOK
  <2> QED BY <1>1, <2>14, <2>15, <2>16 DEF ReadOK, Copying
<1> QED BY <1>4, <1>5

LEMMA ReadEndPlan ==
  ASSUME IInv, ReadOK, EndPlan
  PROVE  ReadOK'
<1> DEFINE m == Before(Sizes, plan) + count
           first == FirstFields(csv, Read, m)
<1>1. /\ stage = "identify" /\ count >= Len(PlanRows(FeedPlans[plan])) /\ count' = 0
      /\ UNCHANGED <<csv, replaced, limit, licences, node, nextId, pending, db>>
  BY DEF EndPlan
<1>2. csv \in Corpora /\ limit \in Limits \cup {None} /\ plan \in 1..7 /\ count \in Nat
  BY DEF IInv, TypesOK
<1>3. Read' = Read /\ Sizes' = Sizes
  BY <1>1, ReadKept
<1>4. Sizes[plan] = Len(PlanRows(FeedPlans[plan])) /\ Sizes[plan] \in Nat
  BY <1>2, BeforeFacts DEF Sizes
<1>5. plan \in 1..8 /\ plan + 1 \in 1..8
  BY <1>2
<1>6. /\ Before(Sizes, plan) \in Nat /\ Before(Sizes, plan + 1) \in Nat
      /\ Before(Sizes, plan + 1) = Before(Sizes, plan) + Sizes[plan]
  BY <1>2, <1>5, BeforeFacts
<1>7. ASSUME ~replaced PROVE m = Before(Sizes, plan + 1) /\ Indexed(index, first, {})
  <2>1. count <= Sizes[plan] /\ Indexed(index, first, {})
    BY <1>1, <1>7 DEF ReadOK
  <2>2. count = Sizes[plan]
    BY <1>1, <1>2, <1>4, <2>1
  <2> QED BY <1>6, <2>1, <2>2
<1>8. persons = <<>>
  BY <1>1 DEF ReadOK
<1> HIDE DEF m
<1>9. CASE plan < 7
  <2>1. plan' = plan + 1 /\ UNCHANGED <<stage, index, persons>>
    BY <1>9, PlanFacts DEF EndPlan
  <2>2. ASSUME ~replaced
        PROVE  /\ count' <= Sizes'[plan']
               /\ Indexed(index', FirstFields(csv', Read', Before(Sizes', plan') + count'), {})
    <3>1. Sizes[plan + 1] \in Nat
      <4>1. plan + 1 \in 1..7
        BY <1>2, <1>9
      <4> QED BY <1>2, <4>1, BeforeFacts
    <3>2. Before(Sizes', plan') + count' = m
      BY <1>1, <1>3, <1>6, <1>7, <2>1, <2>2
    <3>3. Indexed(index', FirstFields(csv', Read', Before(Sizes', plan') + count'), {})
      BY <1>1, <1>3, <1>7, <2>1, <2>2, <3>2
    <3>4. count' <= Sizes'[plan']
      BY <1>1, <1>3, <2>1, <3>1
    <3> QED BY <3>3, <3>4
  <2>3. stage' = "identify" /\ persons' = <<>> /\ replaced' = replaced
    BY <1>1, <1>8, <2>1
  <2> QED BY <2>2, <2>3 DEF ReadOK, Copying
<1>10. CASE plan = 7
  <2>1. persons' = PersonIds(index) /\ stage' = "licences"
    BY <1>10, PlanFacts DEF EndPlan
  <2>2. ASSUME ~replaced PROVE Identified(csv', Read', Sizes', persons')
    <3>1. m = Before(Sizes, 8) /\ Indexed(index, first, {})
      BY <1>7, <1>10, <2>2
    <3>2. Len(Read) \in Nat /\ m = Len(Read)
      BY <1>2, <3>1, ReadAt, LenProperties
    <3>3. m \in 0..Len(Read)
      BY <3>2
    <3>4. first \in Seq(Fields) /\ Len(first) = m
      BY <1>2, <3>3, FieldsTyped
    <3> HIDE DEF first
    <3>5. /\ Len(persons') = m /\ AreClusters(first, persons') /\ Dense(persons')
      BY <2>1, <3>1, <3>4, PersonsOfAnIndex DEF Dense
    <3>6. Identified(csv, Read, Sizes, persons')
      BY <3>1, <3>5 DEF Identified, first
    <3> QED BY <1>1, <1>3, <3>6
  <2>3. replaced' = replaced
    BY <1>1
  <2> QED BY <2>1, <2>2, <2>3 DEF ReadOK, Copying
<1> QED BY <1>2, <1>9, <1>10

LEMMA ReadLicences ==
  ASSUME IInv, ReadOK, LoadLicences
  PROVE  ReadOK'
<1>1. /\ stage = "licences" /\ stage' = "records" /\ licences' = LicencesOf(csv.drive)
      /\ UNCHANGED <<csv, replaced, limit, plan, count, index, persons, node, nextId,
                     pending, db>>
  BY DEF LoadLicences, FirstOf, LicencesOf
<1>2. csv \in Corpora /\ limit \in Limits \cup {None} /\ plan = 1
  BY <1>1 DEF IInv, TypesOK
<1>3. Read' = Read /\ Sizes' = Sizes
  BY <1>1, ReadKept
<1>4. node = 0 /\ nextId = IdBase
  BY <1>1 DEF IInv, FreshOK, Fresh
<1>5. Before(Sizes, 1) = 0
  BY <1>2, BeforeFacts
<1>6. Copied(csv, Read, db.records, nextId, node)
  <2>1. \A t \in Tables : Tally(Read, t, 0) = 0 /\ IdBase[t] \in Nat
    <3>1. \A t : {x \in 1..0 : Read[x].table = t} = {}
      OBVIOUS
    <3>2. \A t : Tally(Read, t, 0) = 0
      BY <3>1, FS_EmptySet DEF Tally
    <3> QED BY <3>2 DEF IdBase, Tables
  <2>2. \A t \in Tables : nextId[t] = IdBase[t] + Tally(Read, t, node)
    BY <1>4, <2>1
  <2>3. \A x \in 1..node : FALSE
    BY <1>4
  <2> QED BY <2>2, <2>3 DEF Copied
<1>7. node = Before(Sizes, plan)
  BY <1>2, <1>4, <1>5
<1>8. ~replaced => Identified(csv, Read, Sizes, persons)
  BY <1>1 DEF ReadOK
<1>9. ~replaced' => /\ Identified(csv', Read', Sizes', persons')
                    /\ licences' = LicencesOf(csv'.drive) /\ node' = Before(Sizes', plan')
                    /\ Copied(csv', Read', db'.records, nextId', node')
  BY <1>1, <1>3, <1>6, <1>7, <1>8
<1> QED BY <1>1, <1>9 DEF ReadOK, Copying

(* A record that a plan copies is the one of its row.                      *)
LEMMA RecordIsExact ==
  ASSUME csv \in Corpora, limit \in Limits \cup {None}, plan \in 1..7,
         licences = LicencesOf(csv.drive), node = Before(Sizes, plan),
         \A t \in Tables : nextId[t] = IdBase[t] + Tally(Read, t, node),
         NEW k \in 1..Sizes[plan]
  PROVE  Exact(csv, Read, RecordOf(FeedPlans[plan], k), node + k)
<1> DEFINE p == FeedPlans[plan]
           q == RecordOf(p, k)
           at == PlanRows(p)[k]
           row == csv[p.shape][at]
<1>1. /\ Sizes[plan] = Len(PlanRows(p)) /\ Sizes[plan] \in Nat
      /\ p.table \in Tables /\ node \in Nat
  <2>1. plan \in 1..8
    OBVIOUS
  <2> QED BY <2>1, BeforeFacts, PlanFacts DEF Sizes
<1>2. Read[node + k] = Place(plan, k)
  BY ReadAt
<1>3. /\ Read[node + k].table = p.table /\ Read[node + k].shape = p.shape
      /\ Read[node + k].at = at
  BY <1>2 DEF Place
<1>4. /\ q.table = p.table /\ q.shape = p.shape /\ q.at = at
      /\ q.id = nextId[p.table] + k - 1
      /\ q.licence = IF p.shape = "loan" /\ JoinKey(row) \in DOMAIN licences
                     THEN licences[JoinKey(row)] ELSE None
  BY DEF RecordOf
<1> HIDE DEF q, at, p
<1>5. q.id = IdBase[p.table] + Tally(Read, p.table, (node + k) - 1)
  <2>1. k - 1 \in 0..Sizes[plan] /\ (node + k) - 1 = node + (k - 1)
    BY <1>1
  <2>2. /\ Tally(Read, p.table, node) \in Nat
        /\ Tally(Read, p.table, node + (k - 1)) = Tally(Read, p.table, node) + (k - 1)
    <3>1. /\ Tally(Read, p.table, Before(Sizes, plan)) \in Nat
          /\ Tally(Read, p.table, Before(Sizes, plan) + (k - 1))
               = Tally(Read, p.table, Before(Sizes, plan))
                   + IF FeedPlans[plan].table = p.table THEN k - 1 ELSE 0
      BY <2>1, TallyNext
    <3> QED BY <3>1 DEF p
  <2>3. IdBase[p.table] \in Nat /\ nextId[p.table] = IdBase[p.table] + Tally(Read, p.table, node)
    BY <1>1 DEF IdBase, Tables
  <2> DEFINE a == Tally(Read, p.table, node)
             b == Tally(Read, p.table, (node + k) - 1)
             base == IdBase[p.table]
             id == q.id
  <2>4. b = a + (k - 1) /\ id = (base + a) + k - 1 /\ base \in Nat /\ a \in Nat /\ k \in Nat
    BY <1>1, <1>4, <2>1, <2>2, <2>3
  <2> HIDE DEF a, b, base, id
  <2>5. id = base + b
    BY <2>4
  <2> QED BY <2>5 DEF id, base, b
<1>6. q.licence = LicenceOf(csv.drive, p.shape, row)
  <2>1. csv.drive \in Seq(Drives)
    BY CorpusFacts
  <2> DEFINE key == JoinKey(row)
  <2>2. /\ key \in DOMAIN licences <=> Matching(csv.drive, key) # {}
        /\ Matching(csv.drive, key) # {} =>
             licences[key] = csv.drive[Min(Matching(csv.drive, key))].licence
    BY <2>1, LicenceFacts
  <2> QED BY <1>4, <2>2 DEF LicenceOf
<1>7. row = csv[Read[node + k].shape][Read[node + k].at]
  BY <1>3
<1> HIDE DEF row
<1> QED BY <1>3, <1>4, <1>5, <1>6, <1>7 DEF Exact, q, p

LEMMA ReadRecords ==
  ASSUME IInv, ReadOK, CopyRecords
  PROVE  ReadOK'
<1> DEFINE p == FeedPlans[plan]
           n == Len(PlanRows(p))
           records == [k \in 1..n |-> RecordOf(p, k)]
           all == db.records \o records
<1>1. CASE Abort
  BY <1>1, ReadAborts
<1>2. CASE ~Abort
  <2>1. /\ stage = "records" /\ node + n <= Len(persons) /\ ~Conflicts(records)
        /\ db' = [db EXCEPT !.records = all]
        /\ node' = node + n
        /\ nextId' = [nextId EXCEPT ![p.table] = @ + n]
        /\ stage' = "oracle"
        /\ UNCHANGED <<csv, replaced, limit, plan, count, index, persons, licences>>
    BY <1>2 DEF CopyRecords
  <2>2. /\ csv \in Corpora /\ limit \in Limits \cup {None} /\ plan \in 1..7
        /\ nextId \in [Tables -> Nat] /\ db \in Dbs /\ db.records \in Seq(Records)
        /\ Len(persons) \in Nat
    BY LenProperties DEF IInv, TypesOK, DbOK, Dbs
  <2>3. Read' = Read /\ Sizes' = Sizes
    BY <2>1, ReadKept
  <2>4. node = Len(db.records) /\ node \in Nat
    BY <2>1, ReadyToCopy
  <2>5. Sizes[plan] = n /\ n \in Nat /\ p.table \in Tables
    BY <2>2, BeforeFacts, PlanFacts DEF Sizes
  <2>6. records \in Seq(Records) /\ Len(records) = n /\ \A k \in 1..n : records[k] = RecordOf(p, k)
    <3>1. \A k \in 1..n : RecordOf(p, k) \in Records
      <4> SUFFICES ASSUME NEW k \in 1..n PROVE RecordOf(p, k) \in Records
        OBVIOUS
      <4>1. node + k \in 1..Len(persons)
        <5> HIDE DEF n
        <5> QED BY <2>1, <2>2, <2>4, <2>5
      <4> QED BY <2>2, <4>1, RecordFacts
    <3>2. records \in [1..n -> Records]
      BY <3>1
    <3>3. \A k \in 1..n : records[k] = RecordOf(p, k)
      OBVIOUS
    <3> HIDE DEF records, n
    <3> QED BY <2>5, <3>2, <3>3
  <2> HIDE DEF records
  <2>7. /\ db'.records = all
        /\ \A i \in 1..node : all[i] = db.records[i]
        /\ \A k \in 1..n : all[node + k] = records[k]
    <3>1. /\ \A i \in 1..Len(db.records) : all[i] = db.records[i]
          /\ \A k \in 1..Len(records) : all[Len(db.records) + k] = records[k]
      BY <2>2, <2>6, Grown
    <3> HIDE DEF n, all
    <3> QED BY <2>1, <2>2, <2>4, <2>6, <3>1 DEF Dbs
  <2> HIDE DEF all, n, p
  <2>8. ASSUME ~replaced
        PROVE  /\ Identified(csv, Read, Sizes, persons) /\ licences = LicencesOf(csv.drive)
               /\ node' = Before(Sizes, plan + 1) /\ Copied(csv, Read, all, nextId', node')
    <3>1. /\ Identified(csv, Read, Sizes, persons) /\ licences = LicencesOf(csv.drive)
          /\ node = Before(Sizes, plan) /\ Copied(csv, Read, db.records, nextId, node)
      BY <2>1, <2>8 DEF ReadOK, Copying
    <3>2. node' = Before(Sizes, plan + 1)
      BY <2>1, <2>2, <2>5, <3>1, BeforeFacts
    <3>3. /\ \A t \in Tables : nextId[t] = IdBase[t] + Tally(Read, t, node)
          /\ \A i \in 1..node : Exact(csv, Read, db.records[i], i)
      BY <3>1 DEF Copied
    <3>4. ASSUME NEW t \in Tables PROVE nextId'[t] = IdBase[t] + Tally(Read, t, node + n)
      <4>1. n \in 0..Sizes[plan]
        BY <2>5
      <4>2. /\ Tally(Read, t, node) \in Nat
            /\ Tally(Read, t, node + n)
                 = Tally(Read, t, node) + IF p.table = t THEN n ELSE 0
        BY <2>2, <3>1, <4>1, TallyNext DEF p
      <4>3. nextId'[t] = IF p.table = t THEN nextId[t] + n ELSE nextId[t]
        BY <2>1, <2>2
      <4>4. IdBase[t] \in Nat /\ nextId[t] = IdBase[t] + Tally(Read, t, node)
        BY <3>3 DEF IdBase, Tables
      <4> QED BY <2>5, <4>2, <4>3, <4>4
    <3>5. ASSUME NEW i \in 1..(node + n) PROVE Exact(csv, Read, all[i], i)
      <4>1. CASE i \in 1..node
        BY <2>7, <3>3, <4>1
      <4>2. CASE i \notin 1..node
        <5>1. i - node \in 1..n /\ i = node + (i - node)
          BY <2>4, <2>5, <4>2
        <5>2. PICK k \in 1..n : i = node + k
          BY <5>1
        <5>3. all[i] = RecordOf(p, k) /\ k \in 1..Sizes[plan]
          BY <2>5, <2>6, <2>7, <5>2
        <5> QED BY <2>2, <3>1, <3>3, <5>2, <5>3, RecordIsExact DEF p
      <4> QED BY <4>1, <4>2
    <3> QED BY <2>1, <3>1, <3>2, <3>4, <3>5 DEF Copied
  <2>9. ~replaced' =>
          /\ Identified(csv', Read', Sizes', persons') /\ licences' = LicencesOf(csv'.drive)
          /\ node' = Before(Sizes', plan' + 1)
          /\ Copied(csv', Read', db'.records, nextId', node')
    BY <2>1, <2>3, <2>7, <2>8
  <2> QED BY <2>1, <2>9 DEF ReadOK, Copying
<1> QED BY <1>1, <1>2

LEMMA ReadOracle ==
  ASSUME IInv, ReadOK, CopyOracle
  PROVE  ReadOK'
<1>1. CASE Abort
  BY <1>1, ReadAborts
<1>2. CASE ~Abort
  <2>1. /\ stage = "oracle"
        /\ db' = [db EXCEPT !.oracle = @ \cup pending]
        /\ \/ plan < 7 /\ plan' = plan + 1 /\ stage' = "records"
           \/ plan' = plan /\ stage' \in {"people", "diverged"}
        /\ UNCHANGED <<csv, replaced, limit, count, index, persons, licences, node, nextId>>
    BY <1>2, PlanFacts DEF CopyOracle
  <2>2. db'.records = db.records
    BY <2>1 DEF IInv, DbOK, Dbs
  <2>3. Read' = Read /\ Sizes' = Sizes
    BY <2>1, ReadKept
  <2>4. ASSUME ~replaced
        PROVE  /\ Identified(csv, Read, Sizes, persons) /\ licences = LicencesOf(csv.drive)
               /\ node = Before(Sizes, plan + 1) /\ Copied(csv, Read, db.records, nextId, node)
    BY <2>1, <2>4 DEF ReadOK, Copying
  <2>5. ~replaced' =>
          /\ Identified(csv', Read', Sizes', persons') /\ licences' = LicencesOf(csv'.drive)
          /\ node' = (IF stage' = "records" THEN Before(Sizes', plan')
                      ELSE Before(Sizes', plan' + 1))
          /\ Copied(csv', Read', db'.records, nextId', node')
    BY <2>1, <2>2, <2>3, <2>4
  <2> QED BY <2>1, <2>5 DEF ReadOK, Copying
<1> QED BY <1>1, <1>2

LEMMA ReadTables ==
  ASSUME IInv, ReadOK, CopyPeople \/ CopyMasters \/ CopyLinks \/ Analyze \/ UNCHANGED vars
  PROVE  ReadOK'
<1>1. CASE Abort
  BY <1>1, ReadAborts
<1>2. CASE ~Abort
  <2>1. db \in Dbs
    BY DEF IInv, DbOK
  <2>2. /\ UNCHANGED <<csv, replaced, limit, memory>>
        /\ \/ stage' = stage
           \/ stage \in Copying \ {"records"} /\ stage' \in Copying \ {"records"}
    BY <1>2 DEF CopyPeople, CopyMasters, CopyLinks, Analyze, vars, Copying
  <2>3. db'.records = db.records
    BY <1>2, <2>1 DEF CopyPeople, CopyMasters, CopyLinks, Analyze, vars, Dbs
  <2> QED BY <2>2, <2>3, ReadStands
<1> QED BY <1>1, <1>2

LEMMA InitRead == Init => ReadOK
BY DEF Init, ReadOK, Copying

LEMMA NextRead == IInv /\ ReadOK /\ [Next]_vars => ReadOK'
<1> SUFFICES ASSUME IInv, ReadOK, [Next]_vars PROVE ReadOK'
  OBVIOUS
<1>1. ASSUME NEW l \in Limits, Start(l) PROVE ReadOK'
  BY <1>1, ReadBegins DEF Start
<1>2. CASE IdentifyRow
  BY <1>2, ReadIdentify
<1>3. CASE EndPlan
  BY <1>3, ReadEndPlan
<1>4. CASE LoadLicences
  BY <1>4, ReadLicences
<1>5. CASE CopyRecords
  BY <1>5, ReadRecords
<1>6. CASE CopyOracle
  BY <1>6, ReadOracle
<1>7. CASE Diverge \/ Crash
  BY <1>7, ReadAborts DEF Diverge, Crash
<1>8. CASE CopyPeople \/ CopyMasters \/ CopyLinks \/ Analyze \/ UNCHANGED vars
  BY <1>8, ReadTables
<1>9. CASE Checkout
  BY <1>9, ReadCheckout
<1>10. CASE Rebuild
  BY <1>10, ReadBegins DEF Rebuild, IInv, TypesOK
<1> QED BY <1>1, <1>2, <1>3, <1>4, <1>5, <1>6, <1>7, <1>8, <1>9, <1>10 DEF Next

LEMMA Reading == Spec => [](IInv /\ ReadOK)
BY InitInv, NextInv, InitRead, NextRead, PTL DEF Spec

LEMMA ClustersFollow ==
  ASSUME IInv, ReadOK
  PROVE  PersonsAreClusters
<1> SUFFICES ASSUME persons # <<>>, ~replaced
             PROVE  LET fields == [n \in DOMAIN Read |->
                          IdentityFields(Read[n].shape, csv[Read[n].shape][Read[n].at])]
                    IN  /\ Len(persons) = Len(fields) /\ AreClusters(fields, persons)
                        /\ \A n \in DOMAIN persons :
                             persons[n] <= Cardinality({persons[m] : m \in 1..(n - 1)})
  BY DEF PersonsAreClusters
<1>1. csv \in Corpora /\ limit \in Limits \cup {None} /\ stage \in Stages
  BY DEF IInv, TypesOK
<1>2. stage \in Copying \cup {"licences"}
  BY <1>1 DEF ReadOK, Copying, Stages, Stopped
<1>3. Identified(csv, Read, Sizes, persons)
  BY <1>2 DEF ReadOK
<1>4. DOMAIN Read = 1..Before(Sizes, 8) /\ Before(Sizes, 8) \in Nat
  BY <1>1, ReadAt, LenProperties
<1> DEFINE fields == [n \in DOMAIN Read |->
                        IdentityFields(Read[n].shape, csv[Read[n].shape][Read[n].at])]
<1>5. fields = FirstFields(csv, Read, Before(Sizes, 8))
  BY <1>4 DEF FirstFields, FieldsAt
<1>6. Len(fields) = Before(Sizes, 8)
  BY <1>4
<1> HIDE DEF fields
<1>7. Len(persons) = Len(fields) /\ AreClusters(fields, persons) /\ Dense(persons)
  BY <1>3, <1>5, <1>6 DEF Identified
<1> QED BY <1>7 DEF Dense, fields

(* If there is no limit, some plan reads each row of each file.            *)
LEMMA EveryRowIsRead ==
  ASSUME csv \in Corpora, limit = None, NEW s \in Shapes, NEW x \in DOMAIN csv[s]
  PROVE  \E n \in 1..Len(Read) : Read[n].shape = s /\ Read[n].at = x
<1>1. \E i \in 1..7 : FeedPlans[i].shape = s /\ x \in Owned(FeedPlans[i])
  <2>1. PICK i \in 1..7 : FeedPlans[i].shape = s
    BY PlanFacts
  <2>2. CASE s # "base"
    BY <2>1, <2>2 DEF Owned
  <2>3. CASE s = "base"
    <3>1. /\ FeedPlans[3].shape = "base" /\ FeedPlans[3].table = "legacy"
          /\ FeedPlans[4].shape = "base" /\ FeedPlans[4].table = "new"
      BY DEF FeedPlans, Plan
    <3>2. x \in Owned(FeedPlans[3]) \/ x \in Owned(FeedPlans[4])
      <4> DEFINE split == (x - 1) % Modulus # 0
      <4>1. split => x \in Owned(FeedPlans[3])
        BY <2>3, <3>1 DEF Owned
      <4>2. ~split => x \in Owned(FeedPlans[4])
        BY <2>3, <3>1 DEF Owned
      <4> HIDE DEF split
      <4> QED BY <4>1, <4>2
    <3>3. 3 \in 1..7 /\ 4 \in 1..7
      OBVIOUS
    <3> QED BY <2>3, <3>1, <3>2, <3>3
  <2> QED BY <2>2, <2>3
<1>2. PICK i \in 1..7 : FeedPlans[i].shape = s /\ x \in Owned(FeedPlans[i])
  BY <1>1
<1>3. PICK k \in 1..Len(PlanRows(FeedPlans[i])) : PlanRows(FeedPlans[i])[k] = x
  BY <1>2, PlanRowsFacts
<1>4. k \in 1..Sizes[i]
  BY DEF Sizes
<1>5. Before(Sizes, i) + k \in 1..Len(Read) /\ Read[Before(Sizes, i) + k] = Place(i, k)
  BY <1>4, ReadAt
<1>6. Place(i, k).shape = s /\ Place(i, k).at = x
  BY <1>2, <1>3 DEF Place
<1> QED BY <1>5, <1>6

LEMMA ExactFollows ==
  ASSUME IInv, ReadOK
  PROVE  LoadExact
<1> DEFINE drives(row) == {d \in DOMAIN csv.drive : JoinKey(csv.drive[d]) = JoinKey(row)}
           ident(n) == IdBase[Read[n].table]
                         + Cardinality({m \in 1..(n-1) : Read[m].table = Read[n].table})
           recs == db.records
           exact(n) ==
             LET r   == Read[n]
                 row == csv[r.shape][r.at]
             IN  /\ [person |-> persons[n], table |-> r.table, id |-> ident(n),
                     shape |-> r.shape] \in db.oracle
                 /\ \E q \in ToSet(recs) :
                      /\ q.table = r.table /\ q.id = ident(n)
                      /\ q.shape = r.shape /\ q.at = r.at
                      /\ q.licence = IF r.shape = "loan" /\ drives(row) # {}
                                     THEN csv.drive[Min(drives(row))].licence ELSE None
<1> SUFFICES ASSUME stage = "done", ~replaced
             PROVE  /\ Len(recs) = Len(Read)
                    /\ limit = None =>
                         \A s \in Shapes : \A i \in DOMAIN csv[s] :
                           \E r \in ToSet(recs) : r.shape = s /\ r.at = i
                    /\ \A n \in DOMAIN Read : exact(n)
  BY DEF LoadExact
<1>1. csv \in Corpora /\ limit \in Limits \cup {None} /\ plan \in 1..7 /\ ~Fresh
  BY DEF IInv, TypesOK, Fresh
<1>2. /\ Identified(csv, Read, Sizes, persons)
      /\ Copied(csv, Read, recs, nextId, node)
  BY DEF ReadOK, Copying
<1>3. node = Len(persons)
  BY <1>1 DEF IInv, EntityOK
<1>4. PICK m \in 0..node :
        /\ node = Len(recs) /\ node \in Nat /\ Attributed(recs, db.oracle, persons, m)
        /\ m = node
  BY <1>1, CopiedFacts DEF IInv
<1>5. node = Len(Read) /\ DOMAIN Read = 1..node
  BY <1>1, <1>2, <1>3, ReadAt DEF Identified
<1>6. DOMAIN recs = 1..node
  BY <1>4 DEF Attributed
<1>7. \A n \in 1..node : Exact(csv, Read, recs[n], n) /\ recs[n] \in ToSet(recs)
  BY <1>2, <1>6 DEF Copied, ToSet
<1>8. ASSUME limit = None, NEW s \in Shapes, NEW i \in DOMAIN csv[s]
      PROVE  \E r \in ToSet(recs) : r.shape = s /\ r.at = i
  <2>1. PICK n \in 1..node : Read[n].shape = s /\ Read[n].at = i
    BY <1>1, <1>5, <1>8, EveryRowIsRead
  <2>2. recs[n].shape = s /\ recs[n].at = i
    BY <1>7, <2>1 DEF Exact
  <2> QED BY <1>7, <2>2
<1>9. ASSUME NEW n \in 1..node PROVE exact(n)
  <2> DEFINE row == csv[Read[n].shape][Read[n].at]
             q == recs[n]
  <2>1. /\ q.table = Read[n].table /\ q.shape = Read[n].shape /\ q.at = Read[n].at
        /\ q.id = ident(n) /\ q.licence = LicenceOf(csv.drive, Read[n].shape, row)
    BY <1>7 DEF Exact, Tally
  <2>2. LicenceOf(csv.drive, Read[n].shape, row)
          = IF Read[n].shape = "loan" /\ drives(row) # {}
            THEN csv.drive[Min(drives(row))].licence ELSE None
    BY DEF LicenceOf, Matching
  <2>3. Owner(q, persons[n]) \in db.oracle
    BY <1>4 DEF Attributed
  <2>4. Owner(q, persons[n]) = [person |-> persons[n], table |-> Read[n].table,
                                id |-> ident(n), shape |-> Read[n].shape]
    BY <2>1 DEF Owner
  <2>5. q \in ToSet(recs)
    BY <1>7
  <2> HIDE DEF q, ident, drives
  <2> QED BY <2>1, <2>2, <2>3, <2>4, <2>5
<1> QED BY <1>4, <1>5, <1>8, <1>9

(* person_ids gives two rows of a load one id exactly if a chain of shared *)
(* blocking keys joins them, and the ids are dense, in the order of the    *)
(* rows: whatever the files hold, the union-find finds the true clusters.  *)
THEOREM ClustersAreExact == Spec => []PersonsAreClusters
<1>1. IInv /\ ReadOK => PersonsAreClusters
  BY ClustersFollow
<1> QED BY <1>1, Reading, PTL

(* A load that ends well, its files untouched, has a record for each row   *)
(* that _plan_rows yields, and for it the person that the first pass gave  *)
(* the row: the second pass counts its way to the same nodes.              *)
THEOREM LoadsAreExact == Spec => []LoadExact
<1>1. IInv /\ ReadOK => LoadExact
  BY ExactFollows
<1> QED BY <1>1, Reading, PTL
=============================================================================
