------------------------- MODULE IdentityGraphProofs -------------------------
(***************************************************************************)
(* IdentityGraph for every graph, name, limit and cap: the pages an engine *)
(* reads of a person fit together, a page is whole or flagged, and a name  *)
(* search is complete and the same for every spelling of its name. They    *)
(* rest on the order of the rows being determined by the graph alone,      *)
(* whatever order the queries return them in.                              *)
(***************************************************************************)
EXTENDS IdentityGraph, SortedSequences

LEMMA GraphFacts ==
  ASSUME NEW g \in Graphs
  PROVE  /\ IsFiniteSet(g.rows) /\ IsFiniteSet(g.links)
         /\ IsFiniteSet(g.people) /\ IsFiniteSet(g.keys)
         /\ g.rows \subseteq Rows /\ g.links \subseteq Links
         /\ g.people \subseteq Entities /\ g.keys \subseteq NameKeys
         /\ \A r, q \in g.rows : r.family = q.family /\ r.id = q.id => r = q
         /\ \A e, f \in g.people : e.hal = f.hal => e = f
BY GraphAssumption

------------------------------------------------------------------------------
(* The links of a person come in one order, of which the first MaxLinks    *)
(* are a fixed set.                                                        *)

HalLinks(g, h) == {l \in g.links : l.hal = h}

LinkOrder == {p \in Links \X Links : LinkBefore(p[1], p[2])}

SortedLinks(g, h) ==
  {q \in SetToSeqs(HalLinks(g, h)) :
     \A i, j \in DOMAIN q : i < j => LinkBefore(q[i], q[j])}

TopLinks(q) == SubSeq(q, 1, Min({MaxLinks, Len(q)}))

LEMMA LinkOrderAsymmetric == Asymmetric(LinkOrder)
<1> SUFFICES ASSUME NEW x \in Links, NEW y \in Links,
                    LinkBefore(x, y), LinkBefore(y, x)
             PROVE  FALSE
  BY DEF Asymmetric, LinkOrder
<1>1. /\ x.confidence \in Nat /\ x.source \in Nat /\ x.id \in Nat
      /\ y.confidence \in Nat /\ y.source \in Nat /\ y.id \in Nat
  BY DEF Links
<1> QED BY <1>1 DEF LinkBefore

LEMMA SortedLinksAscend ==
  ASSUME NEW g \in Graphs, NEW h, NEW q \in SortedLinks(g, h)
  PROVE  /\ q \in Seq(g.links) /\ q \in Seq(Links) /\ Ascends(q, LinkOrder)
         /\ ToSet(q) = HalLinks(g, h) /\ DOMAIN q = 1..Len(q)
<1>1. IsFiniteSet(HalLinks(g, h)) /\ HalLinks(g, h) \subseteq g.links
        /\ g.links \subseteq Links
  BY GraphFacts, FS_Subset DEF HalLinks
<1>2. q \in SetToSeqs(HalLinks(g, h))
        /\ \A i, j \in DOMAIN q : i < j => LinkBefore(q[i], q[j])
  BY DEF SortedLinks
<1>3. q \in Seq(HalLinks(g, h)) /\ ToSet(q) = HalLinks(g, h) /\ DOMAIN q = 1..Len(q)
  BY <1>1, <1>2, Listing
<1>4. q \in Seq(g.links) /\ q \in Seq(Links)
  BY <1>1, <1>3, SeqMonotonic
<1>5. \A i \in 1..Len(q) : q[i] \in Links
  BY <1>4, ElementOfSeq
<1> QED BY <1>2, <1>3, <1>4, <1>5 DEF Ascends, LinkOrder

LEMMA LinksUnique ==
  ASSUME NEW g \in Graphs, NEW h, NEW q \in SortedLinks(g, h),
         NEW p \in SortedLinks(g, h)
  PROVE  q = p
BY SortedLinksAscend, LinkOrderAsymmetric, AscendingUnique

LEMMA TopLinksSeq ==
  ASSUME NEW S, NEW q \in Seq(S)
  PROVE  /\ TopLinks(q) \in Seq(S)
         /\ Len(TopLinks(q)) = Min({MaxLinks, Len(q)})
         /\ Len(TopLinks(q)) \in Nat /\ Len(TopLinks(q)) <= Len(q)
         /\ \A i \in 1..Len(TopLinks(q)) : TopLinks(q)[i] = q[i]
         /\ \A i \in 1..Len(q) : i <= Len(TopLinks(q)) <=> i <= MaxLinks
         /\ q # <<>> => TopLinks(q) # <<>>
<1> DEFINE n == Min({MaxLinks, Len(q)})
<1>1. MaxLinks \in Nat \ {0} /\ Len(q) \in Nat
  BY GraphAssumption
<1>2. n = IF MaxLinks <= Len(q) THEN MaxLinks ELSE Len(q)
  BY <1>1, MinOfTwo
<1> HIDE DEF n
<1>3. n \in 0..Len(q) /\ (q # <<>> => n > 0)
  BY <1>1, <1>2
<1>4. TopLinks(q) = SubSeq(q, 1, n)
  BY DEF TopLinks, n
<1>5. /\ SubSeq(q, 1, n) \in Seq(S) /\ Len(SubSeq(q, 1, n)) = n
      /\ \A i \in 1..n : SubSeq(q, 1, n)[i] = q[i]
  BY <1>3
<1>6. /\ TopLinks(q) \in Seq(S) /\ Len(TopLinks(q)) = n
      /\ \A i \in 1..n : TopLinks(q)[i] = q[i]
  BY <1>4, <1>5
<1>7. \A i \in 1..Len(q) : i <= n <=> i <= MaxLinks
  BY <1>1, <1>2
<1>8. q # <<>> => TopLinks(q) # <<>>
  BY <1>3, <1>6
<1>9. Len(TopLinks(q)) = Min({MaxLinks, Len(q)})
  BY <1>6 DEF n
<1>10. Len(TopLinks(q)) \in Nat /\ Len(TopLinks(q)) <= Len(q)
  BY <1>3, <1>6
<1>11. Len(TopLinks(q)) = n
  BY <1>6
<1>12. \A i \in 1..Len(TopLinks(q)) : TopLinks(q)[i] = q[i]
  BY <1>6, <1>11
<1>13. \A i \in 1..Len(q) : i <= Len(TopLinks(q)) <=> i <= MaxLinks
  BY <1>7, <1>11
<1> QED BY <1>6, <1>8, <1>9, <1>10, <1>12, <1>13

(* The first links, as a set: those of a rank up to MaxLinks.              *)
LEMMA TopLinksRanked ==
  ASSUME NEW g \in Graphs, NEW h, NEW q \in SortedLinks(g, h)
  PROVE  ToSet(TopLinks(q)) =
           {l \in HalLinks(g, h) :
              Cardinality({m \in HalLinks(g, h) : m = l \/ LinkBefore(m, l)}) <= MaxLinks}
<1> DEFINE rank(l) == Cardinality({m \in HalLinks(g, h) : m = l \/ LinkBefore(m, l)})
           Q == TopLinks(q)
<1>1. /\ q \in Seq(Links) /\ Ascends(q, LinkOrder) /\ ToSet(q) = HalLinks(g, h)
      /\ q \in Seq(g.links)
  BY SortedLinksAscend
<1>2. ASSUME NEW i \in 1..Len(q) PROVE rank(q[i]) = i /\ q[i] \in HalLinks(g, h)
  <2>1. Cardinality({m \in ToSet(q) : m = q[i] \/ <<m, q[i]>> \in LinkOrder}) = i
    BY <1>1, LinkOrderAsymmetric, AscendingRank
  <2>2. q[i] \in ToSet(q) /\ ToSet(q) \subseteq Links
    BY <1>1, InToSet
  <2>3. {m \in ToSet(q) : m = q[i] \/ <<m, q[i]>> \in LinkOrder}
          = {m \in HalLinks(g, h) : m = q[i] \/ LinkBefore(m, q[i])}
    BY <1>1, <2>2 DEF LinkOrder
  <2> QED BY <1>1, <2>1, <2>2, <2>3
<1>3. /\ Q \in Seq(Links) /\ Len(Q) \in Nat /\ Len(Q) <= Len(q)
      /\ \A i \in 1..Len(Q) : Q[i] = q[i]
      /\ \A i \in 1..Len(q) : i <= Len(Q) <=> i <= MaxLinks
  BY <1>1, TopLinksSeq
<1> HIDE DEF Q, rank
<1>4. ASSUME NEW l \in ToSet(Q) PROVE l \in HalLinks(g, h) /\ rank(l) <= MaxLinks
  <2>1. PICK i \in 1..Len(Q) : Q[i] = l
    BY <1>3, InToSet
  <2>2. i \in 1..Len(q) /\ l = q[i] /\ i <= MaxLinks
    BY <1>3, <2>1
  <2> QED BY <1>2, <2>2
<1>5. ASSUME NEW l \in HalLinks(g, h), rank(l) <= MaxLinks PROVE l \in ToSet(Q)
  <2>1. PICK i \in 1..Len(q) : q[i] = l
    BY <1>1, InToSet
  <2>2. i \in 1..Len(Q) /\ Q[i] = l
    BY <1>2, <1>3, <1>5, <2>1
  <2> QED BY <1>3, <2>2, InToSet
<1> QED BY <1>4, <1>5 DEF Q, rank
------------------------------------------------------------------------------
(* The tables that a person's links name come in one order.                *)

Gives(e, r) == r.family = Family[e.source] /\ r.id \in e.ids

(* The queries of rows_for_links, for the links of h.                      *)
Plans(g, h) ==
  UNION {ByTable(TopLinks(q)) :
           q \in {p \in SortedLinks(g, h) : \A l \in ToSet(TopLinks(p)) : l.source # 4}}

FirstLink(links, t) == Min({i \in DOMAIN links : links[i].source = t})

Sources(links) == {l.source : l \in ToSet(links)}

IdsOf(links, t) == {l.id : l \in {m \in ToSet(links) : m.source = t}}

SourceOrders(links) ==
  {order \in SetToSeqs(Sources(links)) :
     \A k, m \in DOMAIN order : k < m =>
       FirstLink(links, order[k]) < FirstLink(links, order[m])}

SourceOrder(links) ==
  {p \in Sources(links) \X Sources(links) :
     FirstLink(links, p[1]) < FirstLink(links, p[2])}

LEMMA ByTableIs ==
  ASSUME NEW links
  PROVE  ByTable(links) =
           {[k \in DOMAIN order |-> [source |-> order[k], ids |-> IdsOf(links, order[k])]] :
              order \in SourceOrders(links)}
BY DEF ByTable, SourceOrders, FirstLink, Sources, IdsOf

LEMMA SourceOrdersAscend ==
  ASSUME NEW links \in Seq(Links), NEW o \in SourceOrders(links)
  PROVE  /\ o \in Seq(Sources(links)) /\ ToSet(o) = Sources(links)
         /\ DOMAIN o = 1..Len(o)
         /\ Asymmetric(SourceOrder(links)) /\ Ascends(o, SourceOrder(links))
<1>1. Sources(links) \subseteq 1..4
  <2> SUFFICES ASSUME NEW l \in ToSet(links) PROVE l.source \in 1..4
    BY DEF Sources
  <2>1. l \in Links
    BY InToSet
  <2> QED BY <2>1 DEF Links
<1>2. IsFiniteSet(Sources(links))
  <2>1. 1 \in Int /\ 4 \in Int
    OBVIOUS
  <2>2. IsFiniteSet(1..4)
    BY <2>1, FS_Interval, Zenon
  <2> QED BY <1>1, <2>2, FS_Subset
<1>3. o \in Seq(Sources(links)) /\ ToSet(o) = Sources(links) /\ DOMAIN o = 1..Len(o)
  BY <1>2, Listing DEF SourceOrders
<1>4. \A k \in 1..Len(o) : o[k] \in Sources(links)
  BY <1>3
<1>5. Ascends(o, SourceOrder(links))
  BY <1>3, <1>4 DEF SourceOrders, Ascends, SourceOrder
<1>6. \A t \in Sources(links) : FirstLink(links, t) \in Nat
  <2> TAKE t \in Sources(links)
  <2> DEFINE at == {i \in DOMAIN links : links[i].source = t}
  <2>1. at \subseteq Nat /\ at # {}
    BY DEF Sources, ToSet
  <2> HIDE DEF at
  <2>2. Min(at) \in at
    BY <2>1, LeastIsMin
  <2> QED BY <2>1, <2>2 DEF FirstLink, at
<1>7. Asymmetric(SourceOrder(links))
  BY <1>6 DEF Asymmetric, SourceOrder
<1> QED BY <1>3, <1>5, <1>7

LEMMA PlansUnique ==
  ASSUME NEW g \in Graphs, NEW h, NEW T \in Plans(g, h), NEW U \in Plans(g, h)
  PROVE  T = U
<1>1. PICK q \in SortedLinks(g, h) : T \in ByTable(TopLinks(q))
  BY DEF Plans
<1>2. U \in ByTable(TopLinks(q))
  BY LinksUnique DEF Plans
<1> DEFINE L == TopLinks(q)
<1>3. L \in Seq(Links)
  BY SortedLinksAscend, TopLinksSeq
<1> HIDE DEF L
<1>4. \A o, p \in SourceOrders(L) : o = p
  BY <1>3, SourceOrdersAscend, AscendingUnique
<1> QED BY <1>1, <1>2, <1>4, ByTableIs DEF L

(* A plan is a sequence of queries, which together ask for what the first  *)
(* links name.                                                             *)
LEMMA PlanGives ==
  ASSUME NEW links \in Seq(Links), NEW T \in ByTable(links)
  PROVE  /\ T \in Seq([source : 1..4, ids : SUBSET Nat])
         /\ links # <<>> => T # <<>>
         /\ links = <<>> => T = <<>>
         /\ \A r : (\E k \in 1..Len(T) : Gives(T[k], r)) <=>
                  (\E l \in ToSet(links) : r.family = Family[l.source] /\ r.id = l.id)
<1>1. PICK o \in SourceOrders(links) :
        T = [k \in DOMAIN o |-> [source |-> o[k], ids |-> IdsOf(links, o[k])]]
  BY ByTableIs
<1>2. o \in Seq(Sources(links)) /\ ToSet(o) = Sources(links) /\ DOMAIN o = 1..Len(o)
  BY SourceOrdersAscend
<1>3. \A l \in ToSet(links) : l \in Links /\ l.source \in 1..4 /\ l.id \in Nat
  <2>1. ToSet(links) \subseteq Links
    BY InToSet
  <2> QED BY <2>1 DEF Links
<1>4. \A k \in 1..Len(o) : o[k] \in 1..4 /\ IdsOf(links, o[k]) \subseteq Nat
  BY <1>2, <1>3 DEF Sources, IdsOf
<1>5. Len(T) = Len(o) /\ Len(o) \in Nat /\ T \in Seq([source : 1..4, ids : SUBSET Nat])
  BY <1>1, <1>2, <1>4
<1>6. links # <<>> => T # <<>>
  <2> SUFFICES ASSUME links # <<>> PROVE Len(o) # 0
    BY <1>5
  <2>1. links[1] \in ToSet(links)
    BY InToSet
  <2>2. links[1].source \in ToSet(o)
    BY <1>2, <2>1 DEF Sources
  <2> QED BY <1>2, <2>2, InToSet
<1>7. links = <<>> => T = <<>>
  <2> SUFFICES ASSUME links = <<>> PROVE Len(o) = 0
    BY <1>5
  <2>1. ToSet(links) = {}
    BY DEF ToSet
  <2>2. ToSet(o) = {}
    BY <1>2, <2>1 DEF Sources
  <2> QED BY <1>2, <2>2, InToSet
<1>8. ASSUME NEW r, NEW k \in 1..Len(T), Gives(T[k], r)
      PROVE  \E l \in ToSet(links) : r.family = Family[l.source] /\ r.id = l.id
  <2>1. r.family = Family[o[k]] /\ r.id \in IdsOf(links, o[k])
    BY <1>1, <1>2, <1>5, <1>8 DEF Gives
  <2> QED BY <2>1 DEF IdsOf
<1>9. ASSUME NEW r, NEW l \in ToSet(links), r.family = Family[l.source], r.id = l.id
      PROVE  \E k \in 1..Len(T) : Gives(T[k], r)
  <2>1. l.source \in ToSet(o)
    BY <1>2 DEF Sources
  <2>2. PICK k \in 1..Len(o) : o[k] = l.source
    BY <1>2, <2>1, InToSet
  <2>3. r.id \in IdsOf(links, o[k])
    BY <1>9, <2>2 DEF IdsOf
  <2> QED BY <1>1, <1>2, <1>5, <1>9, <2>2, <2>3 DEF Gives
<1> QED BY <1>5, <1>6, <1>7, <1>8, <1>9
------------------------------------------------------------------------------
(* The rows of a person, by record_id and, of one id, in the order of the  *)
(* queries that first gave them.                                           *)

Upto(g, T, n) == {r \in g.rows : \E k \in 1..n : Gives(T[k], r)}

Sooner(T, r, q) ==
  \E k \in 1..Len(T) : Gives(T[k], r) /\ \A m \in 1..k : ~Gives(T[m], q)

RowOrder(g, T) ==
  {p \in g.rows \X g.rows :
     \/ p[1].id < p[2].id
     \/ p[1].id = p[2].id /\ Sooner(T, p[1], p[2])}

(* What a walk reads of shape s of the person h.                           *)
Listings(g, h, s) ==
  {all \in Seq(g.rows) : \E T \in Plans(g, h) :
     /\ ToSet(all) = {r \in Upto(g, T, Len(T)) : Serves(s, r)}
     /\ Ascends(all, RowOrder(g, T))}

LEMMA PlanSeq ==
  ASSUME NEW g \in Graphs, NEW h, NEW T \in Plans(g, h)
  PROVE  T \in Seq([source : 1..4, ids : SUBSET Nat])
<1>1. PICK q \in SortedLinks(g, h) : T \in ByTable(TopLinks(q))
  BY DEF Plans
<1>2. TopLinks(q) \in Seq(Links)
  BY SortedLinksAscend, TopLinksSeq
<1> QED BY <1>1, <1>2, PlanGives

LEMMA RowOrderAsymmetric ==
  ASSUME NEW g \in Graphs, NEW h, NEW T \in Plans(g, h)
  PROVE  Asymmetric(RowOrder(g, T))
<1> SUFFICES ASSUME NEW r \in g.rows, NEW q \in g.rows,
                    <<r, q>> \in RowOrder(g, T), <<q, r>> \in RowOrder(g, T)
             PROVE  FALSE
  BY DEF Asymmetric, RowOrder
<1>1. r \in Rows /\ q \in Rows
  BY GraphFacts
<1>2. r.id \in Nat /\ q.id \in Nat
  BY <1>1 DEF Rows
<1>3. Sooner(T, r, q) /\ Sooner(T, q, r)
  BY <1>2 DEF RowOrder
<1>4. PICK k \in 1..Len(T) : Gives(T[k], r) /\ \A m \in 1..k : ~Gives(T[m], q)
  BY <1>3 DEF Sooner
<1>5. PICK i \in 1..Len(T) : Gives(T[i], q) /\ \A m \in 1..i : ~Gives(T[m], r)
  BY <1>3 DEF Sooner
<1>6. Len(T) \in Nat
  BY PlanSeq
<1>7. i \notin 1..k /\ k \notin 1..i
  BY <1>4, <1>5
<1> QED BY <1>6, <1>7

LEMMA ListingsUnique ==
  ASSUME NEW g \in Graphs, NEW h, NEW s, NEW all \in Listings(g, h, s),
         NEW other \in Listings(g, h, s)
  PROVE  all = other
<1>1. PICK T \in Plans(g, h) :
        /\ ToSet(all) = {r \in Upto(g, T, Len(T)) : Serves(s, r)}
        /\ Ascends(all, RowOrder(g, T))
  BY DEF Listings
<1>2. /\ ToSet(other) = {r \in Upto(g, T, Len(T)) : Serves(s, r)}
      /\ Ascends(other, RowOrder(g, T))
  BY PlansUnique DEF Listings
<1>3. all \in Seq(g.rows) /\ other \in Seq(g.rows)
  BY DEF Listings
<1> QED BY <1>1, <1>2, <1>3, RowOrderAsymmetric, AscendingUnique

(* What rows_for_links has after n queries of a plan: of two rows, the one *)
(* that is later in it was not given earlier.                              *)
NoLater(T, r, q) ==
  \E k \in 1..Len(T) : Gives(T[k], r) /\ \A m \in 1..(k - 1) : ~Gives(T[m], q)

Gathered(g, T, n, rows) ==
  /\ rows \in Seq(g.rows)
  /\ \A i, j \in 1..Len(rows) : rows[i] = rows[j] => i = j
  /\ ToSet(rows) = Upto(g, T, n)
  /\ \A i, j \in 1..Len(rows) : i < j => NoLater(T, rows[i], rows[j])

LEMMA GatherNext ==
  ASSUME NEW g \in Graphs, NEW h, NEW T \in Plans(g, h),
         NEW n \in Nat, n < Len(T), NEW rows, Gathered(g, T, n, rows),
         NEW more \in SetToSeqs({r \in g.rows : Gives(T[n + 1], r)} \ ToSet(rows))
  PROVE  Gathered(g, T, n + 1, rows \o more)
<1> DEFINE new == {r \in g.rows : Gives(T[n + 1], r)} \ ToSet(rows)
           all == rows \o more
<1>1. Len(T) \in Nat /\ n + 1 \in 1..Len(T)
  BY PlanSeq
<1>2. IsFiniteSet(new)
  BY GraphFacts, FS_Subset
<1> HIDE DEF new
<1>3. /\ more \in Seq(new) /\ ToSet(more) = new
      /\ \A i, j \in 1..Len(more) : more[i] = more[j] => i = j
  BY <1>2, Listing DEF new
<1>4. /\ rows \in Seq(g.rows) /\ ToSet(rows) = Upto(g, T, n)
      /\ \A i, j \in 1..Len(rows) : rows[i] = rows[j] => i = j
      /\ \A i, j \in 1..Len(rows) : i < j => NoLater(T, rows[i], rows[j])
  BY DEF Gathered
<1>5. more \in Seq(g.rows)
  BY <1>3, SeqMonotonic DEF new
<1>6. /\ all \in Seq(g.rows) /\ Len(all) = Len(rows) + Len(more)
      /\ Len(rows) \in Nat /\ Len(more) \in Nat
      /\ \A i \in 1..Len(rows) : all[i] = rows[i]
      /\ \A i \in 1..Len(more) : all[Len(rows) + i] = more[i]
  BY <1>4, <1>5
<1> HIDE DEF all
<1>7. \A i \in 1..Len(all) :
        \/ i \in 1..Len(rows) /\ all[i] = rows[i] /\ all[i] \in ToSet(rows)
        \/ /\ i - Len(rows) \in 1..Len(more) /\ all[i] = more[i - Len(rows)]
           /\ all[i] \in new
  <2> TAKE i \in 1..Len(all)
  <2>1. CASE i <= Len(rows)
    BY <1>4, <1>6, <2>1, InToSet
  <2>2. CASE i > Len(rows)
    <3> DEFINE k == i - Len(rows)
    <3>1. k \in 1..Len(more) /\ i = Len(rows) + k
      BY <1>6, <2>2
    <3>2. all[i] = more[k] /\ more[k] \in new
      BY <1>3, <1>6, <3>1
    <3> QED BY <3>1, <3>2
  <2> QED BY <1>6, <2>1, <2>2
<1>8. new \cap ToSet(rows) = {}
  BY DEF new
<1>9. \A i, j \in 1..Len(all) : all[i] = all[j] => i = j
  <2> SUFFICES ASSUME NEW i \in 1..Len(all), NEW j \in 1..Len(all), all[i] = all[j]
               PROVE  i = j
    OBVIOUS
  <2>1. CASE i \in 1..Len(rows) /\ j \in 1..Len(rows)
    BY <1>4, <1>6, <2>1
  <2>2. CASE i - Len(rows) \in 1..Len(more) /\ j - Len(rows) \in 1..Len(more)
    <3>1. all[i] = more[i - Len(rows)] /\ all[j] = more[j - Len(rows)]
      BY <1>6, <1>7, <2>2
    <3>2. i - Len(rows) = j - Len(rows)
      BY <1>3, <2>2, <3>1
    <3> QED BY <1>6, <3>2
  <2> QED BY <1>7, <1>8, <2>1, <2>2
<1>10. ToSet(all) = Upto(g, T, n + 1)
  <2>1. Upto(g, T, n + 1) = ToSet(rows) \cup new
    <3>1. \A k : k \in 1..(n + 1) <=> k \in 1..n \/ k = n + 1
      OBVIOUS
    <3> QED BY <1>4, <3>1 DEF Upto, new
  <2>2. ToSet(all) \subseteq ToSet(rows) \cup new
    BY <1>6, <1>7, InToSet
  <2>3. ToSet(rows) \subseteq ToSet(all)
    <3> SUFFICES ASSUME NEW r \in ToSet(rows) PROVE r \in ToSet(all)
      OBVIOUS
    <3>1. PICK i \in 1..Len(rows) : rows[i] = r
      BY <1>4, InToSet
    <3>2. i \in 1..Len(all) /\ all[i] = r
      BY <1>6, <3>1
    <3> QED BY <1>6, <3>2, InToSet
  <2>4. new \subseteq ToSet(all)
    <3> SUFFICES ASSUME NEW r \in new PROVE r \in ToSet(all)
      OBVIOUS
    <3>1. PICK i \in 1..Len(more) : more[i] = r
      BY <1>3, InToSet
    <3>2. Len(rows) + i \in 1..Len(all) /\ all[Len(rows) + i] = r
      BY <1>6, <3>1
    <3> QED BY <1>6, <3>2, InToSet
  <2> QED BY <2>1, <2>2, <2>3, <2>4
<1>11. \A i, j \in 1..Len(all) : i < j => NoLater(T, all[i], all[j])
  <2> SUFFICES ASSUME NEW i \in 1..Len(all), NEW j \in 1..Len(all), i < j
               PROVE  NoLater(T, all[i], all[j])
    OBVIOUS
  <2>1. CASE j \in 1..Len(rows)
    <3>1. i \in 1..Len(rows)
      BY <1>6, <2>1
    <3> QED BY <1>4, <1>6, <2>1, <3>1
  <2>2. CASE j \notin 1..Len(rows)
    <3>1. all[j] \in new
      BY <1>7, <2>2
    <3>2. \A m \in 1..n : ~Gives(T[m], all[j])
      BY <1>4, <3>1 DEF new, Upto
    <3>3. PICK k \in 1..(n + 1) : Gives(T[k], all[i])
      <4>1. CASE all[i] \in new
        BY <4>1 DEF new
      <4>2. CASE all[i] \in ToSet(rows)
        BY <1>4, <4>2 DEF Upto
      <4> QED BY <1>7, <4>1, <4>2
    <3>4. k \in 1..Len(T) /\ \A m \in 1..(k - 1) : m \in 1..n
      BY <1>1
    <3> QED BY <3>2, <3>3, <3>4 DEF NoLater
  <2> QED BY <2>1, <2>2
<1> QED BY <1>6, <1>9, <1>10, <1>11 DEF Gathered, all

(* Sorted and filtered, they are the listing.                              *)
LEMMA SortedIsListing ==
  ASSUME NEW g \in Graphs, NEW h, NEW s, NEW T \in Plans(g, h), NEW rows,
         Gathered(g, T, Len(T), rows),
         NEW order \in SetToSeqs({i \in DOMAIN rows : Serves(s, rows[i])}),
         \A k, m \in DOMAIN order : k < m => ById(rows, order[k], order[m])
  PROVE  [k \in DOMAIN order |-> rows[order[k]]] \in Listings(g, h, s)
<1> DEFINE D == {i \in 1..Len(rows) : Serves(s, rows[i])}
           all == [k \in DOMAIN order |-> rows[order[k]]]
<1>1. /\ rows \in Seq(g.rows) /\ ToSet(rows) = Upto(g, T, Len(T))
      /\ \A i, j \in 1..Len(rows) : rows[i] = rows[j] => i = j
      /\ \A i, j \in 1..Len(rows) : i < j => NoLater(T, rows[i], rows[j])
  BY DEF Gathered
<1>2. Len(rows) \in Nat /\ DOMAIN rows = 1..Len(rows) /\ D \subseteq 1..Len(rows)
  BY <1>1
<1>3. IsFiniteSet(D)
  <2>1. IsFiniteSet(1..Len(rows))
    BY <1>2, FS_Interval
  <2> QED BY <1>2, <2>1, FS_Subset
<1>4. order \in SetToSeqs(D)
  BY <1>2
<1> HIDE DEF D
<1>5. /\ order \in Seq(D) /\ ToSet(order) = D /\ DOMAIN order = 1..Len(order)
      /\ \A i, j \in 1..Len(order) : order[i] = order[j] => i = j
  BY <1>3, <1>4, Listing
<1>6. \A k \in 1..Len(order) : order[k] \in 1..Len(rows) /\ rows[order[k]] \in g.rows
  <2> TAKE k \in 1..Len(order)
  <2>1. order[k] \in D
    BY <1>5
  <2>2. order[k] \in 1..Len(rows)
    BY <1>2, <2>1
  <2> QED BY <1>1, <2>2, ElementOfSeq
<1>7. /\ all \in Seq(g.rows) /\ Len(all) = Len(order) /\ Len(order) \in Nat
      /\ \A k \in 1..Len(order) : all[k] = rows[order[k]]
  BY <1>5, <1>6
<1> HIDE DEF all
<1>8. ToSet(all) = {r \in ToSet(rows) : Serves(s, r)}
  <2>1. ASSUME NEW r \in ToSet(all) PROVE r \in ToSet(rows) /\ Serves(s, r)
    <3>1. PICK k \in 1..Len(order) : all[k] = r
      BY <1>7, InToSet
    <3>2. order[k] \in D /\ r = rows[order[k]]
      BY <1>5, <1>7, <3>1
    <3> QED BY <1>1, <1>2, <3>2, InToSet DEF D
  <2>2. ASSUME NEW r \in ToSet(rows), Serves(s, r) PROVE r \in ToSet(all)
    <3>1. PICK i \in 1..Len(rows) : rows[i] = r
      BY <1>1, InToSet
    <3>2. i \in ToSet(order)
      BY <1>5, <2>2, <3>1 DEF D
    <3>3. PICK k \in 1..Len(order) : order[k] = i
      BY <1>5, <3>2, InToSet
    <3>4. k \in 1..Len(all) /\ all[k] = r
      BY <1>7, <3>1, <3>3
    <3> QED BY <1>7, <3>4, InToSet
  <2> QED BY <2>1, <2>2
<1>9. Ascends(all, RowOrder(g, T))
  <2> SUFFICES ASSUME NEW k \in 1..Len(all), NEW m \in 1..Len(all), k < m
               PROVE  <<all[k], all[m]>> \in RowOrder(g, T)
    BY DEF Ascends
  <2> DEFINE i == order[k]
             j == order[m]
  <2>1. /\ i \in 1..Len(rows) /\ j \in 1..Len(rows) /\ i # j
        /\ all[k] = rows[i] /\ all[m] = rows[j]
        /\ rows[i] \in g.rows /\ rows[j] \in g.rows
    BY <1>5, <1>6, <1>7
  <2>2. ById(rows, i, j)
    BY <1>5, <1>7
  <2> HIDE DEF i, j
  <2>3. CASE rows[i].id < rows[j].id
    BY <2>1, <2>3 DEF RowOrder
  <2>4. CASE rows[i].id = rows[j].id /\ i < j
    <3>1. PICK n \in 1..Len(T) : /\ Gives(T[n], rows[i])
                                 /\ \A l \in 1..(n - 1) : ~Gives(T[l], rows[j])
      BY <1>1, <2>1, <2>4 DEF NoLater
    <3>2. ~Gives(T[n], rows[j])
      <4> SUFFICES ASSUME Gives(T[n], rows[j]) PROVE FALSE
        OBVIOUS
      <4>1. rows[i].family = rows[j].family
        BY <3>1 DEF Gives
      <4>2. rows[i] = rows[j]
        BY <2>1, <2>4, <4>1, GraphFacts
      <4> QED BY <1>1, <2>1, <4>2
    <3>3. \A l \in 1..n : l \in 1..(n - 1) \/ l = n
      OBVIOUS
    <3> QED BY <2>1, <2>4, <3>1, <3>2, <3>3 DEF RowOrder, Sooner
  <2> QED BY <2>2, <2>3, <2>4 DEF ById
<1> QED BY <1>1, <1>7, <1>8, <1>9 DEF Listings, all
------------------------------------------------------------------------------
(* What a person's listing holds: the rows attributed to the person.       *)

LEMMA ListingIsAttributed ==
  ASSUME graph \in Graphs, NEW all \in Listings(graph, walk.hal, walk.shape)
  PROVE  /\ ToSet(all) = Attributed
         /\ \A i, j \in 1..Len(all) : all[i] = all[j] => i = j
         /\ Cardinality(Attributed) = Len(all)
<1> DEFINE g == graph
           h == walk.hal
           s == walk.shape
<1>1. PICK T \in Plans(g, h) :
        /\ ToSet(all) = {r \in Upto(g, T, Len(T)) : Serves(s, r)}
        /\ Ascends(all, RowOrder(g, T))
  BY DEF Listings
<1>2. PICK q \in SortedLinks(g, h) :
        /\ T \in ByTable(TopLinks(q)) /\ \A l \in ToSet(TopLinks(q)) : l.source # 4
  BY DEF Plans
<1> DEFINE top == ToSet(TopLinks(q))
<1>3. TopLinks(q) \in Seq(Links)
  BY SortedLinksAscend, TopLinksSeq
<1>4. \A r : (\E k \in 1..Len(T) : Gives(T[k], r)) <=>
             (\E l \in top : r.family = Family[l.source] /\ r.id = l.id)
  BY <1>2, <1>3, PlanGives
<1>5. ToSet(all) = {r \in g.rows : /\ Serves(s, r)
                                   /\ \E l \in top : /\ l.source # 4
                                                     /\ r.family = Family[l.source]
                                                     /\ r.id = l.id}
  BY <1>1, <1>2, <1>4 DEF Upto
<1>6. top = {l \in HalLinks(g, h) :
              Cardinality({m \in HalLinks(g, h) : m = l \/ LinkBefore(m, l)}) <= MaxLinks}
  BY TopLinksRanked
<1>7. ToSet(all) = Attributed
  BY <1>5, <1>6 DEF Attributed, HalLinks
<1>8. all \in Seq(g.rows)
  BY DEF Listings
<1>9. \A i, j \in 1..Len(all) : all[i] = all[j] => i = j
  BY <1>1, <1>8, RowOrderAsymmetric, AscendingInjective
<1>10. Cardinality(ToSet(all)) = Len(all)
  BY <1>8, <1>9, InjectiveCardinality
<1> QED BY <1>7, <1>9, <1>10

(* A window of a listing goes on where the pages before it ended.          *)
LEMMA WindowSeq ==
  ASSUME NEW S, NEW all \in Seq(S), NEW offset \in Nat, NEW limit \in Nat
  PROVE  /\ Window(all, offset, limit) \in Seq(S)
         /\ offset <= Len(all) =>
              \E n \in offset..Len(all) :
                Window(all, offset, limit) = SubSeq(all, offset + 1, n)
<1> DEFINE n == Min({offset + PageLimit(limit), Len(all)})
<1>1. PageLimit(limit) \in Nat /\ Len(all) \in Nat
  BY DEF PageLimit
<1>2. n = IF offset + PageLimit(limit) <= Len(all) THEN offset + PageLimit(limit)
          ELSE Len(all)
  BY <1>1, MinOfTwo
<1> HIDE DEF n
<1>3. n \in Nat /\ n <= Len(all) /\ (offset <= Len(all) => offset <= n)
  BY <1>1, <1>2
<1>4. Window(all, offset, limit) = SubSeq(all, offset + 1, n)
  BY DEF Window, n
<1>5. SubSeq(all, offset + 1, n) \in Seq(S)
  BY <1>3, SubSeqProperties
<1> QED BY <1>3, <1>4, <1>5

(* What an engine has read after a page of it.                             *)
PageOf(read, all, limit) == read \o Window(all, Len(read), limit)

LEMMA PageOfSeq ==
  ASSUME NEW S, NEW all \in Seq(S), NEW read \in Seq(S), NEW limit \in Nat
  PROVE  /\ PageOf(read, all, limit) \in Seq(S)
         /\ all = <<>> => PageOf(read, all, limit) = read
<1>1. Len(read) \in Nat /\ PageLimit(limit) \in Nat
  BY DEF PageLimit
<1>2. Window(all, Len(read), limit) \in Seq(S)
  BY <1>1, WindowSeq
<1>3. ASSUME all = <<>> PROVE Window(all, Len(read), limit) = <<>>
  <2> DEFINE n == Min({Len(read) + PageLimit(limit), Len(all)})
  <2>1. n = 0
    BY <1>1, <1>3, MinOfTwo
  <2>2. SubSeq(all, Len(read) + 1, 0) = <<>>
    BY <1>1, SubSeqEmpty
  <2> QED BY <2>1, <2>2 DEF Window
<1> QED BY <1>2, <1>3 DEF PageOf

LEMMA ReadOn ==
  ASSUME NEW S, NEW all \in Seq(S), NEW read, NEW n \in 0..Len(all),
         read = SubSeq(all, 1, n), NEW limit \in Nat
  PROVE  \E m \in 0..Len(all) : PageOf(read, all, limit) = SubSeq(all, 1, m)
                                 /\ Len(PageOf(read, all, limit)) = m
<1>1. Len(all) \in Nat /\ Len(read) = n /\ n \in Nat /\ n <= Len(all)
  OBVIOUS
<1>2. PICK m \in n..Len(all) : Window(all, n, limit) = SubSeq(all, n + 1, m)
  BY <1>1, WindowSeq
<1>3. SubSeq(all, 1, n) \o SubSeq(all, n + 1, m) = SubSeq(all, 1, m)
  BY <1>1, ConcatAdjacentSubSeq
<1>4. Len(SubSeq(all, 1, m)) = m /\ m \in 0..Len(all)
  BY <1>1
<1> QED BY <1>1, <1>2, <1>3, <1>4 DEF PageOf
------------------------------------------------------------------------------
(* The invariant of a walk. What it has read is the beginning of the one   *)
(* listing of the person, whole when it ends whole; the queries it awaits  *)
(* are the rest of the person's plan, and what it fetched is what those    *)
(* before gave.                                                            *)

WalkOK ==
  /\ walk # None => walk \in Walks /\ walk.read \in Seq(graph.rows)
  /\ walk = None => page = None
  /\ stage \in {"idle", "person", "links", "rows"}
  /\ stage # "idle" => walk # None /\ walk.end = "open"
  /\ stage # "rows" => todo = <<>> /\ fetched = <<>>

FetchInv ==
  stage = "rows" =>
    \E T \in Plans(graph, walk.hal), n \in Nat :
      /\ n < Len(T) /\ todo = SubSeq(T, n + 1, Len(T))
      /\ Gathered(graph, T, n, fetched)

ReadInv ==
  walk # None =>
    /\ walk.end = "whole" => walk.read \in Listings(graph, walk.hal, walk.shape)
    /\ walk.read # <<>> =>
         \E all \in Listings(graph, walk.hal, walk.shape) : \E n \in 0..Len(all) :
           walk.read = SubSeq(all, 1, n)

PageInv ==
  page # None =>
    /\ page.total \in Nat /\ page.timedOut \in BOOLEAN
    /\ IF page.timedOut THEN page.total = 0
       ELSE \E all \in Listings(graph, walk.hal, walk.shape) : page.total = Len(all)

WalkInv == graph \in Graphs /\ WalkOK /\ FetchInv /\ ReadInv /\ PageInv

LEMMA WalkKept ==
  ASSUME WalkInv, UNCHANGED <<graph, walk, stage, todo, fetched, page>>
  PROVE  WalkInv'
BY DEF WalkInv, WalkOK, FetchInv, ReadInv, PageInv

LEMMA BeginWalkStep ==
  ASSUME WalkInv, NEW h \in Handles, NEW s \in Shapes, NEW l \in Limits,
         BeginWalk(h, s, l)
  PROVE  WalkInv'
<1>1. /\ walk = None /\ page' = None /\ stage' = "person" /\ graph' = graph
      /\ walk' = [hal |-> h, shape |-> s, limit |-> l, read |-> <<>>, end |-> "open"]
      /\ stage = "idle" /\ todo' = <<>> /\ fetched' = <<>>
  BY DEF BeginWalk, WalkInv, WalkOK
<1>2. walk' \in Walks /\ walk'.read = <<>> /\ walk'.end = "open"
  BY <1>1 DEF Walks, Ends
<1>3. walk' # None
  BY <1>2, GraphAssumption
<1>4. walk'.read \in Seq(graph'.rows)
  BY <1>2
<1>5. WalkOK'
  BY <1>1, <1>2, <1>3, <1>4 DEF WalkOK
<1>6. FetchInv' /\ ReadInv' /\ PageInv'
  BY <1>1, <1>2 DEF FetchInv, ReadInv, PageInv
<1> QED BY <1>1, <1>5, <1>6 DEF WalkInv

LEMMA EndWalkStep ==
  ASSUME WalkInv, stage # "idle", NEW end \in Ends \ {"whole"}, EndWalk(end),
         graph' = graph, page' = page
  PROVE  WalkInv'
<1>1. /\ walk' = [walk EXCEPT !.end = end] /\ walk \in Walks /\ walk # None
      /\ stage' = "idle" /\ todo' = <<>> /\ fetched' = <<>>
      /\ walk.read \in Seq(graph.rows)
  BY DEF EndWalk, WalkInv, WalkOK
<1>2. /\ walk' \in Walks /\ walk'.read = walk.read /\ walk'.end = end
      /\ walk'.hal = walk.hal /\ walk'.shape = walk.shape
  BY <1>1 DEF Walks
<1>3. walk' # None
  BY <1>2, GraphAssumption
<1>4. WalkOK'
  BY <1>1, <1>2, <1>3 DEF WalkOK
<1>5. ReadInv'
  BY <1>1, <1>2 DEF WalkInv, ReadInv
<1>6. FetchInv' /\ PageInv'
  BY <1>1, <1>2 DEF WalkInv, FetchInv, PageInv
<1> QED BY <1>4, <1>5, <1>6 DEF WalkInv

(* A page: all is the listing of what it lists, empty if it timed out.     *)
LEMMA RespondStep ==
  ASSUME WalkInv, stage # "idle", NEW rows, NEW timedOut \in BOOLEAN,
         Respond(rows, timedOut), graph' = graph,
         timedOut => rows = <<>>,
         ~timedOut => \E T \in Plans(graph, walk.hal) : Gathered(graph, T, Len(T), rows)
  PROVE  WalkInv'
<1> DEFINE h == walk.hal
           s == walk.shape
           Page(all) == PageOf(walk.read, all, walk.limit)
<1>1. PICK order \in SetToSeqs({i \in DOMAIN rows : Serves(s, rows[i])}) :
        LET all == [k \in DOMAIN order |-> rows[order[k]]]
        IN  /\ \A k, m \in DOMAIN order : k < m => ById(rows, order[k], order[m])
            /\ page' = [total |-> Len(all), timedOut |-> timedOut]
            /\ walk' = [walk EXCEPT !.read = Page(all),
                                    !.end = IF timedOut THEN "flagged"
                                            ELSE IF Len(Page(all)) < Len(all) THEN "open"
                                            ELSE "whole"]
            /\ stage' = "idle" /\ todo' = <<>> /\ fetched' = <<>>
  BY DEF Respond, PageOf
<1> DEFINE all == [k \in DOMAIN order |-> rows[order[k]]]
<1>2. /\ walk \in Walks /\ walk # None /\ walk.read \in Seq(graph.rows)
      /\ walk.limit \in Nat /\ graph \in Graphs /\ graph.rows \subseteq Rows
  BY GraphFacts, GraphAssumption DEF WalkInv, WalkOK, Walks
<1>3. timedOut => all = <<>>
  <2> SUFFICES ASSUME timedOut PROVE DOMAIN order = {}
    OBVIOUS
  <2>1. {i \in DOMAIN rows : Serves(s, rows[i])} = {}
    OBVIOUS
  <2> QED BY <2>1, FS_EmptySet DEF SetToSeqs
<1>4. ~timedOut => all \in Listings(graph, h, s)
  BY <1>1, <1>2, SortedIsListing
<1>5. all \in Seq(graph.rows)
  BY <1>3, <1>4 DEF Listings
<1> HIDE DEF all
<1>6. /\ page' = [total |-> Len(all), timedOut |-> timedOut]
      /\ walk' = [walk EXCEPT !.read = Page(all),
                              !.end = IF timedOut THEN "flagged"
                                      ELSE IF Len(Page(all)) < Len(all) THEN "open"
                                      ELSE "whole"]
      /\ stage' = "idle" /\ todo' = <<>> /\ fetched' = <<>>
  BY <1>1 DEF all
<1>7. Page(all) \in Seq(graph.rows)
  BY <1>2, <1>5, PageOfSeq
<1>8. timedOut => Page(all) = walk.read
  <2>1. walk.read \in Seq(graph.rows) /\ walk.limit \in Nat
    BY <1>2
  <2>2. all = <<>> => PageOf(walk.read, all, walk.limit) = walk.read
    BY <1>5, <2>1, PageOfSeq, ZenonT(30)
  <2> QED BY <1>3, <2>2
<1>9. ~timedOut => \E m \in 0..Len(all) : Page(all) = SubSeq(all, 1, m) /\ Len(Page(all)) = m
  <2> SUFFICES ASSUME ~timedOut
               PROVE  \E m \in 0..Len(all) : Page(all) = SubSeq(all, 1, m) /\ Len(Page(all)) = m
    OBVIOUS
  <2>1. PICK n \in 0..Len(all) : walk.read = SubSeq(all, 1, n)
    <3>1. CASE walk.read = <<>>
      <4>1. walk.read = SubSeq(all, 1, 0) /\ 0 \in 0..Len(all)
        BY <1>5, <3>1
      <4> QED BY <4>1
    <3>2. CASE walk.read # <<>>
      BY <1>2, <1>4, <3>2, ListingsUnique DEF WalkInv, ReadInv
    <3> QED BY <3>1, <3>2
  <2> QED BY <1>2, <1>5, <2>1, ReadOn
<1> DEFINE end == IF timedOut THEN "flagged"
                  ELSE IF Len(Page(all)) < Len(all) THEN "open" ELSE "whole"
<1>10. /\ walk' \in Walks /\ walk'.read = Page(all) /\ walk'.end = end
       /\ walk'.hal = h /\ walk'.shape = s
  <2>1. Page(all) \in Seq(Rows)
    BY <1>2, <1>7, SeqMonotonic
  <2> HIDE DEF Page
  <2>2. end \in Ends
    BY DEF Ends
  <2>3. walk' = [walk EXCEPT !.read = Page(all), !.end = end]
    BY <1>6
  <2> HIDE DEF end
  <2> QED BY <1>2, <2>1, <2>2, <2>3 DEF Walks
<1> HIDE DEF Page
<1>11. walk' # None
  BY <1>10, GraphAssumption
<1>12. WalkOK'
  BY <1>6, <1>7, <1>10, <1>11 DEF WalkOK
<1>13. FetchInv'
  BY <1>6 DEF FetchInv
<1>14. ReadInv'
  <2>1. CASE timedOut
    BY <1>2, <1>8, <1>10, <2>1 DEF WalkInv, ReadInv
  <2>2. CASE ~timedOut
    <3>1. PICK m \in 0..Len(all) : Page(all) = SubSeq(all, 1, m) /\ Len(Page(all)) = m
      BY <1>9, <2>2
    <3>2. end = "whole" => Page(all) = all
      <4> SUFFICES ASSUME end = "whole" PROVE Page(all) = all
        OBVIOUS
      <4>1. ~(Len(Page(all)) < Len(all))
        OBVIOUS
      <4>2. m = Len(all)
        BY <1>5, <3>1, <4>1
      <4> QED BY <1>5, <3>1, <4>2, SubSeqFull
    <3> HIDE DEF end
    <3> QED BY <1>4, <1>10, <2>2, <3>1, <3>2 DEF ReadInv
  <2> QED BY <2>1, <2>2
<1>15. PageInv'
  <2>1. page'.total = Len(all) /\ page'.timedOut = timedOut /\ Len(all) \in Nat
    BY <1>5, <1>6
  <2>2. timedOut => Len(all) = 0
    BY <1>3
  <2> QED BY <1>4, <1>10, <2>1, <2>2 DEF PageInv
<1> QED BY <1>2, <1>12, <1>13, <1>14, <1>15 DEF WalkInv

(* The queries of a plan, from the one after the n-th on.                  *)
LEMMA PlanRest ==
  ASSUME NEW g \in Graphs, NEW h, NEW T \in Plans(g, h), NEW n \in Nat, n < Len(T)
  PROVE  LET rest == SubSeq(T, n + 1, Len(T))
         IN  /\ Head(rest) = T[n + 1] /\ Len(rest) = Len(T) - n /\ rest # <<>>
             /\ Tail(rest) = SubSeq(T, n + 2, Len(T))
<1> DEFINE rest == SubSeq(T, n + 1, Len(T))
           S == [source : 1..4, ids : SUBSET Nat]
<1>1. T \in Seq(S)
  BY PlanSeq
<1> HIDE DEF S
<1>2. Len(T) \in Nat
  BY <1>1
<1>3. /\ rest \in Seq(S) /\ Len(rest) = Len(T) - n
      /\ \A i \in 1..(Len(T) - n) : rest[i] = T[n + i]
  BY <1>1, <1>2
<1>4. Head(rest) = T[n + 1] /\ rest # <<>>
  <2>1. 1 \in 1..(Len(T) - n) /\ Len(rest) # 0
    BY <1>2, <1>3
  <2>2. rest[1] = T[n + 1]
    BY <1>3, <2>1
  <2> HIDE DEF rest
  <2> QED BY <1>3, <2>1, <2>2
<1>5. Tail(rest) = SubSeq(T, n + 2, Len(T))
  <2> DEFINE a == Tail(rest)
             b == SubSeq(T, n + 2, Len(T))
  <2>1. /\ b \in Seq(S) /\ Len(b) = Len(T) - n - 1
        /\ \A i \in 1..(Len(T) - n - 1) : b[i] = T[n + 1 + i]
    BY <1>1, <1>2
  <2>2. /\ a \in Seq(S) /\ Len(a) = Len(T) - n - 1
        /\ \A i \in 1..(Len(T) - n - 1) : a[i] = rest[i + 1]
    <3> HIDE DEF rest
    <3> QED BY <1>2, <1>3, <1>4
  <2>3. \A i \in 1..(Len(T) - n - 1) : a[i] = b[i]
    <3> SUFFICES ASSUME NEW i \in 1..(Len(T) - n - 1) PROVE a[i] = b[i]
      OBVIOUS
    <3>1. i + 1 \in 1..(Len(T) - n) /\ n + (i + 1) = n + 1 + i
      BY <1>2
    <3>2. rest[i + 1] = T[n + (i + 1)]
      BY <1>3, <3>1
    <3> QED BY <2>1, <2>2, <3>1, <3>2
  <2> HIDE DEF a, b
  <2>4. \A i \in 1..Len(a) : a[i] = b[i]
    BY <2>2, <2>3
  <2>5. a = b
    BY <2>1, <2>2, <2>4, SeqEqual
  <2> QED BY <2>5 DEF a, b
<1> QED BY <1>3, <1>4, <1>5

LEMMA FetchTableStep ==
  ASSUME WalkInv, FetchTable
  PROVE  WalkInv'
<1> DEFINE g == graph
           h == walk.hal
           found == {r \in g.rows : /\ r.family = Family[Head(todo).source]
                                    /\ r.id \in Head(todo).ids}
<1>1. stage = "rows" /\ graph \in Graphs /\ graph' = graph
  BY DEF FetchTable, WalkInv
<1>2. PICK T \in Plans(g, h), n \in Nat :
        /\ n < Len(T) /\ todo = SubSeq(T, n + 1, Len(T))
        /\ Gathered(g, T, n, fetched)
  BY <1>1 DEF WalkInv, FetchInv
<1>3. /\ Head(todo) = T[n + 1] /\ Len(todo) = Len(T) - n /\ Len(T) \in Nat
      /\ Tail(todo) = SubSeq(T, n + 2, Len(T))
  BY <1>1, <1>2, PlanRest, PlanSeq
<1>4. found = {r \in g.rows : Gives(T[n + 1], r)}
  BY <1>3 DEF Gives
<1>5. PICK rows \in SetToSeqs(found \ ToSet(fetched)) :
        \/ /\ Len(todo) > 1
           /\ fetched' = fetched \o rows /\ todo' = Tail(todo)
           /\ UNCHANGED <<walk, stage, page>>
        \/ /\ Len(todo) = 1
           /\ Respond(fetched \o rows, FALSE)
  BY DEF FetchTable, Unseen
<1> HIDE DEF found
<1>6. Gathered(g, T, n + 1, fetched \o rows)
  BY <1>1, <1>2, <1>4, <1>5, GatherNext
<1>7. CASE /\ Len(todo) > 1
           /\ fetched' = fetched \o rows /\ todo' = Tail(todo)
           /\ UNCHANGED <<walk, stage, page>>
  <2>1. n + 1 \in Nat /\ n + 1 < Len(T) /\ (n + 1) + 1 = n + 2
    BY <1>2, <1>3, <1>7
  <2>2. todo' = SubSeq(T, (n + 1) + 1, Len(T))
    BY <1>3, <1>7, <2>1
  <2>3. FetchInv'
    BY <1>1, <1>6, <1>7, <2>1, <2>2 DEF FetchInv
  <2> QED BY <1>1, <1>7, <2>3 DEF WalkInv, WalkOK, ReadInv, PageInv
<1>8. CASE Len(todo) = 1 /\ Respond(fetched \o rows, FALSE)
  <2>1. n + 1 = Len(T)
    BY <1>2, <1>3, <1>8
  <2>2. Gathered(g, T, Len(T), fetched \o rows)
    BY <1>6, <2>1
  <2> QED BY <1>1, <1>2, <1>8, <2>2, RespondStep
<1> QED BY <1>5, <1>7, <1>8

LEMMA FetchCancelledStep ==
  ASSUME WalkInv, FetchCancelled
  PROVE  WalkInv'
BY RespondStep DEF FetchCancelled

LEMMA ReadPersonStep ==
  ASSUME WalkInv, ReadPerson
  PROVE  WalkInv'
<1>1. CASE stage' = "links" /\ UNCHANGED <<walk, todo, fetched>>
  BY <1>1 DEF ReadPerson, WalkInv, WalkOK, FetchInv, ReadInv, PageInv
<1>2. CASE EndWalk("unknown")
  <2>1. "unknown" \in Ends \ {"whole"}
    BY DEF Ends
  <2> QED BY <1>2, <2>1, EndWalkStep DEF ReadPerson
<1> QED BY <1>1, <1>2 DEF ReadPerson

LEMMA FailStep ==
  ASSUME WalkInv, Fail
  PROVE  WalkInv'
<1>1. "failed" \in Ends \ {"whole"}
  BY DEF Ends
<1> QED BY <1>1, EndWalkStep DEF Fail

(* Before the first query of a plan nothing is gathered.                   *)
LEMMA GatherNone ==
  ASSUME NEW g \in Graphs, NEW T
  PROVE  Gathered(g, T, 0, <<>>)
<1>1. ToSet(<<>>) = {} /\ Upto(g, T, 0) = {}
  BY DEF ToSet, Upto
<1>2. <<>> \in Seq(g.rows) /\ Len(<<>>) = 0
  OBVIOUS
<1>3. \A i : i \notin 1..0
  OBVIOUS
<1> QED BY <1>1, <1>2, <1>3 DEF Gathered

LEMMA ReadLinksStep ==
  ASSUME WalkInv, ReadLinks
  PROVE  WalkInv'
<1>1. stage = "links" /\ graph \in Graphs /\ graph' = graph
  BY DEF ReadLinks, WalkInv
<1>2. PICK order \in SortedLinks(graph, walk.hal) :
        LET links == TopLinks(order)
        IN  \/ /\ \E l \in ToSet(links) : l.source = 4
               /\ EndWalk("failed") /\ UNCHANGED page
            \/ /\ links = <<>>
               /\ Respond(<<>>, FALSE)
            \/ /\ links # <<>> /\ \A l \in ToSet(links) : l.source # 4
               /\ todo' \in ByTable(links) /\ stage' = "rows"
               /\ UNCHANGED <<walk, fetched, page>>
  BY DEF ReadLinks, SortedLinks, HalLinks, TopLinks
<1> DEFINE links == TopLinks(order)
<1>3. links \in Seq(Links)
  BY <1>1, SortedLinksAscend, TopLinksSeq
<1> HIDE DEF links
<1>4. CASE EndWalk("failed") /\ UNCHANGED page
  <2>1. "failed" \in Ends \ {"whole"}
    BY DEF Ends
  <2> QED BY <1>1, <1>4, <2>1, EndWalkStep
<1>5. CASE links = <<>> /\ Respond(<<>>, FALSE)
  <2>1. \A l \in ToSet(links) : l.source # 4
    BY <1>5 DEF ToSet
  <2>2. <<>> \in ByTable(links)
    <3>1. Sources(links) = {}
      BY <1>5 DEF Sources, ToSet
    <3>2. <<>> \in SetToSeqs({})
      BY FS_EmptySet DEF SetToSeqs
    <3>3. <<>> \in SourceOrders(links)
      BY <3>1, <3>2 DEF SourceOrders
    <3>4. <<>> = [k \in DOMAIN <<>> |-> [source |-> <<>>[k], ids |-> IdsOf(links, <<>>[k])]]
      OBVIOUS
    <3> QED BY <3>3, <3>4, ByTableIs
  <2>3. <<>> \in Plans(graph, walk.hal)
    BY <2>1, <2>2 DEF Plans, links
  <2>4. Len(<<>>) = 0
    OBVIOUS
  <2>5. Gathered(graph, <<>>, Len(<<>>), <<>>)
    BY <1>1, <2>4, GatherNone
  <2> QED BY <1>1, <1>5, <2>3, <2>5, RespondStep
<1>6. CASE /\ links # <<>> /\ \A l \in ToSet(links) : l.source # 4
           /\ todo' \in ByTable(links) /\ stage' = "rows"
           /\ UNCHANGED <<walk, fetched, page>>
  <2> DEFINE T == todo'
  <2>1. T \in Plans(graph, walk.hal)
    BY <1>6 DEF Plans, links
  <2>2. T # <<>> /\ T \in Seq([source : 1..4, ids : SUBSET Nat])
    BY <1>3, <1>6, PlanGives
  <2>3. 0 < Len(T) /\ T = SubSeq(T, 0 + 1, Len(T))
    <3> HIDE DEF T
    <3> QED BY <2>2, SubSeqFull
  <2>4. fetched' = <<>>
    BY <1>1, <1>6 DEF WalkInv, WalkOK
  <2>5. Gathered(graph', T, 0, fetched')
    BY <1>1, <2>4, GatherNone
  <2>6. FetchInv'
    BY <1>1, <1>6, <2>1, <2>3, <2>5 DEF FetchInv
  <2> QED BY <1>1, <1>6, <2>6 DEF WalkInv, WalkOK, ReadInv, PageInv
<1> QED BY <1>2, <1>4, <1>5, <1>6 DEF links

LEMMA ForgetStep ==
  ASSUME WalkInv, Forget
  PROVE  WalkInv'
BY DEF Forget, WalkInv, WalkOK, FetchInv, ReadInv, PageInv

LEMMA NextPageStep ==
  ASSUME WalkInv, NextPage
  PROVE  WalkInv'
BY DEF NextPage, WalkInv, WalkOK, FetchInv, ReadInv, PageInv

LEMMA WalkInductive ==
  ASSUME WalkInv, [Next]_vars
  PROVE  WalkInv'
<1>1. ASSUME NEW name \in Names, NEW limit \in Limits, Search(name, limit)
      PROVE  WalkInv'
  BY <1>1, WalkKept DEF Search
<1>2. ASSUME NEW name \in Names, SearchCancelled(name)
      PROVE  WalkInv'
  BY <1>2, WalkKept DEF SearchCancelled
<1>3. CASE UNCHANGED vars
  BY <1>3, WalkKept DEF vars
<1> QED BY <1>1, <1>2, <1>3, BeginWalkStep, NextPageStep, ReadPersonStep, ReadLinksStep,
           FetchTableStep, FetchCancelledStep, FailStep, ForgetStep DEF Next

LEMMA WalkInvAlways == Spec => []WalkInv
<1>1. Init => WalkInv
  BY DEF Init, WalkInv, WalkOK, FetchInv, ReadInv, PageInv
<1> QED BY <1>1, WalkInductive, PTL DEF Spec

(* The pages that an engine reads one after another give it each row       *)
(* attributed to the person once, whatever the limit and however the       *)
(* queries order their rows.                                               *)
THEOREM WalkIsWhole == Spec => []WalkWhole
<1>1. WalkInv => WalkWhole
  <2> SUFFICES ASSUME WalkInv, walk # None, walk.end = "whole"
               PROVE  IsInjective(walk.read) /\ ToSet(walk.read) = Attributed
    BY DEF WalkWhole
  <2>1. walk.read \in Listings(graph, walk.hal, walk.shape) /\ graph \in Graphs
    BY DEF WalkInv, ReadInv
  <2>2. walk.read \in Seq(graph.rows)
    BY <2>1 DEF Listings
  <2>3. /\ ToSet(walk.read) = Attributed
        /\ \A i, j \in 1..Len(walk.read) : walk.read[i] = walk.read[j] => i = j
    BY <2>1, ListingIsAttributed
  <2> QED BY <2>2, <2>3 DEF IsInjective
<1> QED BY <1>1, WalkInvAlways, PTL

(* A page is whole, of the total of the rows attributed to the person, or  *)
(* empty and flagged.                                                      *)
THEOREM PagesHonest == Spec => []PageHonest
<1>1. WalkInv => PageHonest
  BY ListingIsAttributed DEF WalkInv, PageInv, PageHonest
<1> QED BY <1>1, WalkInvAlways, PTL
------------------------------------------------------------------------------
(* The name search: the keys it scans are those that the name spells, and  *)
(* its results the first of the one ranking of their people.               *)

RankOrder(g) == {p \in g.people \X g.people : Ranked(p[1], p[2])}

Rankings(g, P) ==
  {q \in SetToSeqs(P) : \A i, j \in DOMAIN q : i < j => Ranked(q[i], q[j])}

LEMMA RankOrderAsymmetric ==
  ASSUME NEW g \in Graphs
  PROVE  Asymmetric(RankOrder(g))
<1> SUFFICES ASSUME NEW e \in g.people, NEW f \in g.people, Ranked(e, f), Ranked(f, e)
             PROVE  FALSE
  BY DEF Asymmetric, RankOrder
<1>1. e \in Entities /\ f \in Entities
  BY GraphFacts
<1>2. e.count \in Nat /\ f.count \in Nat /\ e.hal \in Nat /\ f.hal \in Nat
  BY <1>1 DEF Entities
<1> QED BY <1>2 DEF Ranked

LEMMA RankingIs ==
  ASSUME NEW g \in Graphs, NEW P \in SUBSET g.people, NEW q \in Rankings(g, P)
  PROVE  /\ q \in Seq(g.people) /\ ToSet(q) = P /\ Len(q) = Cardinality(P)
         /\ Ascends(q, RankOrder(g))
<1>1. IsFiniteSet(P)
  BY GraphFacts, FS_Subset
<1>2. q \in Seq(P) /\ ToSet(q) = P /\ Len(q) = Cardinality(P) /\ DOMAIN q = 1..Len(q)
  BY <1>1, Listing DEF Rankings
<1>3. q \in Seq(g.people)
  BY <1>2, SeqMonotonic
<1>4. \A i \in 1..Len(q) : q[i] \in g.people
  BY <1>3, ElementOfSeq
<1>5. Ascends(q, RankOrder(g))
  BY <1>2, <1>4 DEF Rankings, Ascends, RankOrder
<1> QED BY <1>2, <1>3, <1>5

LEMMA RankingUnique ==
  ASSUME NEW g \in Graphs, NEW P \in SUBSET g.people,
         NEW q \in Rankings(g, P), NEW p \in Rankings(g, P)
  PROVE  q = p
BY RankingIs, RankOrderAsymmetric, AscendingUnique

LEMMA KeysAreSpelled ==
  ASSUME graph \in Graphs, NEW name \in Names
  PROVE  KeysOf(name) = Spelled(name)
<1> DEFINE w == name.words
           c == name.comma
<1>1. /\ w \in Seq(Nat \ {0}) /\ (c = None => w # <<>>)
      /\ (c # None => c \in 0..Len(w))
  BY GraphAssumption
<1>2. \A k \in graph.keys : k.first \in Nat /\ k.last \in Seq(Nat \ {0})
  BY GraphFacts DEF NameKeys
<1>3. Len(w) \in Nat
  BY <1>1
<1>4. CASE c = None
  <2> DEFINE after == SubSeq(w, 0 + 1, Len(w))
  <2>1. after = w /\ Len(<<>>) = 0 /\ Len(w) > 0
    BY <1>1, <1>4, SubSeqFull
  <2>2. Head(w) = w[1] /\ w[1] # 0 /\ Last(w) = w[Len(w)] /\ w[1] \in Nat
    BY <1>1, <2>1 DEF Last
  <2>3. NameParts(name) = [last |-> <<w[Len(w)]>>, first |-> IF Len(w) > 1 THEN w[1] ELSE 0]
    BY <1>4 DEF NameParts
  <2>4. Len(w) = 1 => w = <<w[Len(w)]>>
    BY <1>1
  <2>5. ASSUME NEW k \in graph.keys PROVE k \in KeysOf(name) <=> Spells(name, k)
    <3>1. k \in KeysOf(name) <=>
            /\ k.last = <<w[Len(w)]>> /\ k.hal # 0
            /\ (Len(w) > 1 => k.first = w[1])
      BY <1>2, <2>2, <2>3 DEF KeysOf
    <3>2. Spells(name, k) <=>
            /\ k.hal # 0
            /\ \/ Len(w) = 1 /\ k.last = w
               \/ Len(w) > 1 /\ k.last = <<Last(w)>> /\ k.first = Head(w)
      BY <1>4, <2>1 DEF Spells
    <3> DEFINE last == w[Len(w)]
               n == Len(w)
    <3>3. Last(w) = last /\ Head(w) = w[1] /\ n \in Nat /\ n > 0
      BY <1>3, <2>1, <2>2
    <3>4. n = 1 => w = <<last>>
      BY <2>4
    <3> HIDE DEF last, n
    <3>5. n = 1 \/ n > 1
      BY <3>3
    <3>6. n = 1 => ~(n > 1)
      OBVIOUS
    <3>7. k \in KeysOf(name) <=>
            /\ k.last = <<last>> /\ k.hal # 0
            /\ (n > 1 => k.first = w[1])
      BY <3>1 DEF last, n
    <3>8. Spells(name, k) <=>
            /\ k.hal # 0
            /\ \/ n = 1 /\ k.last = w
               \/ n > 1 /\ k.last = <<last>> /\ k.first = w[1]
      BY <3>2, <3>3 DEF n
    <3> QED BY <3>4, <3>5, <3>6, <3>7, <3>8, Zenon
  <2> QED BY <2>5 DEF Spelled, KeysOf
<1>5. CASE c # None
  <2> DEFINE before == SubSeq(w, 1, c)
             after == SubSeq(w, c + 1, Len(w))
  <2>1. c \in Nat /\ c <= Len(w)
    BY <1>1, <1>3, <1>5
  <2> DEFINE W == Nat \ {0}
  <2>2. /\ before \in Seq(W) /\ Len(before) = c
        /\ after \in Seq(W) /\ Len(after) = Len(w) - c
    <3>1. w \in Seq(W)
      BY <1>1
    <3> HIDE DEF W
    <3> QED BY <1>3, <2>1, <3>1
  <2>3. after # <<>> <=> Len(w) > c
    <3> HIDE DEF after, W
    <3> QED BY <1>3, <2>1, <2>2
  <2>4. Len(w) > c => Head(after) = w[c + 1] /\ w[c + 1] # 0
    BY <1>1, <1>3, <2>1
  <2>5. NameParts(name) = [last |-> before,
                           first |-> IF Len(w) > c THEN w[c + 1] ELSE 0]
    BY <1>5 DEF NameParts
  <2>6. SubSeq(w, Len(before) + 1, Len(w)) = after
    BY <2>2
  <2> HIDE DEF before, after
  <2>7. ASSUME NEW k \in graph.keys PROVE k \in KeysOf(name) <=> Spells(name, k)
    <3>1. k \in KeysOf(name) <=>
            /\ before # <<>> /\ k.last = before /\ k.hal # 0
            /\ (Len(w) > c => k.first = w[c + 1])
      BY <1>2, <2>4, <2>5 DEF KeysOf
    <3>2. Spells(name, k) <=>
            /\ k.hal # 0 /\ before # <<>> /\ k.last = before
            /\ (after # <<>> => k.first = Head(after))
      BY <1>5, <2>6 DEF Spells, before
    <3> QED BY <2>3, <2>4, <3>1, <3>2
  <2> QED BY <2>7 DEF Spelled, KeysOf
<1> QED BY <1>4, <1>5

LEMMA ScannedIs ==
  ASSUME graph \in Graphs, NEW name \in Names
  PROVE  /\ Scanned(name) \subseteq Spelled(name)
         /\ Cardinality(Spelled(name)) <= KeyLimit => Scanned(name) = Spelled(name)
<1> DEFINE K == KeysOf(name)
<1>1. K = Spelled(name)
  BY KeysAreSpelled
<1>2. IsFiniteSet(K)
  BY GraphFacts, FS_Subset DEF KeysOf
<1>3. ASSUME NEW k \in K
      PROVE  /\ Cardinality({l \in K : l.at <= k.at}) <= Cardinality(K)
             /\ Cardinality({l \in K : l.at <= k.at}) \in Nat
  <2> HIDE DEF K
  <2>1. {l \in K : l.at <= k.at} \subseteq K
    OBVIOUS
  <2> QED BY <1>2, <2>1, FS_Subset, FS_CardinalityType
<1>4. Cardinality(K) \in Nat /\ KeyLimit \in Nat
  BY <1>2, FS_CardinalityType, GraphAssumption
<1>5. Scanned(name) = {k \in K : Cardinality({l \in K : l.at <= k.at}) <= KeyLimit}
  BY DEF Scanned
<1> HIDE DEF K
<1> QED BY <1>1, <1>3, <1>4, <1>5

(* The people who go by a name and are not superseded.                     *)
Living(name) == {e \in Named(Spelled(name)) : ~e.merged}

LEMMA CandidatesAre ==
  ASSUME graph \in Graphs, NEW name \in Names
  PROVE  /\ Candidates(name) \subseteq graph.people
         /\ Cardinality(Candidates(name)) <= Cardinality(Living(name))
         /\ Cardinality(Spelled(name)) <= KeyLimit => Candidates(name) = Living(name)
<1>1. Candidates(name) \subseteq Living(name) /\ Living(name) \subseteq graph.people
  BY ScannedIs DEF Candidates, Living, Named
<1>2. IsFiniteSet(Living(name))
  BY <1>1, GraphFacts, FS_Subset
<1>3. Cardinality(Spelled(name)) <= KeyLimit => Candidates(name) = Living(name)
  BY ScannedIs DEF Candidates, Living
<1> QED BY <1>1, <1>2, <1>3, FS_Subset

(* Two names that spell the same keys have the same candidates.            *)
LEMMA SameCandidates ==
  ASSUME graph \in Graphs, NEW name \in Names, NEW other \in Names,
         Spelled(name) = Spelled(other)
  PROVE  Candidates(name) = Candidates(other)
<1>1. KeysOf(name) = KeysOf(other)
  BY KeysAreSpelled
<1> QED BY <1>1 DEF Candidates, Scanned

CandidatesIn(g, name) ==
  LET parts   == NameParts(name)
      keys    == {k \in g.keys : /\ parts.last # <<>> /\ k.last = parts.last
                                 /\ parts.first \in {0, k.first}
                                 /\ k.hal # 0}
      scanned == {k \in keys : Cardinality({l \in keys : l.at <= k.at}) <= KeyLimit}
  IN  {e \in g.people : (\E k \in scanned : k.hal = e.hal) /\ ~e.merged}

LEMMA CandidatesIs ==
  ASSUME NEW name
  PROVE  Candidates(name) = CandidatesIn(graph, name)
BY DEF Candidates, Named, Scanned, KeysOf, CandidatesIn

AnswerInv ==
  answer # None =>
    /\ answer.name \in Names
    /\ answer.total \in Nat /\ answer.results \in Seq(graph.people)
    /\ ~answer.cancelled =>
         \E order \in Rankings(graph, CandidatesIn(graph, answer.name)) :
           /\ answer.total = Len(order)
           /\ \E n \in 0..Len(order) : answer.results = SubSeq(order, 1, n)

LEMMA SearchStep ==
  ASSUME graph \in Graphs, NEW name \in Names, NEW limit \in Limits, Search(name, limit)
  PROVE  AnswerInv'
<1>1. PICK order \in Rankings(graph, CandidatesIn(graph, name)) :
        answer' = [name |-> name, cancelled |-> FALSE, total |-> Len(order),
                   results |-> Window(order, 0, limit)]
  BY CandidatesIs DEF Search, Rankings
<1>2. order \in Seq(graph.people) /\ Len(order) \in Nat
  BY CandidatesAre, CandidatesIs, RankingIs
<1>3. limit \in Nat /\ 0 \in Nat /\ 0 <= Len(order) /\ graph' = graph
  BY <1>2, GraphAssumption DEF Search
<1>4. /\ Window(order, 0, limit) \in Seq(graph.people)
      /\ \E n \in 0..Len(order) : Window(order, 0, limit) = SubSeq(order, 1, n)
  BY <1>2, <1>3, WindowSeq
<1>5. /\ answer'.name = name /\ answer'.total = Len(order) /\ ~answer'.cancelled
      /\ answer'.results = Window(order, 0, limit)
  BY <1>1
<1> QED BY <1>1, <1>2, <1>3, <1>4, <1>5 DEF AnswerInv

LEMMA AnswerKept ==
  ASSUME AnswerInv, UNCHANGED <<graph, answer>>
  PROVE  AnswerInv'
BY DEF AnswerInv

LEMMA AnswerInductive ==
  ASSUME graph \in Graphs, AnswerInv, [Next]_vars
  PROVE  AnswerInv'
<1>1. ASSUME NEW name \in Names, SearchCancelled(name) PROVE AnswerInv'
  BY <1>1 DEF SearchCancelled, AnswerInv
<1>2. ASSUME NEW h, NEW s, NEW l, BeginWalk(h, s, l) PROVE AnswerInv'
  BY <1>2 DEF BeginWalk, AnswerInv
<1>3. CASE \/ NextPage \/ ReadPerson \/ ReadLinks \/ FetchTable \/ FetchCancelled
           \/ Fail \/ Forget \/ UNCHANGED vars
  BY <1>3, AnswerKept DEF NextPage, ReadPerson, ReadLinks, FetchTable, FetchCancelled,
     Fail, Forget, vars
<1> QED BY <1>1, <1>2, <1>3, SearchStep DEF Next

LEMMA AnswerInvAlways == Spec => [](WalkInv /\ AnswerInv)
<1>1. Init => AnswerInv
  BY DEF Init, AnswerInv
<1>2. WalkInv /\ AnswerInv /\ [Next]_vars => AnswerInv'
  BY AnswerInductive DEF WalkInv
<1> QED BY <1>1, <1>2, WalkInvAlways, PTL DEF Spec

(* A search that is not cancelled finds every person with a name_dob key   *)
(* of the name, in either form, who is not superseded, up to the cap of    *)
(* the key scan.                                                           *)
THEOREM SearchIsComplete == Spec => []SearchComplete
<1>1. WalkInv /\ AnswerInv => SearchComplete
  <2> SUFFICES ASSUME graph \in Graphs, AnswerInv, answer # None, ~answer.cancelled
               PROVE  IF Cardinality(Spelled(answer.name)) <= KeyLimit
                      THEN answer.total = Cardinality(Living(answer.name))
                      ELSE answer.total <= Cardinality(Living(answer.name))
    BY DEF SearchComplete, WalkInv, Living
  <2>1. answer.name \in Names /\ answer.total = Cardinality(Candidates(answer.name))
    BY CandidatesAre, CandidatesIs, RankingIs DEF AnswerInv
  <2> QED BY <2>1, CandidatesAre
<1> QED BY <1>1, AnswerInvAlways, PTL

LEMMA PrefixOfLonger ==
  ASSUME NEW S, NEW q \in Seq(S), NEW n \in 0..Len(q), NEW m \in 0..Len(q), n <= m
  PROVE  IsPrefix(SubSeq(q, 1, n), SubSeq(q, 1, m))
<1>1. Len(q) \in Nat /\ n \in Nat /\ m \in Nat
  OBVIOUS
<1>2. SubSeq(SubSeq(q, 1, m), 1, n) = SubSeq(q, 1, n)
  <2>1. /\ SubSeq(q, 1, m) \in Seq(S) /\ Len(SubSeq(q, 1, m)) = m
        /\ \A i \in 1..m : SubSeq(q, 1, m)[i] = q[i]
    BY <1>1
  <2> DEFINE long == SubSeq(q, 1, m)
  <2> HIDE DEF long
  <2>2. /\ SubSeq(long, 1, n) \in Seq(S) /\ Len(SubSeq(long, 1, n)) = n
        /\ \A i \in 1..n : SubSeq(long, 1, n)[i] = q[i]
    BY <1>1, <2>1 DEF long
  <2>3. /\ SubSeq(q, 1, n) \in Seq(S) /\ Len(SubSeq(q, 1, n)) = n
        /\ \A i \in 1..n : SubSeq(q, 1, n)[i] = q[i]
    BY <1>1
  <2>4. SubSeq(long, 1, n) = SubSeq(q, 1, n)
    BY <2>2, <2>3, SeqEqual
  <2> QED BY <2>4 DEF long
<1>3. SubSeq(SubSeq(q, 1, n), 1, n) = SubSeq(q, 1, n)
  <2>1. SubSeq(q, 1, n) \in Seq(S) /\ Len(SubSeq(q, 1, n)) = n
    BY <1>1
  <2> DEFINE short == SubSeq(q, 1, n)
  <2> HIDE DEF short
  <2>2. SubSeq(short, 1, n) = short
    BY <1>1, <2>1, SubSeqFull DEF short
  <2> QED BY <2>2 DEF short
<1>4. Len(SubSeq(q, 1, n)) = n /\ Len(SubSeq(q, 1, m)) = m
  BY <1>1
<1> DEFINE short == SubSeq(q, 1, n)
           long  == SubSeq(q, 1, m)
<1>5. /\ Len(short) = n /\ Len(long) = m /\ n <= m
      /\ SubSeq(short, 1, n) = SubSeq(long, 1, n)
  BY <1>2, <1>3, <1>4
<1> HIDE DEF short, long
<1>6. IsPrefix(short, long)
  BY <1>5 DEF IsPrefix
<1> QED BY <1>6 DEF short, long

(* Two searches that spell the same keys agree, whatever limits they ask   *)
(* for.                                                                    *)
THEOREM SearchesDoAgree == Spec => SearchesAgree
<1>1. ASSUME WalkInv, AnswerInv, [Next]_vars, AnswerInv', answer # None, answer' # None,
             Spelled(answer'.name) = Spelled(answer.name),
             ~answer.cancelled, ~answer'.cancelled
      PROVE  /\ answer'.total = answer.total
             /\ \/ IsPrefix(answer.results, answer'.results)
                \/ IsPrefix(answer'.results, answer.results)
  <2>1. graph' = graph /\ graph \in Graphs
    BY <1>1 DEF Next, vars, Search, SearchCancelled, BeginWalk, NextPage, ReadPerson,
       ReadLinks, FetchTable, FetchCancelled, Fail, Forget, WalkInv
  <2> DEFINE P == CandidatesIn(graph, answer.name)
  <2>2. PICK order \in Rankings(graph, P), n \in Nat :
          /\ answer.total = Len(order) /\ n \in 0..Len(order)
          /\ answer.results = SubSeq(order, 1, n)
    BY <1>1 DEF AnswerInv
  <2>3. answer.name \in Names /\ answer'.name \in Names
    BY <1>1 DEF AnswerInv
  <2>4. Candidates(answer'.name) = Candidates(answer.name)
    BY <1>1, <2>1, <2>3, SameCandidates
  <2>5. CandidatesIn(graph, answer'.name) = P
    BY <2>4, CandidatesIs
  <2>6. PICK other \in Rankings(graph, P), m \in Nat :
          /\ answer'.total = Len(other) /\ m \in 0..Len(other)
          /\ answer'.results = SubSeq(other, 1, m)
    BY <1>1, <2>1, <2>5 DEF AnswerInv
  <2>7. P \subseteq graph.people
    BY <2>1, <2>3, CandidatesAre, CandidatesIs
  <2> HIDE DEF P
  <2>8. other = order /\ order \in Seq(graph.people)
    BY <2>1, <2>2, <2>6, <2>7, RankingUnique, RankingIs
  <2>9. n <= m \/ m <= n
    OBVIOUS
  <2>10. \/ IsPrefix(SubSeq(order, 1, n), SubSeq(order, 1, m))
         \/ IsPrefix(SubSeq(order, 1, m), SubSeq(order, 1, n))
    BY <2>2, <2>6, <2>8, <2>9, PrefixOfLonger
  <2> QED BY <2>2, <2>6, <2>8, <2>10
<1>2. WalkInv /\ AnswerInv /\ [Next]_vars /\ AnswerInv' =>
        [answer # None /\ answer' # None /\ Spelled(answer'.name) = Spelled(answer.name)
           /\ ~answer.cancelled /\ ~answer'.cancelled =>
         /\ answer'.total = answer.total
         /\ \/ IsPrefix(answer.results, answer'.results)
            \/ IsPrefix(answer'.results, answer.results)]_answer
  BY <1>1
<1> QED BY <1>2, AnswerInvAlways, PTL DEF Spec, SearchesAgree

(* Every variable holds values of its type, and a traversal holds no row   *)
(* twice.                                                                  *)
THEOREM TypeCorrect == Spec => []TypeOK
<1>1. ASSUME WalkInv, AnswerInv PROVE TypeOK
  <2>1. stage = "rows" => todo # <<>> /\ fetched \in Seq(graph.rows) /\ IsInjective(fetched)
    <3> SUFFICES ASSUME stage = "rows"
                 PROVE  todo # <<>> /\ fetched \in Seq(graph.rows) /\ IsInjective(fetched)
      OBVIOUS
    <3>1. PICK T \in Plans(graph, walk.hal), n \in Nat :
            /\ n < Len(T) /\ todo = SubSeq(T, n + 1, Len(T))
            /\ Gathered(graph, T, n, fetched)
      BY <1>1 DEF WalkInv, FetchInv
    <3>2. todo # <<>>
      BY <1>1, <3>1, PlanRest DEF WalkInv
    <3> QED BY <3>1, <3>2 DEF Gathered, IsInjective
  <2>2. <<>> \in Seq(graph.rows) /\ IsInjective(<<>>)
    BY DEF IsInjective
  <2> QED BY <1>1, <2>1, <2>2 DEF TypeOK, WalkInv, WalkOK, PageInv, AnswerInv
<1> QED BY <1>1, AnswerInvAlways, PTL
=============================================================================
