-------------------------- MODULE PersonIndexProofs --------------------------
(***************************************************************************)
(* That the union-find of PersonIndex finds the persons it is to find, for *)
(* any sequence of rows: its forest stays one under compression and union  *)
(* by rank, its trees are the groups of rows that keys join, and a number  *)
(* is handed out to each in the order of its first row.                    *)
(***************************************************************************)
EXTENDS PersonIndex, SortedSequences

------------------------------------------------------------------------------
(* The union-find. A forest is a parent of each of the nodes 1..n, of a    *)
(* greater rank unless it is the node itself; its ranks end somewhere.     *)

Forest(parent, rank, n) ==
  /\ parent \in [1..n -> 1..n] /\ rank \in [1..n -> Nat]
  /\ \A x \in 1..n : parent[x] # x => rank[x] < rank[parent[x]]
  /\ \E most \in Nat : \A x \in 1..n : rank[x] <= most

(* What holds of a node when it holds of its parent holds of every node.   *)
LEMMA UpTheForest ==
  ASSUME NEW n \in Nat, NEW parent, NEW rank, Forest(parent, rank, n),
         NEW S, \A x \in 1..n : parent[x] = x \/ parent[x] \in S => x \in S
  PROVE  1..n \subseteq S
<1>1. PICK most \in Nat : \A x \in 1..n : rank[x] <= most
  BY DEF Forest
<1>2. /\ parent \in [1..n -> 1..n] /\ rank \in [1..n -> Nat]
      /\ \A x \in 1..n : parent[x] # x => rank[x] < rank[parent[x]]
  BY DEF Forest
<1> DEFINE bad == {x \in 1..n : x \notin S}
           gaps == {most - rank[x] : x \in bad}
<1>3. SUFFICES ASSUME bad # {} PROVE FALSE
  OBVIOUS
<1>4. gaps \subseteq Nat /\ gaps # {}
  <2>1. \A x \in bad : most - rank[x] \in Nat
    <3> SUFFICES ASSUME NEW x \in 1..n PROVE most - rank[x] \in Nat
      OBVIOUS
    <3>1. rank[x] \in Nat /\ rank[x] <= most
      BY <1>1, <1>2
    <3> QED BY <3>1
  <2> HIDE DEF bad
  <2> QED BY <1>3, <2>1
<1>5. PICK g \in gaps : \A h \in gaps : g <= h
  <2> HIDE DEF gaps
  <2> QED BY <1>4, LeastNatural
<1>6. PICK x \in bad : g = most - rank[x]
  OBVIOUS
<1>7. parent[x] # x /\ parent[x] \in bad /\ rank[x] < rank[parent[x]]
  BY <1>2
<1>8. most - rank[parent[x]] \in gaps
  BY <1>7
<1>9. rank[x] \in Nat /\ rank[parent[x]] \in Nat
  BY <1>2, <1>7
<1> QED BY <1>5, <1>6, <1>7, <1>8, <1>9

Up(parent) ==
  CHOOSE up : up = [y \in DOMAIN parent |->
                      IF parent[y] = y THEN {y} ELSE {y} \cup up[parent[y]]]

(* The nodes above x, as the least set with x that is closed under parent. *)
Above(parent, x) ==
  {z \in DOMAIN parent :
     \A Q \in SUBSET DOMAIN parent :
       x \in Q /\ (\A w \in Q : parent[w] \in Q) => z \in Q}

LEMMA AboveStep ==
  ASSUME NEW D, NEW parent \in [D -> D], NEW x \in D
  PROVE  Above(parent, x) = {x} \cup Above(parent, parent[x])
<1>1. DOMAIN parent = D /\ parent[x] \in D
  OBVIOUS
<1>2. ASSUME NEW z \in Above(parent, parent[x]) PROVE z \in Above(parent, x)
  BY <1>1 DEF Above
<1>3. x \in Above(parent, x)
  BY DEF Above
<1>4. ASSUME NEW z \in Above(parent, x) PROVE z \in {x} \cup Above(parent, parent[x])
  <2> DEFINE Q == {x} \cup Above(parent, parent[x])
  <2>1. parent[x] \in Above(parent, parent[x])
    BY <1>1 DEF Above
  <2>2. ASSUME NEW w \in Above(parent, parent[x])
        PROVE  parent[w] \in Above(parent, parent[x])
    BY <1>1 DEF Above
  <2>3. Q \in SUBSET D /\ \A w \in Q : parent[w] \in Q
    BY <1>1, <2>1, <2>2 DEF Above
  <2> QED BY <1>1, <2>3 DEF Above
<1> QED BY <1>2, <1>3, <1>4

LEMMA PathStep ==
  ASSUME NEW D, NEW parent \in [D -> D], NEW x \in D
  PROVE  PathFrom(parent, x) =
           IF parent[x] = x THEN {x} ELSE {x} \cup PathFrom(parent, parent[x])
<1> DEFINE up == Up(parent)
           g  == [y \in D |-> Above(parent, y)]
           step(f) == [y \in DOMAIN parent |->
                         IF parent[y] = y THEN {y} ELSE {y} \cup f[parent[y]]]
<1>1. g = step(g)
  <2>1. ASSUME NEW y \in D
        PROVE  g[y] = IF parent[y] = y THEN {y} ELSE {y} \cup g[parent[y]]
    <3>1. CASE parent[y] # y
      BY <3>1, AboveStep
    <3>2. CASE parent[y] = y
      <4>1. {y} \in SUBSET DOMAIN parent /\ \A w \in {y} : parent[w] \in {y}
        BY <3>2
      <4> QED BY <3>2, <4>1, AboveStep DEF Above
    <3> QED BY <3>1, <3>2
  <2> QED BY <2>1
<1>2. up = step(up)
  <2> HIDE DEF g
  <2> QED BY <1>1 DEF Up
<1>3. PathFrom(parent, x) = up[x] /\ PathFrom(parent, parent[x]) = up[parent[x]]
  BY DEF PathFrom, Up
<1> HIDE DEF up
<1> QED BY <1>2, <1>3

LEMMA RootStep ==
  ASSUME NEW n \in Nat, NEW parent, NEW rank, Forest(parent, rank, n), NEW x \in 1..n
  PROVE  /\ Root(parent, x) \in 1..n /\ Root(parent, x) \in PathFrom(parent, x)
         /\ parent[Root(parent, x)] = Root(parent, x)
         /\ parent[x] = x => Root(parent, x) = x
         /\ Root(parent, parent[x]) = Root(parent, x)
<1>1. parent \in [1..n -> 1..n]
  BY DEF Forest
<1>2. ASSUME NEW y \in 1..n
      PROVE  PathFrom(parent, y) =
               IF parent[y] = y THEN {y} ELSE {y} \cup PathFrom(parent, parent[y])
  BY <1>1, PathStep, SMTT(90)
<1> DEFINE path(y) == PathFrom(parent, y)
           tops(y) == {r \in path(y) : parent[r] = r}
           good == {y \in 1..n : path(y) \subseteq 1..n /\ \E r \in path(y) : tops(y) = {r}}
<1>3. ASSUME NEW y \in 1..n, parent[y] # y PROVE tops(y) = tops(parent[y])
  BY <1>2, <1>3
<1>4. ASSUME NEW y \in 1..n, parent[y] = y PROVE tops(y) = {y} /\ path(y) = {y}
  BY <1>2, <1>4
<1>5. ASSUME NEW y \in 1..n, parent[y] = y \/ parent[y] \in good PROVE y \in good
  <2>1. CASE parent[y] = y
    BY <1>4, <2>1
  <2>2. CASE parent[y] # y /\ parent[y] \in good
    BY <1>2, <1>3, <2>2
  <2> QED BY <1>5, <2>1, <2>2
<1>6. 1..n \subseteq good
  <2> HIDE DEF good
  <2> QED BY <1>5, UpTheForest
<1>7. ASSUME NEW y \in 1..n
      PROVE  Root(parent, y) \in path(y) /\ tops(y) = {Root(parent, y)} /\ path(y) \subseteq 1..n
  <2>1. y \in good
    BY <1>6
  <2>2. PICK r \in path(y) : tops(y) = {r}
    BY <2>1
  <2>3. Root(parent, y) = r
    BY <2>2 DEF Root
  <2> QED BY <2>1, <2>2, <2>3
<1>8. parent[x] \in 1..n
  BY <1>1
<1>9. parent[x] = x => Root(parent, x) = x
  BY <1>4, <1>7
<1>10. Root(parent, parent[x]) = Root(parent, x)
  BY <1>3, <1>7, <1>8
<1> HIDE DEF path
<1> QED BY <1>7, <1>9, <1>10 DEF path

(* The root is the one thing that all nodes of a path agree on.            *)
LEMMA RootUnique ==
  ASSUME NEW n \in Nat, NEW parent, NEW rank, Forest(parent, rank, n),
         NEW R, \A x \in 1..n : parent[x] = x => R[x] = x,
         \A x \in 1..n : R[parent[x]] = R[x]
  PROVE  \A x \in 1..n : Root(parent, x) = R[x]
<1> DEFINE good == {x \in 1..n : Root(parent, x) = R[x]}
<1>1. ASSUME NEW x \in 1..n, parent[x] = x \/ parent[x] \in good PROVE x \in good
  <2>1. CASE parent[x] = x
    BY <2>1, RootStep
  <2>2. CASE parent[x] \in good
    BY <2>2, RootStep
  <2> QED BY <1>1, <2>1, <2>2
<1>2. 1..n \subseteq good
  <2> HIDE DEF good
  <2> QED BY <1>1, UpTheForest
<1> QED BY <1>2

LEMMA PathToRoot ==
  ASSUME NEW n \in Nat, NEW parent, NEW rank, Forest(parent, rank, n), NEW x \in 1..n
  PROVE  /\ x \in PathFrom(parent, x) /\ PathFrom(parent, x) \subseteq 1..n
         /\ \A y \in PathFrom(parent, x) : Root(parent, y) = Root(parent, x)
         /\ x # Root(parent, x) => rank[x] < rank[Root(parent, x)]
<1> DEFINE good == {y \in 1..n : /\ y \in PathFrom(parent, y) /\ PathFrom(parent, y) \subseteq 1..n
                                 /\ \A z \in PathFrom(parent, y) :
                                      Root(parent, z) = Root(parent, y)
                                 /\ y # Root(parent, y) => rank[y] < rank[Root(parent, y)]}
<1>1. /\ parent \in [1..n -> 1..n] /\ rank \in [1..n -> Nat]
      /\ \A y \in 1..n : parent[y] # y => rank[y] < rank[parent[y]]
  BY DEF Forest
<1>2. ASSUME NEW y \in 1..n, parent[y] = y \/ parent[y] \in good PROVE y \in good
  <2>1. PathFrom(parent, y) =
          IF parent[y] = y THEN {y} ELSE {y} \cup PathFrom(parent, parent[y])
    BY <1>1, PathStep, SMTT(30)
  <2>2. CASE parent[y] = y
    BY <2>1, <2>2, RootStep
  <2>3. CASE parent[y] # y /\ parent[y] \in good
    <3>1. Root(parent, parent[y]) = Root(parent, y) /\ Root(parent, y) \in 1..n
      BY RootStep
    <3>2. rank[y] < rank[parent[y]] /\ rank[y] \in Nat /\ rank[parent[y]] \in Nat
            /\ rank[Root(parent, y)] \in Nat
      BY <1>1, <2>3, <3>1
    <3>3. rank[y] < rank[Root(parent, y)]
      BY <2>3, <3>1, <3>2
    <3> QED BY <2>1, <2>3, <3>1, <3>3
  <2> QED BY <1>2, <2>2, <2>3
<1>3. 1..n \subseteq good
  <2> HIDE DEF good
  <2> QED BY <1>2, UpTheForest
<1> QED BY <1>3

(* Path compression changes no root.                                       *)
LEMMA CompressedForest ==
  ASSUME NEW n \in Nat, NEW parent, NEW rank, Forest(parent, rank, n), NEW x \in 1..n
  PROVE  /\ Forest(Compressed(parent, x), rank, n)
         /\ \A y \in 1..n : Root(Compressed(parent, x), y) = Root(parent, y)
<1> DEFINE new == Compressed(parent, x)
           r   == Root(parent, x)
           R   == [y \in 1..n |-> Root(parent, y)]
<1>1. /\ parent \in [1..n -> 1..n] /\ rank \in [1..n -> Nat] /\ DOMAIN parent = 1..n
      /\ \A y \in 1..n : parent[y] # y => rank[y] < rank[parent[y]]
      /\ \E most \in Nat : \A y \in 1..n : rank[y] <= most
  BY DEF Forest
<1>2. r \in 1..n /\ parent[r] = r /\ Root(parent, r) = r
  BY RootStep
<1>3. \A y \in 1..n : Root(parent, y) \in 1..n /\ Root(parent, parent[y]) = Root(parent, y)
                      /\ (parent[y] = y => Root(parent, y) = y)
  BY RootStep
<1>4. \A y \in PathFrom(parent, x) : Root(parent, y) = r
  BY PathToRoot
<1>5. \A y \in 1..n : new[y] = IF y \in PathFrom(parent, x) THEN r ELSE parent[y]
  BY <1>1 DEF Compressed
<1>6. new \in [1..n -> 1..n]
  BY <1>1, <1>2 DEF Compressed
<1> HIDE DEF new, r
<1>7. ASSUME NEW y \in 1..n, new[y] # y PROVE rank[y] < rank[new[y]]
  <2>1. CASE y \in PathFrom(parent, x)
    BY <1>4, <1>5, <1>7, <2>1, PathToRoot
  <2>2. CASE y \notin PathFrom(parent, x)
    BY <1>1, <1>5, <1>7, <2>2
  <2> QED BY <2>1, <2>2
<1>8. Forest(new, rank, n)
  BY <1>1, <1>6, <1>7 DEF Forest
<1>9. \A y \in 1..n : new[y] = y => R[y] = y
  BY <1>3, <1>4, <1>5
<1>10. \A y \in 1..n : R[new[y]] = R[y]
  BY <1>1, <1>2, <1>3, <1>4, <1>5, <1>6
<1> HIDE DEF R
<1>11. \A y \in 1..n : Root(new, y) = R[y]
  BY <1>8, <1>9, <1>10, RootUnique
<1> QED BY <1>8, <1>11 DEF new, R

(* A union joins the trees of its two nodes, and leaves the others.        *)
Joins(old, new, n, a, b) ==
  /\ new = [parent |-> new.parent, rank |-> new.rank, blocks |-> old.blocks]
  /\ Forest(new.parent, new.rank, n)
  /\ \A x, y \in 1..n :
       LET root(z) == Root(old.parent, z)
       IN  Root(new.parent, x) = Root(new.parent, y) <=>
             \/ root(x) = root(y)
             \/ root(x) = root(a) /\ root(y) = root(b)
             \/ root(x) = root(b) /\ root(y) = root(a)

LEMMA UnionForest ==
  ASSUME NEW n \in Nat, NEW index, Forest(index.parent, index.rank, n),
         NEW a \in 1..n, NEW b \in 1..n,
         index = [parent |-> index.parent, rank |-> index.rank, blocks |-> index.blocks]
  PROVE  Joins(index, Union(index, a, b), n, a, b)
<1> DEFINE parent == Compressed(Compressed(index.parent, a), b)
           rank   == index.rank
           old(x) == Root(index.parent, x)
           ra     == Root(parent, a)
           rb     == Root(parent, b)
           top    == IF rank[ra] < rank[rb] THEN rb ELSE ra
           other  == IF top = ra THEN rb ELSE ra
           new    == Union(index, a, b)
<1>1. Forest(parent, rank, n) /\ \A x \in 1..n : Root(parent, x) = old(x)
  BY CompressedForest
<1>2. new = IF ra = rb
            THEN [index EXCEPT !.parent = parent]
            ELSE [index EXCEPT
                    !.parent = [y \in DOMAIN @ |-> IF y = other THEN top ELSE parent[y]],
                    !.rank[top] = IF rank[ra] = rank[rb] THEN @ + 1 ELSE @]
  BY DEF Union
<1>3. DOMAIN index.parent = 1..n /\ rank \in [1..n -> Nat]
  BY DEF Forest
<1>4. ra = old(a) /\ rb = old(b)
  BY <1>1
<1> HIDE DEF parent, new
<1>5. CASE ra = rb
  <2>1. new = [parent |-> parent, rank |-> rank, blocks |-> index.blocks]
    BY <1>2, <1>5
  <2> QED BY <1>1, <1>4, <1>5, <2>1 DEF new, Joins
<1>6. CASE ra # rb
  <2> DEFINE P == [y \in 1..n |-> IF y = other THEN top ELSE parent[y]]
             K == [rank EXCEPT ![top] = IF rank[ra] = rank[rb] THEN @ + 1 ELSE @]
             R == [y \in 1..n |-> IF Root(parent, y) = other THEN top ELSE Root(parent, y)]
  <2>1. new = [parent |-> P, rank |-> K, blocks |-> index.blocks]
    BY <1>2, <1>3, <1>6
  <2>2. /\ parent \in [1..n -> 1..n]
        /\ \A y \in 1..n : parent[y] # y => rank[y] < rank[parent[y]]
    BY <1>1 DEF Forest
  <2>3. /\ ra \in 1..n /\ rb \in 1..n /\ parent[ra] = ra /\ parent[rb] = rb
        /\ Root(parent, ra) = ra /\ Root(parent, rb) = rb
    BY <1>1, RootStep
  <2>4. /\ {top, other} = {ra, rb} /\ top # other /\ top \in 1..n /\ other \in 1..n
        /\ parent[top] = top /\ parent[other] = other
        /\ Root(parent, top) = top /\ Root(parent, other) = other
    BY <1>6, <2>3
  <2>5. rank[other] <= rank[top] /\ (rank[other] = rank[top] <=> rank[ra] = rank[rb])
    BY <1>3, <1>6, <2>3
  <2> HIDE DEF top, other
  <2>6. P \in [1..n -> 1..n] /\ K \in [1..n -> Nat]
    BY <1>3, <2>2, <2>4
  <2>7. /\ \A y \in 1..n : rank[y] <= K[y] /\ (y # top => K[y] = rank[y])
        /\ rank[other] < K[top]
    BY <1>3, <2>4, <2>5
  <2>8. ASSUME NEW y \in 1..n, P[y] # y PROVE K[y] < K[P[y]]
    <3>1. CASE y = other
      BY <2>4, <2>7, <3>1
    <3>2. CASE y # other
      <4>1. P[y] = parent[y] /\ y # top /\ parent[y] \in 1..n
        BY <2>2, <2>4, <2>8, <3>2
      <4>2. rank[y] < rank[parent[y]] /\ K[y] = rank[y] /\ rank[parent[y]] <= K[parent[y]]
        BY <2>2, <2>7, <2>8, <4>1
      <4>3. rank[y] \in Nat /\ rank[parent[y]] \in Nat /\ K[parent[y]] \in Nat
        BY <1>3, <2>6, <4>1
      <4> HIDE DEF P, K
      <4> QED BY <4>1, <4>2, <4>3
    <3> QED BY <3>1, <3>2
  <2>9. \E most \in Nat : \A y \in 1..n : K[y] <= most
    <3>1. PICK most \in Nat : \A y \in 1..n : rank[y] <= most
      BY <1>1 DEF Forest
    <3>2. \A y \in 1..n : K[y] <= most + 1
      BY <1>3, <2>4, <3>1
    <3>3. most + 1 \in Nat
      OBVIOUS
    <3> HIDE DEF K
    <3> QED BY <3>2, <3>3
  <2>10. Forest(P, K, n)
    <3> HIDE DEF P, K
    <3> QED BY <2>6, <2>8, <2>9 DEF Forest
  <2>11. \A y \in 1..n : /\ Root(parent, y) \in 1..n
                         /\ Root(parent, parent[y]) = Root(parent, y)
                         /\ (parent[y] = y => Root(parent, y) = y)
    BY <1>1, RootStep
  <2>12. \A y \in 1..n : P[y] = y => R[y] = y
    BY <2>4, <2>11
  <2>13. \A y \in 1..n : R[P[y]] = R[y]
    BY <2>2, <2>4, <2>11
  <2>14. \A y \in 1..n : R[y] = IF old(y) = other THEN top ELSE old(y)
    BY <1>1
  <2> HIDE DEF R, P, K
  <2>15. \A y \in 1..n : Root(P, y) = R[y]
    BY <2>10, <2>12, <2>13, RootUnique
  <2> HIDE DEF old
  <2>16. \A x, y \in 1..n :
           Root(P, x) = Root(P, y) <=>
             \/ old(x) = old(y)
             \/ old(x) = old(a) /\ old(y) = old(b)
             \/ old(x) = old(b) /\ old(y) = old(a)
    BY <1>4, <2>4, <2>14, <2>15
  <2> QED BY <2>1, <2>10, <2>16 DEF new, old, Joins
<1> QED BY <1>5, <1>6

------------------------------------------------------------------------------
(* The index of a sequence of rows, of the last of which the keys in left  *)
(* are not yet blocked. Every known key has an anchor, a row that has the  *)
(* key and is in one tree with all the others that do, and no tree falls   *)
(* into two groups of rows that share no key.                              *)

KnownKeys(row) == {key \in ToSet(Keys(row)) : Known(key)}

Blocked(rows, left, i) ==
  IF i = Len(rows) THEN KnownKeys(rows[i]) \ left ELSE KnownKeys(rows[i])

Anchored(index, rows, left) ==
  /\ \A key \in DOMAIN index.blocks :
       index.blocks[key] \in {i \in 1..Len(rows) : key \in KnownKeys(rows[i])}
  /\ \A i \in 1..Len(rows) : \A key \in Blocked(rows, left, i) :
       /\ key \in DOMAIN index.blocks
       /\ Root(index.parent, index.blocks[key]) = Root(index.parent, i)

Tree(parent, n, i) == {j \in 1..n : Root(parent, j) = Root(parent, i)}

Whole(rows, S) ==
  \A group \in SUBSET S : group # {} /\ group # S =>
    \E j \in group, k \in S \ group : Shares(rows, j, k)

Indexed(index, rows, left) ==
  /\ index = [parent |-> index.parent, rank |-> index.rank, blocks |-> index.blocks]
  /\ Forest(index.parent, index.rank, Len(rows))
  /\ Anchored(index, rows, left)
  /\ \A i \in 1..Len(rows) : Whole(rows, Tree(index.parent, Len(rows), i))

LEMMA SharesKnown ==
  ASSUME NEW rows, NEW i, NEW j
  PROVE  /\ Shares(rows, i, j) <=> KnownKeys(rows[i]) \cap KnownKeys(rows[j]) # {}
         /\ Shares(rows, i, j) <=> Shares(rows, j, i)
BY DEF Shares, KnownKeys

(* Two such sets, and a key shared across them, make one.                  *)
LEMMA JoinedWhole ==
  ASSUME NEW rows, NEW S, NEW T, Whole(rows, S), Whole(rows, T),
         NEW a \in S, NEW b \in T, Shares(rows, a, b)
  PROVE  Whole(rows, S \cup T)
<1> SUFFICES ASSUME NEW group \in SUBSET (S \cup T), group # {}, group # S \cup T
             PROVE  \E j \in group, k \in (S \cup T) \ group : Shares(rows, j, k)
  BY DEF Whole
<1>1. CASE group \cap S # {} /\ group \cap S # S
  <2>1. \E j \in group \cap S, k \in S \ (group \cap S) : Shares(rows, j, k)
    BY <1>1 DEF Whole
  <2> QED BY <2>1
<1>2. CASE group \cap T # {} /\ group \cap T # T
  <2>1. \E j \in group \cap T, k \in T \ (group \cap T) : Shares(rows, j, k)
    BY <1>2 DEF Whole
  <2> QED BY <2>1
<1>3. CASE group \cap S = S /\ group \cap T = {}
  <2>1. a \in group /\ b \in (S \cup T) \ group
    BY <1>3
  <2> QED BY <2>1
<1>4. CASE group \cap S = {} /\ group \cap T = T
  <2>1. b \in group /\ a \in (S \cup T) \ group
    BY <1>4
  <2> QED BY <2>1, SharesKnown
<1> QED BY <1>1, <1>2, <1>3, <1>4

LEMMA BlockStep ==
  ASSUME NEW S, NEW rows \in Seq(S), rows # <<>>, NEW index, NEW left,
         Indexed(index, rows, left),
         NEW key \in ToSet(Keys(rows[Len(rows)]))
  PROVE  Indexed(Block(index, Len(rows), key), rows, left \ {key})
<1> DEFINE n   == Len(rows)
           new == Block(index, n, key)
           old(x) == Root(index.parent, x)
<1>1. n \in Nat /\ n \in 1..n
  BY EmptySeq, LenProperties
<1>2. /\ index = [parent |-> index.parent, rank |-> index.rank, blocks |-> index.blocks]
      /\ Forest(index.parent, index.rank, n) /\ Anchored(index, rows, left)
      /\ \A i \in 1..n : Whole(rows, Tree(index.parent, n, i))
  BY DEF Indexed
<1>3. Known(key) => key \in KnownKeys(rows[n])
  BY DEF KnownKeys
<1>4. ~Known(key) => \A i : key \notin KnownKeys(rows[i])
  BY DEF KnownKeys
<1>5. \A i : i # n => Blocked(rows, left, i) = KnownKeys(rows[i])
                      /\ Blocked(rows, left \ {key}, i) = KnownKeys(rows[i])
  BY DEF Blocked
<1>6. /\ Blocked(rows, left \ {key}, n) \subseteq Blocked(rows, left, n) \cup {key}
      /\ key \in Blocked(rows, left \ {key}, n) => Known(key)
      /\ Blocked(rows, left, n) \subseteq KnownKeys(rows[n])
  BY DEF Blocked, KnownKeys
<1>7. \A i \in 1..n : Blocked(rows, left, i) \subseteq KnownKeys(rows[i])
  BY <1>5, <1>6
<1>8. CASE ~Known(key)
  <2>1. new = index
    BY <1>8 DEF Block
  <2>2. \A i \in 1..n : Blocked(rows, left \ {key}, i) \subseteq Blocked(rows, left, i)
    BY <1>5, <1>6, <1>8
  <2>3. Anchored(index, rows, left \ {key})
    BY <1>2, <2>2 DEF Anchored
  <2> QED BY <1>2, <2>1, <2>3 DEF Indexed
<1>9. CASE Known(key) /\ key \notin DOMAIN index.blocks
  <2> DEFINE blocks == [k \in DOMAIN index.blocks \cup {key} |->
                          IF k = key THEN n ELSE index.blocks[k]]
  <2>1. new = [parent |-> index.parent, rank |-> index.rank, blocks |-> blocks]
    BY <1>2, <1>9 DEF Block
  <2>2. /\ DOMAIN blocks = DOMAIN index.blocks \cup {key} /\ blocks[key] = n
        /\ \A k \in DOMAIN index.blocks : blocks[k] = index.blocks[k]
    BY <1>9
  <2> HIDE DEF blocks, new
  <2>3. \A k \in DOMAIN blocks :
          blocks[k] \in {i \in 1..n : k \in KnownKeys(rows[i])}
    BY <1>1, <1>2, <1>3, <1>9, <2>2 DEF Anchored
  <2>4. ASSUME NEW i \in 1..n, NEW k \in Blocked(rows, left \ {key}, i)
        PROVE  k \in DOMAIN blocks /\ old(blocks[k]) = old(i)
    <3>1. CASE k = key
      <4>1. i = n
        <5> SUFFICES ASSUME i # n PROVE FALSE
          OBVIOUS
        <5>1. key \in Blocked(rows, left, i)
          BY <1>5, <2>4, <3>1
        <5> QED BY <1>2, <1>9, <5>1 DEF Anchored
      <4> QED BY <2>2, <3>1, <4>1
    <3>2. CASE k # key
      <4>1. k \in Blocked(rows, left, i)
        BY <1>5, <1>6, <2>4, <3>2
      <4> QED BY <1>2, <2>2, <4>1 DEF Anchored
    <3> QED BY <3>1, <3>2
  <2>5. Anchored(new, rows, left \ {key})
    BY <2>1, <2>3, <2>4 DEF Anchored
  <2>6. new.parent = index.parent /\ new.rank = index.rank
          /\ new = [parent |-> new.parent, rank |-> new.rank, blocks |-> new.blocks]
    BY <2>1
  <2> QED BY <1>2, <2>5, <2>6 DEF Indexed, new
<1>10. CASE Known(key) /\ key \in DOMAIN index.blocks
  <2> DEFINE b == index.blocks[key]
  <2>1. b \in 1..n /\ key \in KnownKeys(rows[b])
    BY <1>2, <1>10 DEF Anchored
  <2>2. new = Union(index, n, b)
    BY <1>10 DEF Block
  <2>3. /\ new = [parent |-> new.parent, rank |-> new.rank, blocks |-> index.blocks]
        /\ Forest(new.parent, new.rank, n)
        /\ \A x, y \in 1..n :
             Root(new.parent, x) = Root(new.parent, y) <=>
               \/ old(x) = old(y)
               \/ old(x) = old(n) /\ old(y) = old(b)
               \/ old(x) = old(b) /\ old(y) = old(n)
    <3>1. Joins(index, Union(index, n, b), n, n, b)
      BY <1>1, <1>2, <2>1, UnionForest
    <3> HIDE DEF b, new
    <3> QED BY <2>2, <3>1 DEF Joins
  <2> DEFINE root(x) == Root(new.parent, x)
  <2>4. new.blocks = index.blocks
    BY <2>3
  <2> HIDE DEF new
  <2>5. ASSUME NEW i \in 1..n, NEW k \in Blocked(rows, left \ {key}, i)
        PROVE  k \in DOMAIN index.blocks /\ root(index.blocks[k]) = root(i)
    <3>1. CASE k \in Blocked(rows, left, i)
      <4>1. k \in DOMAIN index.blocks /\ old(index.blocks[k]) = old(i)
              /\ index.blocks[k] \in 1..n
        BY <1>2, <3>1 DEF Anchored
      <4> QED BY <2>3, <4>1
    <3>2. CASE k \notin Blocked(rows, left, i)
      <4>1. i = n /\ k = key
        BY <1>5, <1>6, <2>5, <3>2
      <4> QED BY <1>10, <2>1, <2>3, <4>1
    <3> QED BY <3>1, <3>2
  <2>6. Anchored(new, rows, left \ {key})
    BY <1>2, <2>4, <2>5 DEF Anchored
  <2>7. Shares(rows, n, b)
    BY <1>3, <1>10, <2>1, SharesKnown
  <2>8. ASSUME NEW i \in 1..n PROVE Whole(rows, Tree(new.parent, n, i))
    <3> DEFINE A == Tree(index.parent, n, n)
               B == Tree(index.parent, n, b)
    <3>1. CASE old(i) = old(n) \/ old(i) = old(b)
      <4>1. Tree(new.parent, n, i) = A \cup B
        BY <1>1, <2>1, <2>3, <3>1 DEF Tree
      <4>2. n \in A /\ b \in B
        BY <1>1, <2>1 DEF Tree
      <4>3. Whole(rows, A) /\ Whole(rows, B)
        BY <1>1, <1>2, <2>1
      <4> HIDE DEF A, B
      <4> QED BY <2>7, <4>1, <4>2, <4>3, JoinedWhole
    <3>2. CASE ~(old(i) = old(n) \/ old(i) = old(b))
      <4>1. Tree(new.parent, n, i) = Tree(index.parent, n, i)
        BY <1>1, <2>1, <2>3, <3>2 DEF Tree
      <4> QED BY <1>2, <4>1
    <3> QED BY <3>1, <3>2
  <2>9. new = [parent |-> new.parent, rank |-> new.rank, blocks |-> new.blocks]
    BY <2>3, <2>4
  <2> QED BY <2>3, <2>6, <2>8, <2>9 DEF Indexed, new
<1> QED BY <1>8, <1>9, <1>10

LEMMA TwoFields ==
  ASSUME NEW index, NEW P, NEW K,
         index = [parent |-> index.parent, rank |-> index.rank, blocks |-> index.blocks]
  PROVE  [index EXCEPT !.parent = P, !.rank = K]
           = [parent |-> P, rank |-> K, blocks |-> index.blocks]
<1> DEFINE new == [index EXCEPT !.parent = P, !.rank = K]
<1>1. new = [index EXCEPT !.parent = P, !.rank = K]
  OBVIOUS
<1> HIDE DEF new
<1>2. new.parent = P /\ new.rank = K /\ new.blocks = index.blocks
  BY <1>1
<1>3. new = [x \in {"parent", "rank", "blocks"} |-> new[x]]
  BY <1>1
<1>4. new = [parent |-> new.parent, rank |-> new.rank, blocks |-> new.blocks]
  BY <1>3
<1> QED BY <1>2, <1>4 DEF new

(* A row more: at first on its own, then its three keys are blocked.       *)
LEMMA AddStep ==
  ASSUME NEW S, NEW rows \in Seq(S), NEW row \in S, NEW index, Indexed(index, rows, {}),
         Len(index.parent) = Len(rows)
  PROVE  Indexed(Add(index, row), Append(rows, row), {})
<1> DEFINE n     == Len(rows)
           more  == Append(rows, row)
           alone == [index EXCEPT !.parent = Append(@, n + 1), !.rank = Append(@, 0)]
           keys  == Keys(row)
           P     == Append(index.parent, n + 1)
           K     == Append(index.rank, 0)
<1>1. /\ n \in Nat /\ more \in Seq(S) /\ Len(more) = n + 1 /\ more[n + 1] = row
      /\ \A i \in 1..n : more[i] = rows[i]
  BY AppendProperties, LenProperties
<1>2. /\ index = [parent |-> index.parent, rank |-> index.rank, blocks |-> index.blocks]
      /\ Forest(index.parent, index.rank, n) /\ Anchored(index, rows, {})
      /\ \A i \in 1..n : Whole(rows, Tree(index.parent, n, i))
  BY DEF Indexed
<1>3. index.parent \in [1..n -> 1..n] /\ index.rank \in [1..n -> Nat]
  BY <1>2 DEF Forest
<1>4. /\ P \in [1..(n + 1) -> 1..(n + 1)] /\ P[n + 1] = n + 1
      /\ \A x \in 1..n : P[x] = index.parent[x]
  <2>1. index.parent \in Seq(1..n) /\ Len(index.parent) = n
    BY <1>1, <1>3
  <2>2. index.parent \in Seq(Nat) /\ n + 1 \in Nat
    BY <1>1, <2>1
  <2>3. /\ P \in Seq(Nat) /\ Len(P) = n + 1 /\ P[n + 1] = n + 1
        /\ \A x \in 1..n : P[x] = index.parent[x]
    BY <2>1, <2>2, AppendProperties
  <2>4. \A x \in 1..(n + 1) : P[x] \in 1..(n + 1)
    BY <1>1, <1>3, <2>3, SMTT(30)
  <2>5. P = [x \in 1..(n + 1) |-> P[x]]
    BY <2>3
  <2> HIDE DEF P
  <2> QED BY <2>3, <2>4, <2>5
<1>5. /\ K \in [1..(n + 1) -> Nat] /\ K[n + 1] = 0
      /\ \A x \in 1..n : K[x] = index.rank[x]
  <2>1. index.rank \in Seq(Nat) /\ Len(index.rank) = n
    BY <1>1, <1>3
  <2>2. /\ K \in Seq(Nat) /\ Len(K) = n + 1 /\ K[n + 1] = 0
        /\ \A x \in 1..n : K[x] = index.rank[x]
    BY <2>1, AppendProperties
  <2> HIDE DEF K
  <2> QED BY <1>1, <2>2
<1>6. alone = [parent |-> P, rank |-> K, blocks |-> index.blocks]
  BY <1>2, TwoFields
<1> HIDE DEF P, K, alone, more
<1>7. \A x : x \in 1..(n + 1) <=> x \in 1..n \/ x = n + 1
  BY <1>1
<1>8. Forest(P, K, n + 1)
  <2>1. \A x \in 1..(n + 1) : P[x] # x => K[x] < K[P[x]]
    BY <1>2, <1>3, <1>4, <1>5, <1>7 DEF Forest
  <2>2. PICK most \in Nat : \A x \in 1..n : index.rank[x] <= most
    BY <1>2 DEF Forest
  <2>3. \A x \in 1..(n + 1) : K[x] <= most
    BY <1>5, <1>7, <2>2
  <2> QED BY <1>4, <1>5, <2>1, <2>2, <2>3 DEF Forest
<1>9. /\ \A x \in 1..n : Root(P, x) = Root(index.parent, x) /\ Root(P, x) \in 1..n
      /\ Root(P, n + 1) = n + 1
  <2> DEFINE R == [x \in 1..(n + 1) |-> IF x = n + 1 THEN n + 1 ELSE Root(index.parent, x)]
  <2>1. \A x \in 1..n : /\ Root(index.parent, x) \in 1..n
                         /\ Root(index.parent, index.parent[x]) = Root(index.parent, x)
                         /\ (index.parent[x] = x => Root(index.parent, x) = x)
    BY <1>1, <1>2, RootStep
  <2>2. \A x \in 1..n : x # n + 1 /\ x \in 1..(n + 1) /\ index.parent[x] \in 1..n
    BY <1>1, <1>3
  <2>3. /\ R[n + 1] = n + 1
        /\ \A x \in 1..n : R[x] = Root(index.parent, x)
    BY <1>7, <2>2
  <2> HIDE DEF R
  <2>4. \A x \in 1..(n + 1) : P[x] = x => R[x] = x
    BY <1>4, <1>7, <2>1, <2>3
  <2>5. \A x \in 1..(n + 1) : R[P[x]] = R[x]
    BY <1>4, <1>7, <2>1, <2>2, <2>3
  <2>6. n + 1 \in Nat
    BY <1>1
  <2>7. \A x \in 1..(n + 1) : Root(P, x) = R[x]
    BY <1>8, <2>4, <2>5, <2>6, RootUnique
  <2> QED BY <1>7, <2>1, <2>3, <2>7
<1>10. Anchored(alone, more, ToSet(keys))
  <2>1. \A i \in 1..n : i # n + 1
    BY <1>1
  <2>2. \A i \in 1..n : /\ Blocked(more, ToSet(keys), i) = KnownKeys(rows[i])
                         /\ Blocked(rows, {}, i) = KnownKeys(rows[i])
    BY <1>1, <2>1 DEF Blocked
  <2>3. Blocked(more, ToSet(keys), n + 1) = {}
    BY <1>1 DEF Blocked, KnownKeys
  <2>4. \A k \in DOMAIN index.blocks :
          index.blocks[k] \in {i \in 1..(n + 1) : k \in KnownKeys(more[i])}
    BY <1>1, <1>2, <1>7 DEF Anchored
  <2>5. ASSUME NEW i \in 1..(n + 1), NEW k \in Blocked(more, ToSet(keys), i)
        PROVE  k \in DOMAIN index.blocks /\ Root(P, index.blocks[k]) = Root(P, i)
    <3>1. i \in 1..n /\ k \in Blocked(rows, {}, i)
      BY <1>7, <2>2, <2>3, <2>5
    <3>2. /\ k \in DOMAIN index.blocks /\ index.blocks[k] \in 1..n
          /\ Root(index.parent, index.blocks[k]) = Root(index.parent, i)
      BY <1>2, <3>1 DEF Anchored
    <3> QED BY <1>9, <3>1, <3>2
  <2> QED BY <1>1, <1>6, <2>4, <2>5 DEF Anchored
<1>11. ASSUME NEW i \in 1..(n + 1) PROVE Whole(more, Tree(P, n + 1, i))
  <2>1. CASE i = n + 1
    <3>1. Tree(P, n + 1, i) = {i}
      BY <1>7, <1>9, <2>1 DEF Tree
    <3> QED BY <3>1 DEF Whole
  <2>2. CASE i \in 1..n
    <3>1. Tree(P, n + 1, i) = Tree(index.parent, n, i)
      BY <1>1, <1>7, <1>9, <2>2 DEF Tree
    <3>2. Whole(rows, Tree(index.parent, n, i)) /\ Tree(index.parent, n, i) \subseteq 1..n
      BY <1>2, <2>2 DEF Tree
    <3>3. \A j, k \in 1..n : Shares(more, j, k) <=> Shares(rows, j, k)
      BY <1>1 DEF Shares
    <3> QED BY <3>1, <3>2, <3>3 DEF Whole
  <2> QED BY <1>7, <2>1, <2>2
<1>12. Indexed(alone, more, ToSet(keys))
  BY <1>1, <1>6, <1>8, <1>10, <1>11 DEF Indexed
<1>13. ToSet(keys) = {keys[1], keys[2], keys[3]}
  BY DEF ToSet, Keys
<1>14. more # <<>> /\ row = more[Len(more)]
  BY <1>1
<1> DEFINE one == Block(alone, n + 1, keys[1])
           two == Block(one, n + 1, keys[2])
           all == Block(two, n + 1, keys[3])
           L1  == ToSet(keys) \ {keys[1]}
           L2  == L1 \ {keys[2]}
           L3  == L2 \ {keys[3]}
<1>15. L3 = {}
  BY <1>13
<1>16. \A k \in {1, 2, 3} : keys[k] \in ToSet(Keys(more[Len(more)]))
  BY <1>13, <1>14
<1> HIDE DEF L1, L2, keys
<1>17. Indexed(one, more, L1)
  BY <1>1, <1>12, <1>14, <1>16, BlockStep DEF L1
<1> HIDE DEF one
<1>18. Indexed(two, more, L2)
  BY <1>1, <1>14, <1>16, <1>17, BlockStep DEF L2
<1> HIDE DEF two
<1>19. Indexed(all, more, L3)
  BY <1>1, <1>14, <1>16, <1>18, BlockStep
<1>20. Add(index, row) = all
  BY DEF Add, all, two, one, alone, keys
<1> QED BY <1>15, <1>19, <1>20 DEF more
------------------------------------------------------------------------------
(* Numbers in the order of first appearance: what R has before its k-th    *)
(* element, and where R[x] appears first.                                  *)

Seen(R, k) == {R[m] : m \in 1..(k - 1)}

FirstAt(R, x) == CHOOSE m \in 1..x : R[m] = R[x] /\ \A k \in 1..(m - 1) : R[k] # R[x]

LEMMA SeenBound ==
  ASSUME NEW R, NEW k \in Nat \ {0}
  PROVE  IsFiniteSet(Seen(R, k)) /\ Cardinality(Seen(R, k)) \in 0..(k - 1)
<1> DEFINE f == [m \in 1..(k - 1) |-> R[m]]
<1>1. f \in Surjection(1..(k - 1), Seen(R, k))
  BY DEF Surjection, Seen
<1>2. IsFiniteSet(1..(k - 1)) /\ Cardinality(1..(k - 1)) = k - 1
  <2>1. 1 \in Int /\ k - 1 \in Int /\ (1 > k - 1 => k - 1 = 0) /\ (k - 1) - 1 + 1 = k - 1
    OBVIOUS
  <2> QED BY <2>1, FS_Interval
<1>3. IsFiniteSet(Seen(R, k)) /\ Cardinality(Seen(R, k)) <= k - 1
  BY <1>1, <1>2, FS_Surjection
<1>4. Cardinality(Seen(R, k)) \in Nat
  BY <1>3, FS_CardinalityType
<1> QED BY <1>3, <1>4

LEMMA FirstAtProps ==
  ASSUME NEW R, NEW x \in Nat \ {0}
  PROVE  /\ FirstAt(R, x) \in 1..x /\ R[FirstAt(R, x)] = R[x]
         /\ \A k \in 1..(FirstAt(R, x) - 1) : R[k] # R[x]
<1> DEFINE T == {m \in 1..x : R[m] = R[x]}
<1>1. T \subseteq Nat /\ T # {}
  <2>1. x \in T
    OBVIOUS
  <2> QED BY <2>1
<1>2. PICK m \in T : \A j \in T : m <= j
  <2> HIDE DEF T
  <2> QED BY <1>1, LeastNatural
<1>3. m \in 1..x /\ R[m] = R[x]
  OBVIOUS
<1>4. \A k \in 1..(m - 1) : R[k] # R[x]
  <2> SUFFICES ASSUME NEW k \in 1..(m - 1), R[k] = R[x] PROVE FALSE
    OBVIOUS
  <2>1. k \in T
    OBVIOUS
  <2> QED BY <1>2, <2>1
<1> QED BY <1>3, <1>4 DEF FirstAt

Numbered(n, R, ids) ==
  /\ \A x \in 1..n : ids[x] \in 0..(x - 1)
  /\ \A x, y \in 1..n : ids[x] = ids[y] <=> R[x] = R[y]
  /\ \A x \in 1..n : ids[x] <= Cardinality({ids[m] : m \in 1..(x - 1)})

(* So numbered, two are equal if they are in R, and no number is skipped.  *)
LEMMA Numbering ==
  ASSUME NEW n \in Nat, NEW R, NEW ids \in [1..n -> Nat],
         \A x \in 1..n : ids[x] = Cardinality(Seen(R, FirstAt(R, x)))
  PROVE  Numbered(n, R, ids)
<1> DEFINE first == [x \in 1..n |-> FirstAt(R, x)]
<1>1. \A x \in 1..n : /\ first[x] \in 1..x /\ first[x] \in 1..n /\ R[first[x]] = R[x]
                      /\ \A k \in 1..(first[x] - 1) : R[k] # R[x]
                      /\ ids[x] = Cardinality(Seen(R, first[x]))
  <2> TAKE x \in 1..n
  <2>1. x \in Nat \ {0} /\ first[x] = FirstAt(R, x)
    OBVIOUS
  <2>2. /\ first[x] \in 1..x /\ R[first[x]] = R[x]
        /\ \A k \in 1..(first[x] - 1) : R[k] # R[x]
    BY <2>1, FirstAtProps
  <2> HIDE DEF first
  <2>3. first[x] \in 1..n
    BY <2>2
  <2> QED BY <2>1, <2>2, <2>3
<1> HIDE DEF first
<1>2. ASSUME NEW x \in 1..n PROVE ids[x] \in 0..(x - 1)
  <2>1. ids[x] \in 0..(first[x] - 1)
    BY <1>1, SeenBound
  <2> QED BY <1>1, <2>1
<1>3. ASSUME NEW x \in 1..n, NEW y \in 1..n, R[x] = R[y] PROVE ids[x] = ids[y]
  <2>1. ~(first[x] < first[y])
    <3> SUFFICES ASSUME first[x] < first[y] PROVE FALSE
      OBVIOUS
    <3>1. first[x] \in 1..(first[y] - 1)
      BY <1>1
    <3> QED BY <1>1, <1>3, <3>1, SMTT(30)
  <2>3. ~(first[y] < first[x])
    <3> SUFFICES ASSUME first[y] < first[x] PROVE FALSE
      OBVIOUS
    <3>1. first[y] \in 1..(first[x] - 1)
      BY <1>1
    <3> QED BY <1>1, <1>3, <3>1, SMTT(30)
  <2>2. first[x] = first[y]
    BY <1>1, <2>1, <2>3
  <2> QED BY <1>1, <2>2
<1>4. ASSUME NEW x \in 1..n, NEW y \in 1..n, R[x] # R[y], first[x] <= first[y]
      PROVE  ids[x] # ids[y]
  <2> DEFINE A == Seen(R, first[x])
             B == Seen(R, first[y])
  <2>1. first[x] # first[y]
    BY <1>1, <1>4
  <2>2. A \cup {R[x]} \subseteq B /\ R[x] \notin A
    <3>1. 1..(first[x] - 1) \subseteq 1..(first[y] - 1) /\ first[x] \in 1..(first[y] - 1)
      BY <1>1, <1>4, <2>1, SMTT(30)
    <3>2. R[first[x]] = R[x] /\ \A k \in 1..(first[x] - 1) : R[k] # R[x]
      BY <1>1
    <3>3. R[x] \notin A
      BY <3>2 DEF Seen
    <3>4. A \subseteq B
      BY <3>1 DEF Seen
    <3>5. R[x] \in B
      BY <3>1, <3>2 DEF Seen
    <3> QED BY <3>3, <3>4, <3>5
  <2>3. IsFiniteSet(A) /\ IsFiniteSet(B) /\ Cardinality(A) \in Nat /\ Cardinality(B) \in Nat
    BY <1>1, SeenBound
  <2>4. ids[x] = Cardinality(A) /\ ids[y] = Cardinality(B)
    BY <1>1
  <2> HIDE DEF A, B
  <2>5. Cardinality(A \cup {R[x]}) = Cardinality(A) + 1
    BY <2>2, <2>3, FS_AddElement
  <2>6. Cardinality(A \cup {R[x]}) <= Cardinality(B)
    BY <2>2, <2>3, FS_Subset
  <2> QED BY <2>3, <2>4, <2>5, <2>6
<1>5. \A x, y \in 1..n : ids[x] = ids[y] <=> R[x] = R[y]
  <2> TAKE x, y \in 1..n
  <2>1. first[x] <= first[y] \/ first[y] <= first[x]
    BY <1>1
  <2> QED BY <1>3, <1>4, <2>1
<1>6. ASSUME NEW x \in 1..n
      PROVE  ids[x] <= Cardinality({ids[m] : m \in 1..(x - 1)})
  <2> DEFINE A == Seen(R, first[x])
             B == {ids[m] : m \in 1..(x - 1)}
             at == [r \in A |-> CHOOSE m \in 1..(first[x] - 1) : R[m] = r]
             f == [r \in A |-> ids[at[r]]]
  <2>1. \A r \in A : at[r] \in 1..(first[x] - 1) /\ R[at[r]] = r
    BY DEF Seen
  <2>2. \A r \in A : at[r] \in 1..(x - 1) /\ at[r] \in 1..n
    BY <1>1, <2>1
  <2> HIDE DEF at, A
  <2>3. f \in Injection(A, B)
    BY <1>5, <2>1, <2>2 DEF Injection, IsInjective
  <2>4. IsFiniteSet(B)
    <3>1. B \subseteq 0..(x - 1)
      BY <1>2
    <3>2. IsFiniteSet(0..(x - 1))
      BY FS_Interval
    <3> HIDE DEF B
    <3> QED BY <3>1, <3>2, FS_Subset
  <2> HIDE DEF B, f
  <2>5. Cardinality(A) <= Cardinality(B)
    BY <2>3, <2>4, FS_Injection
  <2> QED BY <1>1, <2>5 DEF A, B
<1> QED BY <1>2, <1>5, <1>6 DEF Numbered

(* The persons of an index of all rows: one for each group of rows that    *)
(* keys join, numbered from 0 in the order of their first rows.            *)
THEOREM PersonsOfAnIndex ==
  ASSUME NEW S, NEW rows \in Seq(S), NEW index, Indexed(index, rows, {})
  PROVE  LET persons == PersonIds(index)
         IN  /\ persons \in Seq(0..(Len(rows) - 1)) /\ Len(persons) = Len(rows)
             /\ AreClusters(rows, persons)
             /\ \A n \in DOMAIN persons :
                  persons[n] <= Cardinality({persons[m] : m \in 1..(n - 1)})
<1> DEFINE n == Len(rows)
           R == [x \in 1..n |-> Root(index.parent, x)]
           persons == PersonIds(index)
<1>1. n \in Nat /\ DOMAIN rows = 1..n
  BY LenProperties
<1>2. /\ Forest(index.parent, index.rank, n) /\ Anchored(index, rows, {})
      /\ \A i \in 1..n : Whole(rows, Tree(index.parent, n, i))
  BY DEF Indexed
<1>3. DOMAIN index.parent = 1..n
  BY <1>2 DEF Forest
<1>4. DOMAIN persons = 1..n
  BY <1>3 DEF PersonIds
<1>5. ASSUME NEW x \in 1..n
      PROVE  persons[x] = Cardinality(Seen(R, FirstAt(R, x)))
  <2> DEFINE first == CHOOSE m \in 1..x :
                        /\ Root(index.parent, m) = Root(index.parent, x)
                        /\ \A k \in 1..(m - 1) :
                             Root(index.parent, k) # Root(index.parent, x)
  <2>1. persons[x] = Cardinality({Root(index.parent, m) : m \in 1..(first - 1)})
    BY <1>3 DEF PersonIds
  <2>2. \A m \in 1..x : m \in 1..n /\ \A k \in 1..(m - 1) : k \in 1..n
    BY <1>1
  <2>3. \A m \in 1..x :
          (R[m] = R[x] /\ \A k \in 1..(m - 1) : R[k] # R[x]) <=>
          /\ Root(index.parent, m) = Root(index.parent, x)
          /\ \A k \in 1..(m - 1) : Root(index.parent, k) # Root(index.parent, x)
    BY <2>2
  <2>4. first = FirstAt(R, x)
    BY <2>3 DEF FirstAt
  <2>5. first \in 1..x
    <3>1. x \in Nat \ {0}
      BY <1>1
    <3> HIDE DEF R
    <3> QED BY <2>4, <3>1, FirstAtProps
  <2> HIDE DEF first
  <2>6. {Root(index.parent, m) : m \in 1..(first - 1)} = Seen(R, first)
    BY <2>2, <2>5 DEF Seen
  <2> QED BY <2>1, <2>4, <2>6
<1> HIDE DEF persons
<1>6. \A x \in 1..n : persons[x] \in Nat /\ persons[x] = Cardinality(Seen(R, FirstAt(R, x)))
  <2> TAKE x \in 1..n
  <2>1. FirstAt(R, x) \in Nat \ {0}
    BY <1>1, FirstAtProps
  <2> HIDE DEF R
  <2> QED BY <1>5, <2>1, SeenBound
<1>7. persons \in [1..n -> Nat]
  <2>1. persons = [x \in 1..n |-> persons[x]]
    BY <1>3 DEF persons, PersonIds
  <2> QED BY <1>6, <2>1
<1> HIDE DEF R
<1> HIDE DEF n
<1>7a. \A x \in 1..n : persons[x] = Cardinality(Seen(R, FirstAt(R, x)))
  BY <1>6
<1>7b. Numbered(n, R, persons)
  BY <1>1, <1>7, <1>7a, Numbering
<1>8. /\ \A x \in 1..n : persons[x] \in 0..(x - 1)
      /\ \A x, y \in 1..n : persons[x] = persons[y] <=> R[x] = R[y]
      /\ \A x \in 1..n : persons[x] <= Cardinality({persons[m] : m \in 1..(x - 1)})
  BY <1>7b DEF Numbered
<1>9. persons \in Seq(0..(n - 1)) /\ Len(persons) = n
  <2>1. persons \in [1..n -> 0..(n - 1)]
    BY <1>1, <1>7, <1>8
  <2> QED BY <1>1, <2>1
<1>10. \A x, y \in 1..n :
         persons[x] = persons[y] <=> Root(index.parent, x) = Root(index.parent, y)
  BY <1>8 DEF R
<1>11. ASSUME NEW i \in 1..n, NEW j \in 1..n, Shares(rows, i, j)
       PROVE  persons[i] = persons[j]
  <2>1. PICK key \in KnownKeys(rows[i]) \cap KnownKeys(rows[j]) : TRUE
    BY <1>11, SharesKnown
  <2>2. key \in Blocked(rows, {}, i) /\ key \in Blocked(rows, {}, j)
    BY <2>1 DEF Blocked
  <2>3. /\ Root(index.parent, index.blocks[key]) = Root(index.parent, i)
        /\ Root(index.parent, index.blocks[key]) = Root(index.parent, j)
    BY <1>2, <2>2 DEF Anchored, n
  <2> QED BY <1>10, <2>3
<1>12. ASSUME NEW i \in 1..n
       PROVE  {j \in 1..n : persons[j] = persons[i]} = Tree(index.parent, n, i)
  BY <1>10 DEF Tree
<1>13. AreClusters(rows, persons)
  <2>1. \A i, j \in DOMAIN rows : Shares(rows, i, j) => persons[i] = persons[j]
    BY <1>1, <1>11
  <2>2. ASSUME NEW i \in DOMAIN rows, NEW own, own = {j \in DOMAIN rows : persons[j] = persons[i]},
               NEW group \in (SUBSET own) \ {{}, own}
        PROVE  \E j \in group, k \in own \ group : Shares(rows, j, k)
    <3>1. i \in 1..n /\ own = Tree(index.parent, n, i)
      BY <1>1, <1>12, <2>2
    <3>2. Whole(rows, own)
      BY <1>2, <3>1
    <3> QED BY <2>2, <3>2 DEF Whole
  <2> QED BY <2>1, <2>2 DEF AreClusters
<1> QED BY <1>4, <1>8, <1>9, <1>13 DEF persons, n
------------------------------------------------------------------------------
(* The synthetic ssn. Of what division leaves.                             *)

LEMMA QuotientAndRest ==
  ASSUME NEW a \in Int, NEW d \in Int, d > 0
  PROVE  a = d * (a \div d) + (a % d)
BY SMTT(60)

LEMMA Quotient ==
  ASSUME NEW a \in Nat, NEW d \in Nat \ {0}
  PROVE  /\ a \div d \in Nat /\ a % d \in 0..(d - 1)
         /\ a = d * (a \div d) + (a % d)
<1>1. a \in Int /\ d \in Int /\ d > 0
  OBVIOUS
<1>2. a \div d \in Nat /\ a % d \in 0..(d - 1)
  OBVIOUS
<1> QED BY <1>1, <1>2, QuotientAndRest

LEMMA Times ==
  ASSUME NEW k \in Nat \ {0}, NEW d \in Nat
  PROVE  d * k \in Nat /\ d * k >= d
<1>1. d * k = d * (k - 1) + d /\ d * (k - 1) >= 0 /\ d * k \in Int
  OBVIOUS
<1> QED BY <1>1

LEMMA OneQuotient ==
  ASSUME NEW d \in Nat \ {0}, NEW x \in Nat, NEW y \in Nat,
         NEW b \in 0..(d - 1), NEW c \in 0..(d - 1), d * x + b = d * y + c
  PROVE  x = y /\ b = c
<1>1. ASSUME NEW u \in Nat, NEW v \in Nat, NEW e \in 0..(d - 1), NEW f \in 0..(d - 1),
             d * u + e = d * v + f
      PROVE  ~(u < v)
  <2> SUFFICES ASSUME u < v PROVE FALSE
    OBVIOUS
  <2>1. v - u \in Nat \ {0} /\ d * v = d * u + d * (v - u) /\ d * u \in Int
    OBVIOUS
  <2>2. d * (v - u) >= d /\ d * (v - u) \in Nat
    BY <2>1, Times
  <2>3. d * u + e = (d * u + d * (v - u)) + f
    BY <1>1, <2>1
  <2>4. e = d * (v - u) + f
    BY <2>1, <2>2, <2>3
  <2> QED BY <2>2, <2>4
<1>2. ~(x < y) /\ ~(y < x)
  BY <1>1
<1>3. x = y
  BY <1>2
<1>4. d * x \in Int
  OBVIOUS
<1> QED BY <1>3, <1>4

LEMMA SsnParts ==
  ASSUME NEW p \in 0..(SsnCapacity - 1)
  PROVE  \E a \in 0..(Areas - 1), b \in 0..(Groups - 1), c \in 0..(Serials - 1), q \in Nat :
           /\ p = Areas * q + a /\ q = Groups * c + b
           /\ SyntheticSsn(p) = Serials * (Groups * a + b) + c
<1> DEFINE a == p % Areas
           q == p \div Areas
           b == q % Groups
           c == q \div Groups
           d == Areas * Groups
<1>1. Areas \in Nat \ {0} /\ Groups \in Nat \ {0} /\ Serials \in Nat \ {0} /\ p \in Nat
  BY SsnAssumption DEF SsnCapacity
<1>2. a \in 0..(Areas - 1) /\ q \in Nat /\ p = Areas * q + a
  BY <1>1, Quotient
<1>3. b \in 0..(Groups - 1) /\ c \in Nat /\ q = Groups * c + b
  BY <1>1, <1>2, Quotient
<1>4. d \in Nat \ {0}
  BY <1>1, Times
<1>5. p \div d \in Nat /\ p % d \in 0..(d - 1) /\ p = d * (p \div d) + (p % d)
  BY <1>1, <1>4, Quotient
<1>6. SyntheticSsn(p) = (a * Groups + b) * Serials + p \div d
  BY DEF SyntheticSsn
<1>7. p < d * Serials /\ d * Serials \in Nat
  BY <1>1, <1>4 DEF SsnCapacity
<1> HIDE DEF a, q, b, c, d
<1>8. Areas * b + a \in 0..(d - 1) /\ p = d * c + (Areas * b + a)
  <2>1. Areas * q = Areas * (Groups * c) + Areas * b /\ Areas * (Groups * c) = d * c
    BY <1>1, <1>2, <1>3 DEF d
  <2>2. d * c \in Nat /\ Areas * b \in Nat
    BY <1>1, <1>3, <1>4
  <2>3. p = d * c + (Areas * b + a)
    BY <1>2, <2>1, <2>2
  <2>4. d = Areas * b + Areas * (Groups - b) /\ Areas * (Groups - b) >= Areas
    <3>1. Groups - b \in Nat \ {0}
      BY <1>1, <1>3
    <3>2. Areas * (Groups - b) >= Areas
      BY <1>1, <3>1, Times
    <3>3. Areas * Groups = Areas * b + Areas * (Groups - b)
      BY <1>1, <1>3
    <3> QED BY <3>2, <3>3 DEF d
  <2>5. Areas * (Groups - b) \in Int
    BY <1>1, <1>3
  <2> QED BY <1>1, <1>2, <2>2, <2>3, <2>4, <2>5
<1>9. p \div d = c
  <2> DEFINE u == p \div d
             w == p % d
             e == Areas * b + a
  <2>1. u \in Nat /\ w \in 0..(d - 1) /\ e \in 0..(d - 1) /\ d * u + w = d * c + e
    BY <1>5, <1>8
  <2> HIDE DEF u, w, e
  <2>2. u = c
    BY <1>3, <1>4, <2>1, OneQuotient
  <2> QED BY <2>2 DEF u
<1>10. c \in 0..(Serials - 1)
  <2> SUFFICES ASSUME ~(c < Serials) PROVE FALSE
    BY <1>1, <1>3
  <2>1. d * c = d * Serials + d * (c - Serials) /\ d * (c - Serials) >= 0
        /\ d * (c - Serials) \in Int /\ d * c \in Int
    BY <1>1, <1>3, <1>4
  <2> QED BY <1>1, <1>7, <1>8, <2>1
<1>11. (a * Groups + b) * Serials + c = Serials * (Groups * a + b) + c
  BY <1>1, <1>2, <1>3, <1>10
<1> QED BY <1>2, <1>3, <1>6, <1>9, <1>10, <1>11

(* No two persons that there are ssns for have the same one.               *)
THEOREM SsnsDiffer ==
  ASSUME NEW p \in 0..(SsnCapacity - 1), NEW r \in 0..(SsnCapacity - 1),
         SyntheticSsn(p) = SyntheticSsn(r)
  PROVE  p = r
<1>1. Areas \in Nat \ {0} /\ Groups \in Nat \ {0} /\ Serials \in Nat \ {0}
  BY SsnAssumption
<1>2. PICK a \in 0..(Areas - 1), b \in 0..(Groups - 1), c \in 0..(Serials - 1), q \in Nat :
        /\ p = Areas * q + a /\ q = Groups * c + b
        /\ SyntheticSsn(p) = Serials * (Groups * a + b) + c
  BY SsnParts
<1>3. PICK e \in 0..(Areas - 1), f \in 0..(Groups - 1), g \in 0..(Serials - 1), s \in Nat :
        /\ r = Areas * s + e /\ s = Groups * g + f
        /\ SyntheticSsn(r) = Serials * (Groups * e + f) + g
  BY SsnParts
<1>4. Groups * a + b \in Nat /\ Groups * e + f \in Nat
  BY <1>1, <1>2, <1>3
<1>5. Groups * a + b = Groups * e + f /\ c = g
  BY <1>1, <1>2, <1>3, <1>4, OneQuotient
<1>6. a = e /\ b = f
  BY <1>1, <1>5, OneQuotient
<1> QED BY <1>2, <1>3, <1>5, <1>6

LEMMA SsnIsNatural ==
  ASSUME NEW p \in Nat
  PROVE  SyntheticSsn(p) \in Nat
<1>1. Areas \in Nat \ {0} /\ Groups \in Nat \ {0} /\ Serials \in Nat \ {0}
  BY SsnAssumption
<1>2. p % Areas \in Nat /\ p \div Areas \in Nat
  BY <1>1, Quotient
<1>3. (p \div Areas) % Groups \in Nat
  BY <1>1, <1>2, Quotient
<1>4. Areas * Groups \in Nat \ {0}
  BY <1>1, Times
<1>5. p \div (Areas * Groups) \in Nat
  BY <1>4, Quotient
<1>6. (p % Areas) * Groups + ((p \div Areas) % Groups) \in Nat
  BY <1>1, <1>2, <1>3
<1>7. ((p % Areas) * Groups + ((p \div Areas) % Groups)) * Serials \in Nat
  BY <1>1, <1>6
<1> QED BY <1>5, <1>7 DEF SyntheticSsn
==============================================================================
