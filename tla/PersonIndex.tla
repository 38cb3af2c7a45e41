----------------------------- MODULE PersonIndex -----------------------------
(***************************************************************************)
(* Who is who in the feeds: the union-find of clone/loader/identity.py,    *)
(* with its union by rank and path compression, and the synthetic ssn that *)
(* a person's records carry.                                               *)
(*                                                                         *)
(* Nodes are rows, numbered from 1 in the order they are added. Of a row   *)
(* identity reads a name (first and last), a date of birth, a phone and an *)
(* address with its zip, each a number after normalisation; 0 is missing.  *)
(***************************************************************************)
EXTENDS Naturals, Sequences, FiniteSets, SequencesExt

CONSTANTS
  Areas, Groups, Serials   \* how many of each part an ssn can be built of

ASSUME SsnAssumption == {Areas, Groups, Serials} \subseteq Nat \ {0}

(* A PersonIndex: _parent and _rank by node, _blocks from a blocking key   *)
(* to the first node that had it.                                          *)
EmptyIndex == [parent |-> <<>>, rank |-> <<>>, blocks |-> <<>>]

(* The nodes from x up to its root, and the root: _find. *)
PathFrom(parent, x) ==
  LET up[y \in DOMAIN parent] ==
        IF parent[y] = y THEN {y} ELSE {y} \cup up[parent[y]]
  IN  up[x]

Root(parent, x) == CHOOSE r \in PathFrom(parent, x) : parent[r] = r

(* Path compression: all of the path now hangs on the root. *)
Compressed(parent, x) ==
  [y \in DOMAIN parent |->
     IF y \in PathFrom(parent, x) THEN Root(parent, x) ELSE parent[y]]

(* A faulty Union, which hangs one node on the other and not root on root. *)
HangNode(index, a, b) == [index EXCEPT !.parent[a] = b]

Union(index, a, b) ==
  LET parent == Compressed(Compressed(index.parent, a), b)
      ra     == Root(parent, a)
      rb     == Root(parent, b)
      top    == IF index.rank[ra] < index.rank[rb] THEN rb ELSE ra
      other  == IF top = ra THEN rb ELSE ra
  IN  IF ra = rb
      THEN [index EXCEPT !.parent = parent]
      ELSE [index EXCEPT
              !.parent = [y \in DOMAIN @ |-> IF y = other THEN top ELSE parent[y]],
              !.rank[top] = IF index.rank[ra] = index.rank[rb] THEN @ + 1 ELSE @]

(* The blocking keys that a row may have, the most confident first, each   *)
(* with the name and what else rows of one person share.                   *)
Keys(row) == << <<"dob", row.name, row.dob>>, <<"phone", row.name, row.phone>>,
                <<"address", row.name, row.home>> >>

(* A row without a surname has none of them.                               *)
Known(key) == key[2] # 0 /\ key[3] # 0

(* One blocking key of a node: it becomes the key's anchor, or joins it.   *)
Block(index, node, key) ==
  IF ~Known(key) THEN index
  ELSE IF key \in DOMAIN index.blocks
  THEN Union(index, node, index.blocks[key])
  ELSE [index EXCEPT !.blocks = [k \in DOMAIN @ \cup {key} |->
                                   IF k = key THEN node ELSE @[k]]]

Add(index, row) ==
  LET node  == Len(index.parent) + 1
      alone == [index EXCEPT !.parent = Append(@, node), !.rank = Append(@, 0)]
      dob   == Block(alone, node, Keys(row)[1])
      phone == Block(dob, node, Keys(row)[2])
  IN  Block(phone, node, Keys(row)[3])

(* A faulty PersonIds, which hands out the roots themselves.               *)
RawRoots(index) == [n \in DOMAIN index.parent |-> Root(index.parent, n)]

(* person_ids: dense ids from 0, in the order of the first row of each.    *)
PersonIds(index) ==
  LET root(n)  == Root(index.parent, n)
      first(n) == CHOOSE m \in 1..n : root(m) = root(n)
                                      /\ \A k \in 1..(m - 1) : root(k) # root(n)
  IN  [n \in DOMAIN index.parent |->
         Cardinality({root(m) : m \in 1..(first(n) - 1)})]

(* A faulty SyntheticSsn, without the group.                               *)
SsnOfTwoParts(person) ==
  (person % Areas) * Serials + person \div (Areas * Groups)

(* synthetic_ssn, as the number that its digits make. *)
SyntheticSsn(person) ==
  ((person % Areas) * Groups + ((person \div Areas) % Groups)) * Serials
    + person \div (Areas * Groups)

(* The persons there are ssns for. *)
SsnCapacity == Areas * Groups * Serials

------------------------------------------------------------------------------
(* What the index is to find, without union-find: rows that share a known  *)
(* key are of one person, and no person's rows fall into two groups which  *)
(* share none.                                                             *)

Shares(rows, i, j) ==
  \E key \in ToSet(Keys(rows[i])) \cap ToSet(Keys(rows[j])) : Known(key)

AreClusters(rows, person) ==
  /\ \A i, j \in DOMAIN rows : Shares(rows, i, j) => person[i] = person[j]
  /\ \A i \in DOMAIN rows :
       LET own == {j \in DOMAIN rows : person[j] = person[i]}
       IN  \A group \in (SUBSET own) \ {{}, own} :
             \E j \in group, k \in own \ group : Shares(rows, j, k)
==============================================================================
