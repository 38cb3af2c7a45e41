----------------------------- MODULE CloneLoader -----------------------------
(***************************************************************************)
(* The loader of the partner clone (clone/load.py): two passes over the    *)
(* feed files, the first to learn who is who, the second to copy the rows  *)
(* plan by plan, and then the people and the entity graph. Each COPY is a  *)
(* transaction of its own and there is none around the load, so that a     *)
(* crash keeps what was copied. The load may be started again, with or     *)
(* without the tables rebuilt, and the files may be replaced at any time.  *)
(*                                                                         *)
(* A file is a sequence of rows; of a row the model has what identity and  *)
(* the drive join read and whether it has a house number. Its position in  *)
(* the file stands for its other columns.                                  *)
(***************************************************************************)
EXTENDS PersonIndex

CONSTANTS
  Corpora,  \* what the csv directory may hold at first
  Later,    \* what it may be replaced with
  Limits,   \* --limit-per-shape, None for no limit
  Modulus,  \* BASE_LEGACY_MODULUS
  Drawn,    \* the record ids whose hash falls below a target within (0, 100)
  None

Plan(shape, table) == [shape |-> shape, table |-> table]

FeedPlans ==
  <<Plan("utility", "legacy"), Plan("trace", "legacy"), Plan("base", "legacy"),
    Plan("base", "new"), Plan("loan", "new"), Plan("auto", "new"),
    Plan("tax", "new")>>

Shapes == {"utility", "trace", "base", "loan", "auto", "tax"}
Tables == {"legacy", "new"}

(* RECORD_ID_BASE, with smaller numbers. *)
IdBase == [legacy |-> 10, new |-> 70]

Rows    == [name : Nat, dob : Nat, phone : Nat, home : Nat, house : BOOLEAN]
Drives  == [name : Nat, home : Nat, licence : Nat]
Records == [table : Tables, id : Nat, shape : Shapes, at : Nat,
            ssn : Nat \cup {None}, house : BOOLEAN, licence : Nat \cup {None}]
Owners  == [person : Nat, table : Tables, id : Nat, shape : Shapes]
People  == [person : Nat, ssn : Nat, count : Nat]
Masters == [hal : Nat, ssn : Nat, count : Nat]
Links   == [hal : Nat, table : Tables, id : Nat]

(* utility.csv has rows, and there are ssns for as many persons as all the *)
(* plans have rows, whichever files they read.                             *)
ASSUME LoaderAssumption ==
  /\ Later \subseteq Corpora
  /\ \A c \in Corpora :
       /\ \A s \in Shapes : c[s] \in Seq(Rows)
       /\ c.drive \in Seq(Drives)
       /\ c.utility # <<>>
       /\ \A s \in Shapes : Len(FeedPlans) * Len(c[s]) <= SsnCapacity
  /\ Limits \subseteq (Nat \ {0}) \cup {None}
  /\ Modulus \in Nat \ {0}

VARIABLES
  csv,       \* the files
  replaced,  \* whether they were replaced since the last start (history)
  stage,     \* where the loader is
  limit,     \* its --limit-per-shape
  plan,      \* the feed plan it is at
  count,     \* pass 1: the rows of this plan that it added
  index,     \* pass 1: the PersonIndex
  persons,   \* person_ids(), by node
  licences,  \* drive join key -> licence
  node,      \* pass 2: node_counter
  nextId,    \* pass 2: record_id_counters
  pending,   \* pass 2: the oracle rows of the plan just copied
  db         \* the clone's tables

memory == <<plan, count, index, persons, licences, node, nextId, pending>>
vars   == <<csv, replaced, stage, limit, memory, db>>

EmptyDb ==
  [records |-> <<>>, oracle |-> {}, people |-> {}, masters |-> {}, links |-> {}]

Stopped == {"idle", "failed", "done"}

(* What a process begins with. *)
NewMemory ==
  /\ plan' = 1 /\ count' = 0 /\ index' = EmptyIndex /\ persons' = <<>>
  /\ licences' = <<>> /\ node' = 0 /\ nextId' = IdBase /\ pending' = {}

Init ==
  /\ csv \in Corpora /\ replaced = FALSE
  /\ stage = "idle" /\ limit = None /\ db = EmptyDb
  /\ plan = 1 /\ count = 0 /\ index = EmptyIndex /\ persons = <<>>
  /\ licences = <<>> /\ node = 0 /\ nextId = IdBase /\ pending = {}

(* python -m clone.load: a process with nothing in memory. *)
Start(l) ==
  /\ stage \in Stopped
  /\ stage' = "identify" /\ limit' = l /\ replaced' = FALSE
  /\ NewMemory
  /\ UNCHANGED <<csv, db>>

(* It ends with an error: an exception, or the process is killed. What was *)
(* copied stays, what was in memory is gone.                               *)
Abort ==
  /\ stage' = "failed"
  /\ NewMemory
  /\ UNCHANGED <<csv, replaced, limit, db>>

Crash == stage \notin Stopped /\ Abort

(* The csv directory is checked out anew, perhaps under a running load.    *)
Checkout ==
  /\ csv' \in Later \ {csv}
  /\ replaced' = TRUE
  /\ UNCHANGED <<stage, limit, memory, db>>

(* The DDL is loaded again, which drops and creates every table. *)
Rebuild ==
  /\ stage \in Stopped
  /\ db' = EmptyDb /\ stage' = "idle" /\ NewMemory
  /\ UNCHANGED <<csv, replaced, limit>>

------------------------------------------------------------------------------
(* Pass 1 *)

(* The positions of a file that belong to a plan: base is split over both  *)
(* tables by position.                                                     *)
Owned(p) ==
  {i \in DOMAIN csv[p.shape] :
     p.shape = "base" => (p.table = "legacy" <=> (i - 1) % Modulus # 0)}

(* _plan_rows: their first `limit`, the k-th at k. *)
PlanRows(p) ==
  LET own == Owned(p)
      n   == Cardinality(own)
  IN  [k \in 1..(IF limit = None THEN n ELSE Min({limit, n})) |->
         CHOOSE i \in own : Cardinality({j \in own : j <= i}) = k]

(* SHAPE_FIELDS: not every file has a date of birth or a phone. *)
IdentityFields(shape, row) ==
  [name |-> row.name, home |-> row.home,
   dob   |-> IF shape \in {"utility", "base"} THEN row.dob ELSE 0,
   phone |-> IF shape \in {"utility", "trace", "base", "auto"} THEN row.phone ELSE 0]

IdentifyRow ==
  LET p == FeedPlans[plan]
      rows == PlanRows(p)
  IN  /\ stage = "identify" /\ count < Len(rows)
      /\ index' = Add(index, IdentityFields(p.shape, csv[p.shape][rows[count + 1]]))
      /\ count' = count + 1
      /\ UNCHANGED <<csv, replaced, stage, limit, plan, persons, licences, node,
                     nextId, pending, db>>

(* The file of this plan ends; after the last one each node has a person.  *)
EndPlan ==
  /\ stage = "identify" /\ count >= Len(PlanRows(FeedPlans[plan]))
  /\ count' = 0
  /\ \/ /\ plan < Len(FeedPlans)
        /\ plan' = plan + 1
        /\ UNCHANGED <<stage, index, persons>>
     \/ /\ plan = Len(FeedPlans)
        /\ persons' = PersonIds(index)
        /\ plan' = 1 /\ index' = EmptyIndex
        /\ stage' = "licences"
  /\ UNCHANGED <<csv, replaced, limit, licences, node, nextId, pending, db>>

(* DRIVE_JOIN_KEY *)
JoinKey(row) == <<row.home, row.name>>

(* _load_licences: the first drive row of a join key wins. *)
LoadLicences ==
  LET first(key) == CHOOSE d \in DOMAIN csv.drive :
                      /\ JoinKey(csv.drive[d]) = key
                      /\ \A e \in 1..(d - 1) : JoinKey(csv.drive[e]) # key
  IN  /\ stage = "licences"
      /\ licences' = [key \in {JoinKey(d) : d \in ToSet(csv.drive)} |->
                        csv.drive[first(key)].licence]
      /\ stage' = "records"
      /\ UNCHANGED <<csv, replaced, limit, plan, count, index, persons, node,
                     nextId, pending, db>>

------------------------------------------------------------------------------
(* Pass 2 *)

(* feed_population.json, in tenths of a percent. *)
Target(shape, column) ==
  IF column = "ssn" /\ shape = "loan" THEN 958
  ELSE IF column = "house_number" /\ shape = "base" THEN 1000 ELSE 0

(* keep_value *)
KeepValue(shape, column, id) ==
  LET target == Target(shape, column)
  IN  target > 0 /\ (target >= 1000 \/ id \in Drawn)

(* A faulty PersonOf, with a counter that begins anew with each plan.      *)
PersonOfPlan(k) == persons[k]

(* The person of a plan's k-th row: node_counter has come to its node.     *)
PersonOf(k) == persons[node + k]

(* The k-th row of a plan as a record. *)
RecordOf(p, k) ==
  LET at  == PlanRows(p)[k]
      row == csv[p.shape][at]
      id  == nextId[p.table] + k - 1
  IN  [table |-> p.table, id |-> id, shape |-> p.shape, at |-> at,
       ssn |-> IF KeepValue(p.shape, "ssn", id)
               THEN SyntheticSsn(PersonOf(k)) ELSE None,
       house |-> row.house /\ KeepValue(p.shape, "house_number", id),
       licence |-> IF p.shape = "loan" /\ JoinKey(row) \in DOMAIN licences
                   THEN licences[JoinKey(row)] ELSE None]

(* A faulty Conflicts, of a table without records_pkey.                    *)
NoKey(records) == FALSE

(* records_pkey: legacy's record ids are unique. Those of new are not.     *)
Conflicts(records) ==
  \E r \in ToSet(records), q \in ToSet(db.records) :
    r.table = "legacy" /\ q.table = "legacy" /\ r.id = q.id

(* One plan: its rows are mapped, each with the person of its node, and    *)
(* copied. There may be no person for a node, and ids may be taken.        *)
CopyRecords ==
  LET p       == FeedPlans[plan]
      n       == Len(PlanRows(p))
      records == [k \in 1..n |-> RecordOf(p, k)]
  IN  /\ stage = "records"
      /\ \/ node + n > Len(persons) /\ Abort
         \/ node + n <= Len(persons) /\ Conflicts(records) /\ Abort
         \/ /\ node + n <= Len(persons) /\ ~Conflicts(records)
            /\ db' = [db EXCEPT !.records = @ \o records]
            /\ pending' = {[person |-> PersonOf(k), table |-> p.table,
                            id |-> records[k].id, shape |-> p.shape] : k \in 1..n}
            /\ node' = node + n
            /\ nextId' = [nextId EXCEPT ![p.table] = @ + n]
            /\ stage' = "oracle"
            /\ UNCHANGED <<csv, replaced, limit, plan, count, index, persons, licences>>

(* A faulty PassesAgree, without the check.                                *)
Unchecked == TRUE

(* The check after the last plan. *)
PassesAgree == node = Len(persons)

(* Its oracle rows are copied, of which (source_table, record_id) is the   *)
(* key; after the last plan the two passes must have counted alike.        *)
CopyOracle ==
  LET taken == \E o \in pending, q \in db.oracle : o.table = q.table /\ o.id = q.id
  IN  /\ stage = "oracle"
      /\ \/ taken /\ Abort
         \/ /\ ~taken
            /\ db' = [db EXCEPT !.oracle = @ \cup pending]
            /\ pending' = {}
            /\ \/ plan < Len(FeedPlans) /\ plan' = plan + 1 /\ stage' = "records"
               \/ /\ plan = Len(FeedPlans)
                  /\ plan' = plan
                  /\ stage' = IF PassesAgree THEN "people" ELSE "diverged"
            /\ UNCHANGED <<csv, replaced, limit, count, index, persons, licences,
                           node, nextId>>

(* RuntimeError: the passes diverged. *)
Diverge == stage = "diverged" /\ Abort

------------------------------------------------------------------------------
(* The people and the entity graph *)

(* Who owns how many records. *)
PeopleOf(oracle) ==
  {[person |-> x, ssn |-> SyntheticSsn(x),
    count |-> Cardinality({o \in oracle : o.person = x})] :
     x \in {o.person : o \in oracle}}

(* _write_true_person *)
CopyPeople ==
  LET people == PeopleOf(db.oracle)
      taken  == \E x \in people, y \in db.people : x.person = y.person
  IN  /\ stage = "people"
      /\ \/ taken /\ Abort
         \/ /\ ~taken
            /\ db' = [db EXCEPT !.people = @ \cup people]
            /\ stage' = "masters"
            /\ UNCHANGED <<csv, replaced, limit, memory>>

(* build_entities: blocks of one ssn, numbered in its order. *)
Ssns(records) == {r.ssn : r \in ToSet(records)} \ {None}

Hal(records, ssn) == Cardinality({s \in Ssns(records) : s < ssn})

MastersOf(records) ==
  {[hal |-> Hal(records, s), ssn |-> s,
    count |-> Cardinality({i \in DOMAIN records : records[i].ssn = s})] :
     s \in Ssns(records)}

Linked(records) == {i \in DOMAIN records : records[i].ssn # None}

LinksOf(records) ==
  {[hal |-> Hal(records, records[i].ssn), table |-> records[i].table,
    id |-> records[i].id] : i \in Linked(records)}

CopyMasters ==
  LET masters == MastersOf(db.records)
      taken   == \E x \in masters, y \in db.masters : x.hal = y.hal
  IN  /\ stage = "masters"
      /\ \/ taken /\ Abort
         \/ /\ ~taken
            /\ db' = [db EXCEPT !.masters = @ \cup masters]
            /\ stage' = "links"
            /\ UNCHANGED <<csv, replaced, limit, memory>>

(* entity_links is unique on (source_table, record_id). *)
CopyLinks ==
  LET links == LinksOf(db.records)
      taken == \/ \E i, j \in Linked(db.records) :
                    /\ i # j /\ db.records[i].table = db.records[j].table
                    /\ db.records[i].id = db.records[j].id
               \/ \E l \in links, q \in db.links : l.table = q.table /\ l.id = q.id
  IN  /\ stage = "links"
      /\ \/ taken /\ Abort
         \/ /\ ~taken
            /\ db' = [db EXCEPT !.links = @ \cup links]
            /\ stage' = "analyze"
            /\ UNCHANGED <<csv, replaced, limit, memory>>

(* ANALYZE, which leaves the tables as they are; then the load has ended. *)
Analyze ==
  /\ stage = "analyze" /\ stage' = "done"
  /\ UNCHANGED <<csv, replaced, limit, memory, db>>

Next ==
  \/ \E l \in Limits : Start(l)
  \/ IdentifyRow \/ EndPlan \/ LoadLicences
  \/ CopyRecords \/ CopyOracle \/ Diverge
  \/ CopyPeople \/ CopyMasters \/ CopyLinks \/ Analyze
  \/ Crash \/ Checkout \/ Rebuild

Spec == Init /\ [][Next]_vars

------------------------------------------------------------------------------
(* Properties *)

(* Every variable holds values of its type, and the oracle rows that await *)
(* their COPY are of the last records copied.                              *)
TypeOK ==
  /\ csv \in Corpora /\ replaced \in BOOLEAN
  /\ stage \in Stopped \cup {"identify", "licences", "records", "oracle",
                             "diverged", "people", "masters", "links", "analyze"}
  /\ limit \in Limits \cup {None} /\ plan \in DOMAIN FeedPlans /\ count \in Nat
  /\ index.parent \in Seq(Nat) /\ Len(index.rank) = Len(index.parent)
  /\ persons \in Seq(0..(Len(persons) - 1))
  /\ Range(licences) \subseteq Nat
  /\ node \in 0..Len(persons) /\ nextId \in [Tables -> Nat]
  /\ pending \subseteq Owners /\ Cardinality(pending) <= node
  /\ db.records \in Seq(Records) /\ db.oracle \subseteq Owners
  /\ db.people \subseteq People /\ db.masters \subseteq Masters
  /\ db.links \subseteq Links

(* The rows that a load reads, in the order of the plans.                  *)
Read ==
  FlattenSeq([i \in DOMAIN FeedPlans |->
    LET p    == FeedPlans[i]
        rows == PlanRows(p)
    IN  [k \in DOMAIN rows |->
           [table |-> p.table, shape |-> p.shape, at |-> rows[k]]]])

(* The ids of the first pass are the true clusters: two rows have one id   *)
(* exactly if a chain of shared dates of birth, phones and addresses joins *)
(* them, under one name; the ids are dense and in the order of the rows.   *)
PersonsAreClusters ==
  persons # <<>> /\ ~replaced =>
    LET read   == Read
        fields == [n \in DOMAIN read |->
                     IdentityFields(read[n].shape, csv[read[n].shape][read[n].at])]
    IN  /\ Len(persons) = Len(fields) /\ AreClusters(fields, persons)
        /\ \A n \in DOMAIN persons :
             persons[n] <= Cardinality({persons[m] : m \in 1..(n - 1)})

(* A load that ends well has, whatever other loads failed before it, one   *)
(* record for each row, of all rows if there is no limit, the ids in the   *)
(* order of the rows, and for each record the person that the first pass   *)
(* gave that row, which the second only counts its way to.                 *)
LoadExact ==
  stage = "done" /\ ~replaced =>
    LET read == Read
    IN  /\ Len(db.records) = Len(read)
        /\ limit = None =>
             \A s \in Shapes : \A i \in DOMAIN csv[s] :
               \E r \in ToSet(db.records) : r.shape = s /\ r.at = i
        /\ \A n \in DOMAIN read :
             LET r      == read[n]
                 row    == csv[r.shape][r.at]
                 id     == IdBase[r.table]
                             + Cardinality({m \in 1..(n-1) : read[m].table = r.table})
                 drives == {d \in DOMAIN csv.drive : JoinKey(csv.drive[d]) = JoinKey(row)}
             IN  /\ [person |-> persons[n], table |-> r.table, id |-> id,
                     shape |-> r.shape] \in db.oracle
                 /\ \E q \in ToSet(db.records) :
                      /\ q.table = r.table /\ q.id = id
                      /\ q.shape = r.shape /\ q.at = r.at
                      /\ q.licence = IF r.shape = "loan" /\ drives # {}
                                     THEN csv.drive[Min(drives)].licence ELSE None

(* The oracle never runs ahead of the records, whenever the load stops and *)
(* however often it is started again: each of its rows has the one record  *)
(* of that table and id, and the records that have no owner yet are of a   *)
(* single plan, all that there are of it, and the last that were copied.   *)
OracleBehindOnePlan ==
  LET owned(r) == \E o \in db.oracle : o.table = r.table /\ o.id = r.id
      bare     == {i \in DOMAIN db.records : ~owned(db.records[i])}
  IN  /\ \A o \in db.oracle :
           Cardinality({i \in DOMAIN db.records :
                          /\ db.records[i].table = o.table /\ db.records[i].id = o.id
                          /\ db.records[i].shape = o.shape}) = 1
      /\ \A i \in bare, j \in DOMAIN db.records :
           /\ j \in bare <=> /\ db.records[i].shape = db.records[j].shape
                            /\ db.records[i].table = db.records[j].table
           /\ j > i => j \in bare

(* The entity graph agrees with the oracle, even if the files changed      *)
(* under the load: the records with an ssn are linked once, two of them to *)
(* one entity exactly if they have one owner, and record_count is the      *)
(* number of links.                                                        *)
EntitiesArePeople ==
  stage = "done" =>
    LET owner(l) == CHOOSE o \in db.oracle : o.table = l.table /\ o.id = l.id
    IN  /\ Cardinality(db.links) =
             Cardinality(Linked(db.records))
        /\ \A l, m \in db.links : l.hal = m.hal <=> owner(l).person = owner(m).person
        /\ \A e \in db.masters :
             /\ e.count = Cardinality({l \in db.links : l.hal = e.hal})
             /\ \E x \in db.people : x.ssn = e.ssn /\ e.count <= x.count
        /\ {l.hal : l \in db.links} = {e.hal : e \in db.masters}

(* A load whose passes read different numbers of rows does not end well.   *)
RowsAccounted == stage = "done" => Len(db.records) = Len(persons)
==============================================================================
