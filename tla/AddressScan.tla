----------------------------- MODULE AddressScan -----------------------------
(***************************************************************************)
(* materialize() and what it is for (source/resolve.py, feeds.py,          *)
(* bundle.py, people.py and the record handlers): one address is scanned   *)
(* over the partner's tables into a bundle, the bundle is listed to the    *)
(* engine, and the positions the listings hand out, `__rowid` and          *)
(* addr:<id>:<n>, are looked up later, perhaps in another bundle of the    *)
(* same address, materialized after the first one left the cache.          *)
(*                                                                         *)
(* A scan is one query per table, and the rows of a query come in any      *)
(* order. It is made with the spelling of the call that caused it, which   *)
(* need not be that of the last scan. Cities, states and person names are  *)
(* numbers, in the order of their spelling; 0 is a missing one, and 1 is a *)
(* city or state of blanks only. Positions count from 1.                   *)
(***************************************************************************)
EXTENDS AddressText, FiniteSets

CONSTANTS
  Addresses,  \* the [spellings, rows] that may be scanned: how the one address
              \* is typed, and the partner's rows, of its ZIP or the assessor's
  MaxRows,    \* MAX_ROWS_PER_SHAPE
  None        \* no bundle, no handle, no row

(* A partner row. `feeds` are the pattern sets its source_file matches,    *)
(* `taxPartition` whether imported_at is of the partition that the tax     *)
(* query is bound to. A city or state is in capitals, and trimmed in the   *)
(* rows that vote; the tax query compares it untrimmed.                    *)
Tables == <<"records_legacy", "records_new">>
Feeds  == {"utility", "trace", "base", "payday", "auto", "tax"}
Rows   == [id : Nat, table : ToSet(Tables), feeds : SUBSET Feeds, text : Texts,
           taxPartition : BOOLEAN, dl : BOOLEAN, city : Nat, state : Nat, name : Nat,
           usable : BOOLEAN, company : BOOLEAN]

ASSUME AddressAssumption ==
  /\ MaxRows \in Nat \ {0}
  /\ \A a \in Addresses :
       /\ None \notin a.spellings
       /\ \A x, y \in a.spellings :
            x \in Texts /\ NormalizeAddress(x) = NormalizeAddress(y)
       /\ a.rows \subseteq Rows /\ IsFiniteSet(a.rows)
       /\ \A r, q \in a.rows : r.id = q.id => r = q

ZipShapes == {"utility", "trace", "base", "loan", "drive", "auto"}
Shapes    == ZipShapes \cup {"tax"}

(* FEEDS: the tables that back a shape, and its source_file patterns.      *)
ShapeTables(s) ==
  CASE s \in {"utility", "trace"} -> {"records_legacy"}
    [] s = "base"                 -> ToSet(Tables)
    [] OTHER                      -> {"records_new"}

Pattern(s) == IF s \in {"loan", "drive"} THEN "payday" ELSE s

(* pattern_groups: the distinct pattern sets of a table, in ZIP_SHAPES     *)
(* order; the CASE of the query gives a row to the first one it matches.   *)
Groups ==
  [records_legacy |-> <<"utility", "trace", "base">>,
   records_new    |-> <<"base", "payday", "auto">>]

Group(t, r) ==
  Groups[t][Min({i \in DOMAIN Groups[t] : Groups[t][i] \in r.feeds})]

(* shapes_for_row: every shape a fetched row belongs to. *)
ShapesFor(r) ==
  {s \in Shapes : Pattern(s) \in r.feeds /\ (s = "drive" => r.dl)}

VARIABLES
  address,  \* what is scanned: it does not change while the service runs
  asked,    \* the spelling that the scan is made with, None between scans
  stage,    \* "idle", "zip" or "tax": the query materialize() awaits
  todo,     \* the tables scan_zip_sources has yet to read
  found,    \* rows_by_shape of the ZipScanResult
  bundle,   \* the AddressBundle in the cache, or None
  held      \* a handle that the engine remembers from a listing, or None

vars == <<address, asked, stage, todo, found, bundle, held>>

------------------------------------------------------------------------------
(* Phase one: the zip sources *)

(* The rows that the indexed predicate selects for a spelling.             *)
AtAddress(spelling) == {r \in address.rows : Selects(AddressPrefix(spelling), r.text)}

(* Those of table t that the patterns select.                              *)
Matching(t, spelling) ==
  {r \in AtAddress(spelling) : r.table = t /\ r.feeds \cap ToSet(Groups[t]) # {}}

(* A faulty CollapsedScan: one LIMIT for all the groups of a table.        *)
OneLimit(t, spelling) ==
  LET M == Matching(t, spelling)
  IN  {r \in M : Cardinality({q \in M : q.id <= r.id}) <= MaxRows}

(* _collapsed_scan_sql: of each group the MaxRows rows of least record_id. *)
CollapsedScan(t, spelling) ==
  LET M == Matching(t, spelling)
  IN  {r \in M : Cardinality({q \in M : Group(t, q) = Group(t, r)
                                          /\ q.id <= r.id}) <= MaxRows}

(* The rows of one query, in the order they came, go to all their shapes.  *)
Assigned(rows) ==
  [s \in ZipShapes |->
     found[s] \o Only(rows, {i \in DOMAIN rows : s \in ShapesFor(rows[i])})]

(* A faulty Truncated, which trusts the query's own budget.                *)
Untruncated(f) == f

(* The budget of a shape that spans two tables, applied again.             *)
Truncated(f) ==
  [s \in ZipShapes |-> SubSeq(f[s], 1, Min({MaxRows, Len(f[s])}))]

Ballots(f, field, v) ==
  Cardinality(UNION {{<<s, i>> : i \in {j \in DOMAIN f[s] : f[s][j][field] = v}}
                       : s \in ZipShapes})

(* A faulty Vote, which takes the first value seen.                        *)
FirstSeen(f, field) ==
  LET cast == UNION {{r[field] : r \in ToSet(f[s])} : s \in ZipShapes} \ {0}
      s    == CHOOSE z \in ZipShapes :
                \E r \in ToSet(f[z]) : r[field] # 0
  IN  IF cast = {} THEN 0
      ELSE SelectSeq(f[s], LAMBDA r : r[field] # 0)[1][field]

(* The majority vote over the rows kept, a payday row with a licence       *)
(* counting as loan and as drive; ties go to the first name.               *)
Vote(f, field) ==
  LET cast == UNION {{r[field] : r \in ToSet(f[s])} : s \in ZipShapes} \ {0}
  IN  IF cast = {} THEN 0
      ELSE CHOOSE v \in cast : \A w \in cast :
             \/ Ballots(f, field, v) > Ballots(f, field, w)
             \/ Ballots(f, field, v) = Ballots(f, field, w) /\ v <= w

City(f)  == Vote(f, "city")
State(f) == Vote(f, "state")

------------------------------------------------------------------------------
(* Phase two: the assessor's rows, and the bundle *)

(* The query of scan_tax_source: feed_clause("tax") adds the bounds of one *)
(* partition, TAX_PARTITION_START and TAX_PARTITION_END, to its patterns.  *)
TaxMatching(spelling, city, state) ==
  {r \in AtAddress(spelling) : /\ r.table = "records_new" /\ "tax" \in r.feeds
                               /\ r.taxPartition
                               /\ r.city = city /\ r.state = state}

InIdOrder(S) ==
  [i \in 1..Cardinality(S) |->
     CHOOSE r \in S : Cardinality({q \in S : q.id <= r.id}) = i]

(* A faulty StableOrder, which keeps the order of the query.               *)
AsFetched(rows) == rows

(* _stable_order: by record_id, which is unique. *)
StableOrder(rows) == InIdOrder(ToSet(rows))

(* materialize's last lines: the bundle that goes into the cache. f is     *)
(* what the zip scan kept, fetched the rows of the tax query, in order.    *)
(* The spelling it was made with is a history.                             *)
Materialized(spelling, f, fetched, timedOut) ==
  LET usable == Only(fetched, {i \in DOMAIN fetched : fetched[i].usable})
  IN  [rows |-> [s \in Shapes |->
                   StableOrder(IF s = "tax" THEN usable ELSE f[s])],
       dropped |-> Len(fetched) - Len(usable),
       city |-> City(f), state |-> State(f), timedOut |-> timedOut, asked |-> spelling]

Nothing == [s \in ZipShapes |-> <<>>]

Store(b) ==
  /\ bundle' = b
  /\ stage' = "idle" /\ asked' = None /\ found' = Nothing /\ todo' = <<>>

(* Blanks only are trimmed to the empty string, which a row may vote for.  *)
Blank == 1

(* What `not city` holds of: no vote at all, or one for the empty string.  *)
Falsy == {0, Blank}

(* scan_tax_source without a city or a state: no query, no suspension. *)
NoTaxQuery(f) == City(f) \in Falsy \/ State(f) \in Falsy

------------------------------------------------------------------------------
(* Actions *)

Init ==
  /\ address \in Addresses
  /\ stage = "idle" /\ asked = None /\ todo = <<>> /\ found = Nothing
  /\ bundle = None /\ held = None

(* The cache misses and starts materialize(), up to its first query.       *)
Begin(spelling) ==
  /\ stage = "idle" /\ bundle = None /\ Raw(spelling) # <<>>
  /\ stage' = "zip" /\ asked' = spelling /\ todo' = Tables
  /\ UNCHANGED <<address, found, bundle, held>>

(* An address of LIKE metacharacters only: nothing is left to query.       *)
MaterializeBlank(spelling) ==
  /\ stage = "idle" /\ bundle = None /\ Raw(spelling) = <<>>
  /\ Store(Materialized(spelling, Nothing, <<>>, FALSE))
  /\ UNCHANGED <<address, held>>

(* The query of one table returns. After the last one the budget is        *)
(* applied, the city and state are voted and the tax query is issued.      *)
ScanTable ==
  /\ stage = "zip"
  /\ \E rows \in SetToSeqs(CollapsedScan(Head(todo), asked)) :
       LET f == Assigned(rows)
           z == Truncated(f)
       IN  \/ /\ Len(todo) > 1
              /\ found' = f /\ todo' = Tail(todo)
              /\ UNCHANGED <<stage, asked, bundle>>
           \/ /\ Len(todo) = 1 /\ NoTaxQuery(z)
              /\ Store(Materialized(asked, z, <<>>, FALSE))
           \/ /\ Len(todo) = 1 /\ ~NoTaxQuery(z)
              /\ found' = z /\ todo' = <<>> /\ stage' = "tax"
              /\ UNCHANGED <<asked, bundle>>
  /\ UNCHANGED <<address, held>>

(* The tax query returns: any MaxRows of its rows, in any order. *)
TaxReturns ==
  /\ stage = "tax"
  /\ LET T == TaxMatching(asked, City(found), State(found))
     IN  \E S \in SUBSET T :
           /\ Cardinality(S) = Min({MaxRows, Cardinality(T)})
           /\ \E rows \in SetToSeqs(S) :
                Store(Materialized(asked, found, rows, FALSE))
  /\ UNCHANGED <<address, held>>

(* The tax query is cancelled: tax is reported absent, and timed out.      *)
TaxCancelled ==
  /\ stage = "tax"
  /\ Store(Materialized(asked, found, <<>>, TRUE))
  /\ UNCHANGED <<address, held>>

(* Any other exception of a query ends materialize() with no bundle.       *)
Fail ==
  /\ stage # "idle"
  /\ stage' = "idle" /\ asked' = None /\ todo' = <<>> /\ found' = Nothing
  /\ UNCHANGED <<address, bundle, held>>

(* The bundle leaves the hot tier: its TTL, the LRU cap. *)
Expire ==
  /\ bundle # None
  /\ bundle' = None
  /\ UNCHANGED <<address, asked, stage, todo, found, held>>

RecordHandle(s, n) ==
  [kind |-> "record", shape |-> s, at |-> n, is |-> bundle.rows[s][n].id]

(* records_block: a page of one shape's rows, each with its position in    *)
(* the bundle, of which the engine remembers one.                          *)
ListRecords(s, offset, limit) ==
  /\ bundle # None
  /\ LET window == SubSeq(bundle.rows[s], offset + 1,
                          Min({offset + limit, Len(bundle.rows[s])}))
     IN  \E i \in DOMAIN window : held' = RecordHandle(s, offset + i)
  /\ UNCHANGED <<address, asked, stage, todo, found, bundle>>

(* people_for_bundle: one person per name, in the order of the names. The  *)
(* rows of a person are those that bear the name; a company is not one.    *)
Bears(s, r, name) == r.name = name /\ ~(s = "tax" /\ r.company)

People(b) ==
  LET names == {n \in UNION {{r.name : r \in ToSet(b.rows[s])} : s \in Shapes} :
                  n # 0 /\ \E s \in Shapes : \E r \in ToSet(b.rows[s]) :
                                Bears(s, r, n)}
  IN  [i \in 1..Cardinality(names) |->
         CHOOSE n \in names : Cardinality({m \in names : m <= n}) = i]

ListPeople ==
  /\ bundle # None
  /\ \E n \in DOMAIN People(bundle) :
       held' = [kind |-> "person", at |-> n, is |-> People(bundle)[n],
                timedOut |-> bundle.timedOut]
  /\ UNCHANGED <<address, asked, stage, todo, found, bundle>>

(* _addr_person_records: the rows of a person, found by identity in the    *)
(* bundle, with the positions they have there.                             *)
ListPersonRecords(s) ==
  /\ bundle # None
  /\ LET people == ToSet(People(bundle))
     IN  \E p \in DOMAIN bundle.rows[s] :
           /\ \E name \in people : Bears(s, bundle.rows[s][p], name)
           /\ held' = RecordHandle(s, p)
  /\ UNCHANGED <<address, asked, stage, todo, found, bundle>>

Next ==
  \/ \E spelling \in address.spellings : Begin(spelling) \/ MaterializeBlank(spelling)
  \/ ScanTable
  \/ TaxReturns
  \/ TaxCancelled
  \/ Fail
  \/ Expire
  \/ \E s \in Shapes, offset \in 0..MaxRows, limit \in 1..MaxRows :
       ListRecords(s, offset, limit)
  \/ ListPeople
  \/ \E s \in Shapes : ListPersonRecords(s)

Spec == Init /\ [][Next]_vars

------------------------------------------------------------------------------
(* Properties *)

(* Every variable holds values of its type; a bundle holds, of each shape, *)
(* at most MaxRows of the address's rows, in the order of their ids.       *)
TypeOK ==
  /\ address.rows \subseteq Rows
  /\ asked \in address.spellings \cup {None}
  /\ stage \in {"idle", "zip", "tax"}
  /\ stage = "idle" <=> asked = None
  /\ todo \in {<<>>, Tables, Tail(Tables)}
  /\ found \in [ZipShapes -> Seq(address.rows)]
  /\ bundle # None =>
       /\ bundle.dropped \in 0..MaxRows /\ bundle.timedOut \in BOOLEAN
       /\ bundle.city \in Nat /\ bundle.state \in Nat
       /\ \A s \in Shapes :
            LET rows == bundle.rows[s]
            IN  /\ rows \in Seq(address.rows) /\ Len(rows) <= MaxRows
                /\ \A i, j \in DOMAIN rows : i < j => rows[i].id < rows[j].id
  /\ held # None => held.kind \in {"record", "person"} /\ held.at \in Nat \ {0}

(* The rows that a scan of its own would find for shape s. *)
ScannedAlone(s) ==
  {r \in AtAddress(bundle.asked) : s \in ShapesFor(r) /\ r.table \in ShapeTables(s)}

(* One query per table gives each shape what a query of its own would      *)
(* have: all of its rows, up to the budget, however dense the others are.  *)
(* Not so for drive, which has no group of its own, nor when a source_file *)
(* matches the patterns of two feeds.                                      *)
AsPerShapeScans ==
  bundle # None /\ Raw(bundle.asked) # <<>>
    /\ (\A r \in address.rows : Cardinality(r.feeds) = 1) =>
    \A s \in ZipShapes \ {"drive"} :
      Len(bundle.rows[s]) = Min({MaxRows, Cardinality(ScannedAlone(s))})

(* _collapsed_scan_sql: no dense shape consumes the whole allowance and    *)
(* starves the others.                                                     *)
NoShapeStarved ==
  bundle # None /\ Raw(bundle.asked) # <<>> =>
    \A s \in ZipShapes : ScannedAlone(s) # {} => bundle.rows[s] # <<>>

(* The part of a text that a scan may compare has none of what only one of *)
(* the two normalizers folds.                                              *)
FoldedAlike(text) ==
  LET n == IF Raw(text)[1].word \in Numbered THEN Min({2, Len(text)}) ELSE Len(text)
  IN  \A i \in 1..n : /\ text[i].mark = "none"
                      /\ text[i].word \notin {"APARTMENT", "APT", "SUITE", "STE"}
                      /\ text[i].word \notin UNION {{w, Ending[w]} : w \in DOMAIN Ending}

(* Two texts of one place, of which one may lack the type of the street or *)
(* the unit.                                                               *)
SamePlace(x, y) ==
  LET k == NormalizeAddress(x)
      l == NormalizeAddress(y)
  IN  Min({Len(k), Len(l)}) >= 2 /\ (IsPrefix(k, l) \/ IsPrefix(l, k))

(* When a bundle does not say that its tax scan timed out, a missing tax   *)
(* row is one that the partner does not hold for the voted city and state  *)
(* in the one partition the feed is looked for in, one the quality gate    *)
(* dropped and counted, or one beyond the budget. It is none of the        *)
(* address whose street type or unit is only spelled otherwise. But a row  *)
(* that was loaded into another partition is missing and counted nowhere.  *)
AbsenceMeansAbsence ==
  bundle # None /\ Raw(bundle.asked) # <<>> =>
    (~bundle.timedOut /\ bundle.city \notin Falsy /\ bundle.state \notin Falsy =>
      LET matching == TaxMatching(bundle.asked, bundle.city, bundle.state)
      IN  /\ Len(bundle.rows["tax"]) + bundle.dropped = Min({MaxRows, Cardinality(matching)})
          /\ \A r \in address.rows :
               "tax" \in r.feeds /\ r.table \in ShapeTables("tax") /\ r.taxPartition
                 /\ r.city = bundle.city /\ r.state = bundle.state
                 /\ FoldedAlike(bundle.asked) /\ FoldedAlike(r.text)
                 /\ Raw(bundle.asked)[1].word \in Numbered /\ SamePlace(r.text, bundle.asked)
                   => r \in matching)

(* The queries return no more rows of shape s than its budget, so that the *)
(* order in which they come decides nothing. For tax that takes as much of *)
(* every shape, since their rows vote the city and state. And whichever    *)
(* spelling the address is scanned with, the same rows are asked for.      *)
Steady(S) ==
  LET returned == UNION {CollapsedScan(t, bundle.asked) : t \in ToSet(Tables)}
  IN  /\ \A x \in address.spellings : FoldedAlike(x)
      /\ \A s \in S \ {"tax"} :
           Cardinality({r \in returned : s \in ShapesFor(r)}) <= MaxRows
      /\ "tax" \in S =>
           Cardinality(TaxMatching(bundle.asked, bundle.city, bundle.state)) <= MaxRows

AllSteady == Steady(Shapes)

(* A `__rowid` outlives its bundle: in any later bundle of the address it  *)
(* names the same record, however the address is spelled that time, unless *)
(* the shape has more rows than its budget or a spelling has what only one *)
(* normalizer folds; a tax row may be missing from a bundle whose tax scan *)
(* timed out, and then the position names nothing.                         *)
RecordHandleSound ==
  bundle # None /\ held # None =>
    (held.kind = "record"
       /\ Steady(IF held.shape = "tax" THEN Shapes ELSE {held.shape}) =>
      LET rows == bundle.rows[held.shape]
      IN  \/ held.at \in DOMAIN rows /\ rows[held.at].id = held.is
          \/ held.shape = "tax" /\ bundle.timedOut /\ rows = <<>>)

(* An addr:<id>:<n> names the same person in any later bundle of the       *)
(* address whose tax scan ended the same way.                              *)
PersonHandleSound ==
  bundle # None /\ held # None =>
    (held.kind = "person" /\ AllSteady /\ held.timedOut = bundle.timedOut =>
      held.at \in DOMAIN People(bundle) /\ People(bundle)[held.at] = held.is)

(* tests/test_people.py: person ids are stable across calls. An            *)
(* addr:<id>:<n> never names another person than the one it was given to.  *)
PersonIdsStable ==
  bundle # None /\ held # None =>
    (held.kind = "person" /\ AllSteady /\ held.at \in DOMAIN People(bundle) =>
      People(bundle)[held.at] = held.is)
==============================================================================
