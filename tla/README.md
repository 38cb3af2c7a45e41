# Occupancy graph service: a TLA+ model

The occupancy graph service answers a heuristic engine's questions about one
address, one person or one partner row. All its evidence comes from a partner's
Postgres database, which it reads through a small pool of connections, slowly
and subject to timeouts. This directory models the parts of the service that
have state, and checks and proves what makes them correct. All paths below are
relative to `src/`; `og/` stands for `src/occupancy_graph/`.

## 1. Inventory

| component | state it keeps | operations | what is hard |
|---|---|---|---|
| bundle cache (`og/source/bundle.py`) | ids per normalised address, the cold tier (id -> spelling), the hot tier (LRU of bundles), the table of tasks in flight | `resolve`, `get`, `_materialize_once`, `evict_hot` | every `await` lets other calls run; a task's end and its awaiters' wakeups are separate turns of the loop; two TTLs and a cap |
| address scan (`og/source/resolve.py`, `feeds.py`, `og/normalize.py`, `materialize` in `bundle.py`) | the rows found so far, during one `materialize()` | one query per table, then the tax query that depends on a vote over their rows | one budget per pattern group, a shape in two tables, rows in any order, cancellation of the second phase; three spellings of one address (the cache's, the prefix's, the partner's) |
| record and people listings (`og/service/records.py`, `og/source/people.py`, `og/service/handlers.py`) | none: they hand out positions in a bundle (`__rowid`, `addr:<id>:<n>`) | listings and look-ups by position | positions outlive the bundle they were read from |
| partner pool (`og/source/pool.py`) | the connections, their session settings, the drain | `acquire`/release, `close` | lost replies, lost cancellations, `RESET ALL` on each release, three clocks |
| lifespan and preflight (`og/service/app.py`, `serve.py`, `og/source/preflight.py`) | whether a process serves | startup, three checks of the partner's catalog, shutdown | the checks read a catalog that changes between them; a refused startup must still close the pool |
| people search and identity graph (`og/source/search.py`, `og/service/handlers.py`) | none; an engine keeps its place in a listing | name search; person -> links -> rows, page by page | dependent queries, each of which may be cancelled; pages of separate traversals; a capped scan |
| SQL hatch (`og/service/sql_hatch.py`, `sql_guard.py`, `limits.py`) | none | parse, explain, check, run, cap | a walk of the parse tree against writes at any depth; ceilings from the environment, read again in mid-request; its own timeout on a shared connection |
| HTTP operations (`og/service/handlers.py`) | none: ids and positions are the client's to keep | ten routes | ids live in one process's memory and are minted from 1 in each; positions are whatever number a client sends |
| row derivation, schema document, JSON (`og/source/project.py`, `derive.py`, `manifest.py`, `og/service/schema_doc.py`, `jsonio.py`) | none | pure functions of a row | formatting |
| clone loader (`clone/load.py`, `clone/loader/`, `ddl/`) | the union-find of the first pass, the counters of the second; the clone's tables outlive it | two passes over the feeds, COPY per plan, people, entity graph | the passes must agree; a crash leaves a part of the load, over which it may be started again; the files may change |

How they meet: a handler asks the cache for a bundle; the cache starts (or
joins) a task that runs `materialize()`; that acquires a connection of the pool
for each of its queries. The people, SQL and preflight paths acquire
connections directly. The lifespan owns the pool. Everything runs on one asyncio
loop, so steps interleave only at an `await`.

What makes each correct:

* cache: one scan per address at a time, own address, no dead task, LRU and TTL
  order, every call answered;
* scan and listings: the collapsed query gives each shape what its own query
  would, absence within the queried partition is explained, a position means the same in the next bundle;
* pool and lifespan: every command is read-only and bounded, the server's clock
  fires before the client's, no request or shutdown hangs, no leak;
* search: a page is whole or flagged, pages fit together, a total is exact below
  the scan's cap, either form of a name finds the same people;
* preflight: a process that serves has, at one moment, had everything it
  requires; hatch: no query has an effect, none runs over a ceiling, a page says
  exactly when it is cut; routes: ids and positions name what they were given for;
* loader: clusters are exact, each record has the owner its row has, a load
  that ends well is complete, and the entity graph agrees with the oracle.

## 2. The modules

### BundleCache, AddressService

`BundleCache` is the cache step by step on the event loop. The variables
`byKey`, `cold`, `hot`, `inflight` and `nextId` are the fields of the class
(`hot` is a sequence in the order of the `OrderedDict`). `ready` is the loop's
ready queue: `Arrive` puts the coroutine of a request at its end, and only its
head may run (`Resolve`, `Get`, the first `Step` of a task, `Wake`). One action
is one uninterrupted stretch of code between two suspensions. `_materialize_once`
splits at `await task`: `StartTask` (the owner), `JoinTask` (a waiter),
`TakeDone` (an `await` of a task that has ended does not suspend), and `Wake`
after it, where the owner's `finally` unregisters the task (`Unregister`) and
every awaiter stores the bundle (`TakeResult`). `ScanReturns` ends the one
suspension that a scan has here; what `materialize()` does between its queries is
`AddressScan`'s matter. `evict_hot` is the module's test hook.

`AddressService` says what the handlers rely on, without tiers, clock or loop:
at most one scan per address at a time, and a call is answered once, from a scan
of its own address or with the news that the id is unknown. `BundleCache`
implements it (property `AddressServiceSpec`, and a proof).

### AddressText, AddressScan

`AddressText` is what three pieces of code make of one address: the cache's key
(`normalize_address`), the prefix that a scan asks for (`AddressQuery.build`) and
the partner's `s5_street_norm`, which the query applies to that prefix and to
the addresses of its rows. An address is a sequence of words, each with what
follows it: nothing, a punctuation character or a metacharacter of `LIKE`. Of a
word the model knows whether it begins with a digit and which words begin with it.

`AddressScan` is `materialize()` over the partner's tables, the listings, and an engine that
remembers one handle while bundles come and go. A row is a record of the fields
that control flow reads: id, table, the feeds its `source_file` matches, its
address, whether it has a licence, city, state, name, the verdict of the tax
quality gate, whether its owner is a company, and whether it was imported into
the one partition that the tax query is bound to (`feeds.py:36-37, 90-91`). A call names the address in
one of its spellings; the next scan may be made with another.
`ScanTable` is one table's query with whatever order its rows come in, followed,
after the last table, by the truncation, the vote and the decision to query
tax. `TaxReturns` takes any `MaxRows` rows of the matching ones, since that query
has no order; `TaxCancelled` is its timeout; `Fail` is any other exception;
`Expire` is the bundle's end in the cache. `ListRecords`, `ListPeople` and
`ListPersonRecords` hand out handles, which the properties look up again in
whatever bundle is current.

### PartnerPool

The pool, its callers and the lifespan. `conn[i]` is a slot of the pool: its
state, who holds it, the age of its command, how long its path has been dead, its
session settings. `After` lists, per command, what its caller may run next:
these are the sequences of `materialize`, `person_records`, `run_query` and
`verify_address_indexes`. A command ends by `Reply`, by `GiveUp`
(`command_timeout`), by `KeepaliveFails` or by `Terminate`; its caller goes on
only when the release is done (`Released`, `ResetFails`). `Handled` says which
endings each caller catches. `Served` is the lifespan's reaction to the preflight;
`Close`, `Drained` and `Terminate` are `PartnerPool.close`.

asyncpg and the kernel are not in the repository: they are modelled from
how `pool.py` uses them and from what its comments say of them, and are marked
external in the map. A RESET or the confirmation of a cancellation takes
no time on a live path. `close` is called with nobody queued for a connection,
because uvicorn ends its requests before the lifespan shuts down.

### IdentityGraph

The paths through the partner's identity graph. `graph` is what its tables hold
(`entity_master`, `entity_links`, `unique_keys_name_dob` and the record tables);
it does not change, since every load of the partner's is weeks apart. The
service keeps nothing between requests, so that the state is that of one engine:
its last search (`answer`), or its reading of one person's records (`walk`), and
of the request it awaits (`stage`, `todo`, `fetched`, `page`). One action is one
query. `Search` joins the capped key scan with the entities; `ReadPerson`,
`ReadLinks` and `FetchTable` are the traversal, the last once per table that the
links name; `Respond` sorts, filters by shape, cuts the page and lets the engine
go on while `has_more`. A query without `ORDER BY` returns its rows in any
order, one with `ORDER BY` in any order that satisfies it. `FetchCancelled` and
`SearchCancelled` are the two timeouts the code catches, `Fail` all other errors.
An order is any sequence of the set's elements that ascends by the query's columns,
so that what remains undetermined is what the code leaves so, and `sorted()` keeps
the rows of one id in the order they came in (`ById`). The engine searches before it turns to a person. A typed name is its words and
the place of its comma, which `NameParts` turns into the key range that is scanned.

### PersonIndex, CloneLoader

`PersonIndex` is the union-find of `clone/loader/identity.py` with its ranks and
path compression, and next to it (`AreClusters`) what the clusters are without
union-find: rows that share a known key are of one person, and no person's rows
fall into two groups which share none. `CloneLoader` is the process that
uses it and the tables that outlive the process. Pass 1 adds a row per step
(`IdentifyRow`, `EndPlan`); pass 2 is, per plan, the COPY of the records and the
COPY of their oracle rows (`CopyRecords`, `CopyOracle`), because each COPY is
atomic and there is no transaction around two of them. `CopyPeople`,
`CopyMasters`, `CopyLinks` and `Analyze` follow, which write what `PeopleOf` finds
in the oracle and what `MastersOf` and `LinksOf` make of the records' ssns. `Crash` ends the process between
any two steps; an error (`Abort`: a key that is taken, a node without a person,
the check of the two counts) ends it too. `Start` begins a load over whatever the
tables hold, `Rebuild` loads the DDL again, `Checkout` replaces the csv files, at
any time.

### Http, Preflight, SqlGuard, SqlHatch, TypedSurface, Service

`Service` composes three parts that share the processes and the partner's
database. `Preflight` is the start of a process: `CheckFunction`, `CheckIndexes`
and `VerifyCollation` are the queries of the three `verify_*` functions, and
`Partner` is what the partner does to its catalog between any two of them (an
index that is built is invalid until `FinishIndex`; dropping the function drops
the indexes over it). `sound` is a history. `SqlHatch` is one request to
`POST /v1/sql`: `Post` runs up to the first await (the body, `Parse` of
`SqlGuard`, the wrap and the row cap), `Explained` is the answer to EXPLAIN and
the check of the plan, `Executed` the query in its read-only transaction, `Fails`
either command's error. Parse trees and plans are sequences of nodes with their
depth, of which the code reads a kind, a name, a cost. The limits are parsed as
`limits.py` parses them, at the moment it does. `TypedSurface` is the routes by
`address_id`, by position and by `record_id`; it reduces the cache to `ids` and
`known`, a bundle to the lengths and items of its listings. `Http` holds what
they have in common: `reply`, and what `int()` and `float()` make of a value.

In `Service` a process that ends (`Stops`) loses its request and, when it
serves again, its ids (`NewCache`); its hatch command may or may not have run.

### Composition

`BundleCache` abstracts a scan to one suspension with three outcomes
(a bundle, a degraded bundle, an exception). `AddressScan` says what is in the
bundle, `PartnerPool` that each of its queries ends and how, which is what
justifies the fairness of `ScanReturns`. `Service` abstracts the cache to its ids
and takes the bundle of an address as fixed: that bundles change, and what that
does to positions, is `AddressScan`'s matter.

## 3. The runs

| run | module and bounds | what it shows |
|---|---|---|
| `bundle_time` | three calls, three addresses, a hot tier of two, both TTLs 1, time up to 2 | types, LRU order, TTLs, recoverability, eviction only when full, `AddressService` implemented |
| `bundle_race` | three calls, two spellings of one address and another address, a hot tier of one, TTLs 0 | single flight, own address, no dead task registered, no stale overwrite, every call answered |
| `scan` | every choice of at most four rows out of twelve, an address typed with and without its street type abbreviated, a budget of two; three addresses for spelling alone | collapsed scan, absence, handles |
| `scan_drive`, `scan_person` | at most three rows, a budget of one and two | expected violations, see 6 |
| `pool_slots` | preflight and two requests, two connections, the shortest times that keep the order of the real ones | types, bounds on commands, the server's clock first, the drain |
| `pool_live` | one connection for two requests, the real times in ticks of 10 s (statement 20 s, command 50 s, keepalive 90 s, close at most 30 s) but a hatch budget of 60 s, so that the client also gives up on live connections | every request ends, close returns |
| `pool_timeout` | as `pool_live` | expected violation, see 6 |
| `graph` | every choice of five links out of seven over four rows of both families, at most three links counted, a key scan capped at five, seven typed names in both forms, page sizes 0 to 2 | pages fit together, a page is whole or flagged, searches are exact below the cap and agree, has_more ends |
| `load` | 34 csv directories of ten or eleven rows, no limit or one row per plan, `BASE_LEGACY_MODULUS` 2, three loan records of which one draws no ssn | exact clusters, complete and attributed loads, the oracle at most one plan behind, the entity graph agrees, diverging counts are caught |
| `service` | one process that serves twice, one required index of which two definitions may be built, ten queries, three plans, results of 0 to 3 rows, six settings of the limits, two addresses | serves only behind a usable index, no effects, ceilings, exact cap, honest handles |
| `service_fleet` | two processes, no hatch requests | expected violation, see 6 |

Why the bounds suffice. In the cache, the interesting races need an owner, a
waiter and a late call for the same address, any of which may be the one for the other
address (three calls); two expiries and an eviction need three addresses and two ticks. In the scan, a budget
of two with four rows exceeds every group's budget, the cut of the base shape over
two tables, and both ties and majorities of the vote; the twelve rows contain each
feed, both tables, a payday row with and without a licence, a file that matches two
feeds, unusable and company tax rows, a row of the tax feed in a later partition, rows
without a city and with a blank one, and of the address
every way a row may differ: no street type, a spelled-out one, a unit, and a longer
street name that the prefix selects too. In the pool, two
connections and three clients let one be stuck while the other changes hands; with
one connection, whoever is stuck blocks everybody, which is the worst case for
liveness. In the graph, three links over two families and three names of tables contain
the row that is linked twice, the id that exists in both families, ties of
confidence, and a link beyond `MAX_LINKS`; a page of one row makes three pages of
a person; the names contain a surname of two words, a name in both forms, and a
comma without a surname. In the service, every stage of the hatch can refuse: the
queries offend at three depths and under a qualified name, one writes through a
function no list has, the plans lie at and over each ceiling, and the results below, at
and over the cap; two lives of one process are a restart, two definitions an index
that lacks the operator class. Two processes or more, and two required indexes, are
the proof's matter: the run would be the product of their states. In the loader,
the first rows of utility, trace and loan take every kind, so that the fixed row of base joins clusters directly, through a third
row, or merges two; the radices of the ssn are 2, 2 and 8, so that ids need
all three of its parts. Loads are not counted: as each starts with an empty memory, any
number of them has finitely many states. Limits are at least 1, and utility.csv
has rows: the refusal of a second load rests on the first plan's ids being taken
(a load with limit 0 over a crashed one would build people and entities of the
part that is there, and end well). The counters are bounded by the guards: `MaxTime` and `MaxId` in the
cache, `MaxLives` in the service, `CommandTimeout`, `Keepalive + 1` and `CloseTimeout` in the pool.

Symmetry (calls) is used in `bundle_time` only, whose properties are all safety.

### Fairness

`BundleCache`: the loop runs the head of its queue (`WF` of each coroutine step),
and a query of a scan returns: it is bounded by `statement_timeout`,
`command_timeout` and the keepalives, which is what `EveryRequestEnds` checks on
the pool. Requests, evictions and the clock have no fairness. `PartnerPool`:
asyncpg hands out a connection to a waiting caller, the server replies on a
live path, timers fire, the kernel reports a dead socket, and time passes.
Nobody has to send a request, break a path or stop the service.
`IdentityGraph`: an awaited query ends in one of its ways, and the engine asks
for the next page while `has_more`, which is the premise of the question whether
that ends. `CloneLoader` and `Service` have no liveness property and no fairness: a loader is started by hand,
and a process may be refused for ever. Weak fairness
of `Acquire` per client and slot is what asyncpg's queue of waiters gives.

## 4. What is proved

Proofs hold for every value of the constants that satisfies the modules'
assumptions (`ConstantsAssumption`, `PoolAssumption`, ...).

* `BundleCacheProofs`: `TypeOK`, `SingleFlight` and `OwnAddress`. The
  inductive invariant `IInv` adds to the types where each coroutine stands
  (`Places`), that a running task is registered and owned by a call that awaits it
  (`Flight`), that hot, cold and key tables agree on ids (`HotSound`,
  `KeySound`) and that answers come from tasks of the same id (`AnswerSound`).
  `SingleFlight` alone says nothing of `inflight`, and so is not inductive: two
  running tasks are impossible because both would be registered under one id.
* There too: `HotAge`, `LeastRecentFirst`, `EvictedOnlyWhenFull` and
  `Recoverable`, each by an invariant of its own on top of `IInv`. A hot entry
  carries the expiry of a store that some call made when it returned that bundle
  (`AgedEntries`), which a hit moves but does not change. Every id is dated by the
  answer that last gave its bundle (`Dates`), and the tier is strictly ordered by
  that date (`Dated`): so an id has one entry, what a lookup drops is its own
  expired entry, and what the cap cuts off is the oldest. An id that a resolve
  looked up has a cold entry that lasts as long as that resolve promised
  (`Remembered`), since a later resolve only prolongs it.
* And `NoDeadTask` and `NoStaleOverwrite`. A call that
  awaits a task is among its done-callbacks while it runs, and has its wakeup in
  the loop's queue once it has ended (`WakeInv`); that is also what liveness rests
  on. That a late waiter never stores an old bundle over a newer one is due to the
  queue being FIFO, and to nothing in the class: the wakeups of a finished task
  stand before the first step of any task started after it (`WakesBeforeSteps`), so
  that no newer scan of the address has ended when the last of them is served.
* `BundleCache` implements `AddressService`: every step maps to a step or a stutter.
* `AddressScanProofs`: `TypeOK`, `AsPerShapeScans`, `AbsenceMeansAbsence`,
  `RecordHandleSound` and `PersonHandleSound`, for every address with any spellings of
  one key, any rows with ids of their own, and every budget. A handle outlives its
  bundle, so the invariant keeps what the program does not: that the bundle, and the
  one that the handle came from, are each what some scan of the address
  materializes (`Scanned`, `Outcome`), where a scan kept of each shape rows that the
  queries returned, as many as the budget allows (`Kept`). Two such scans make the
  same rows of a shape within its budget, in one order, for three reasons. What both
  normalizers fold alike selects the same rows: as far as the prefix goes, the key
  is what the partner compares (`PrefixIsNormal`, `SpellingsSelectAlike`). Within the
  budget, what is kept is all that is returned (`WholeShape`). And the vote is one of
  the set of rows, not of their order (`VotesAgree`), so that both ask for the
  same tax rows. `AsPerShapeScans` counts instead: a row of a single feed is in one
  group, and a budget applied per table and again over two tables is one budget over
  both. `AbsenceMeansAbsence` needs that a text of the same place begins with the two
  words asked for (`SamePlaceSelected`); it is a statement about the partition that is
  queried, and a tax row in another one is missing without a trace. Texts are all sequences of words here, of
  which `TextAssumption` says that no street type begins with a digit.
* `PartnerPoolProofs`: `TypeOK`, `EveryCommandBounded`, `ServerBoundFirst` and
  `DrainSuffices`. The inductive invariant says besides what an idle
  connection's settings are and that the server's clock runs on the command's
  own budget (`Sessions`), that the drain has lasted no longer than a live
  connection's command has (`Draining`), that the preflight runs only before the
  service opens (`Booting`), and that a client knows how its command ended only
  while it still holds the connection (`Knowing`). `ServerBoundFirst` then
  follows: at `CommandTimeout` a live connection would have exceeded its budget.
* `ServiceProofs`: `TypeOK`, `ServesOnlyChecked`, `ReadsOnly`, `RunsBounded`,
  `CapExact` and `HandlesHonest`, for any number of processes, addresses and required
  indexes, any trees, plans and settings. Its inductive invariant has a part per
  component. Preflight: an index over the function is evidence of the function, so
  that when the indexes are found in order the schema was whole at that moment,
  whatever happened since the function was checked. Hatch: what is in hand has
  passed the guard, is wrapped at its cap plus one and, once explained, lies within
  ceilings that are numbers. Routes: the engine's id is of a life of its process
  that is over, or still leads to its address. The premise to know is
  `Escaping \subseteq Listed`: the list of refused functions names every function
  whose effects no transaction contains, which `sql_guard.py` itself calls
  unprovable. Writes need no such premise, the read-only transaction refuses them.
* `SortedSequences`: what the others need of sequences that list a finite set in an
  order, `ORDER BY`, `sorted()` and the budget of a query: that an asymmetric order
  leaves only one, how long it is, which elements its prefixes hold, and how many
  have the least keys.
* `IdentityGraphProofs`: `TypeOK`, `WalkWhole`, `PageHonest`, `SearchComplete` and
  `SearchesAgree`, for every graph, name, shape and limit. The invariant of a walk
  (`WalkInv`) says that what was fetched, with what is still to do, is exactly what
  the links name (`FetchInv`), and that what the engine has read is the beginning of
  one sequence, the attributed rows by id (`ReadInv`). Two traversals fetch in
  different orders, but a row is fetched once and rows of one id in two families come
  in the order of the tables, which the links determine: so every page is cut from
  the same sequence, and pages fit together. `SearchComplete` rests on the form of
  names: what `NameParts` reads are exactly the keys that the name spells.
* `PersonIndexProofs`: the union-find is exact for any rows (`PersonsOfAnIndex`):
  parents form a forest in which each node reaches one root (ranks ascend towards
  it), compression and union keep who is joined but for the two clusters united, and
  the blocks hold for each known key a node that has it. From this the roots are
  the clusters, and `person_ids` numbers them without gaps in the order of their first
  rows. `SsnsDiffer`: `synthetic_ssn` gives no two persons below the capacity one ssn.
* `CloneLoaderProofs`: `TypeOK`, `OracleBehindOnePlan`, `EntitiesArePeople`,
  `RowsAccounted`, `PersonsAreClusters` and `LoadExact`, for any feeds, limits, crashes, reloads and replacements of the
  files. No property is inductive, as the tables outlive the process and a load begins
  over what another one left. The invariant splits in two: a process that has copied
  nothing yet (`Fresh`) knows nothing of the tables, which are in order by themselves
  (`DbOK`: there was once a list of persons for which the oracle is the first records'
  and the rest are one plan's, `Ledger`); a process that has copied something
  (`CopyOK`) found them empty, as every load begins with record 10 of legacy and
  `records_pkey` refuses it twice, so that they are what it copied itself. There,
  records and nodes are counted alike, whatever files the passes read. That two records
  share an entity only if they have one owner then is `SsnsDiffer`, with as many persons as
  all plans have rows (`LoaderAssumption`: the code's capacity is 10^8). While the files
  stay (`ReadOK`), the index is that of the first rows of `Read`, the plans' rows one
  after another, and the records are exactly its beginning: the n-th has the id that the
  rows of its table before it leave (`Tally`), and node n is its own. `PersonsAreClusters`
  and `LoadExact` follow.

## 5. What is only checked, and what is left out

Only checked by TLC: all liveness (`EveryCallAnswered`, `EveryRequestEnds`,
`CloseReturns`, `WalkEnds`), which is out of the prover's reach. Every invariant and
every action property of a passing run is also a theorem.

Left out: cancellation of a request by its client (the handlers do not shield
their `await`s, and Starlette does not cancel them); marks inside a word of an
address and a second comma in a name; the decoding of `raw_data`; `healthz` and
`describe_schema`, which answer constants; error bodies and routing; log lines,
the warning of a collation that is not bytewise among them; the grammar of SQL, which
is `pglast`'s, and the single names on the guard's lists, which are one set; projection
and derivation of fields, the schema document, JSON: pure functions of a row whose only
effect on control, the tax quality gate and the company test, is a field of the rows;
a city or state of a tax row that has blanks around it (the query compares it
untrimmed, the vote does not: such a row is one of another city);
names and homes of csv rows of which only a part is missing (the model takes them as
missing as a whole, also in `JoinKey`, where `DRIVE_JOIN_KEY` compares four parts);
the mapping and coercion of csv columns, the canonical fields and the stamped
confidences of entities. `_by_key` and `_cold` grow without a bound by design; the
model bounds them by `MaxId`.

`EveryCommandBounded` and its two companions assume what the code leaves
to its operator: `ServerBoundFirst` holds only while `SQL_HATCH_TIMEOUT_MS` is
within `PARTNER_STATEMENT_TIMEOUT_MS` (else a slow hatch query is given up by the
client first), and `DrainSuffices` only while the statement timeout is below
the cap on the drain window. Both conditions are premises of the properties.

With the real times the keepalives report a dead path after 90 s, later than
the 50 s of `command_timeout`: what ends a command whose reply is lost is always
`command_timeout`. The keepalives matter for the wait that has no other bound,
the confirmation of a cancellation, and for idle connections.

## 6. Where code and documentation disagree

* `scan_drive`: `_collapsed_scan_sql` says that no dense shape starves another.
  Drive shares loan's budget, and payday rows without a licence use it up.
* `scan_person`: a test names the promise that person ids are stable across
  calls. When the next bundle's tax scan times out, an `addr:<id>:<n>` names
  another person.
* `pool_timeout`: `pool.py` says that callers degrade on the `TimeoutError` of
  `command_timeout` as on `QueryCanceledError`. None of them catches it.
* `service_fleet`: `serve.py` and the README say to scale by running more
  containers behind a load balancer. Each mints its own `address_id`s from 1, and
  answers an id that another gave out with 200 and another address's rows.

Met while modelling, and not shown by a run of their own:

* `_materialize_once` says that after a failure the next call starts a fresh task
  (`bundle.py:208-212`). A call that runs between the task's end and its owner's
  wakeup awaits the dead one (`TakeDone`), and gets its exception.
* The comment at `resolve.py:56-58` says that `s5_street_norm` rewrites
  punctuation. As dumped in `ddl/003_silver.sql:107-121` it does not: "12 St. Johns
  Rd" and "12 St Johns Rd" have one key in the cache and select different rows, so the
  rows of the address depend on which was asked first. `FoldedAlike` excludes this
  from the properties.
* `feeds.py:83-87` says that a later partition of property_owner would silently drop
  rows, and that `tests/test_live_smoke.py` asserts that there is none. No test
  there does: the one that reads a tax row (line 146) expects that of one address, and
  names a drop and a timeout as the reasons for its absence. So a missing tax
  row means absence within the partition only, which is all that
  `AbsenceMeansAbsence` claims.
* `normalize_address` is not idempotent: "OAK TRACE." becomes "OAK TRACE", and that
  "OAK TRCE", since the final point has become a blank when the end is looked for.
* `preflight.py:109` says that indexes are matched on schema, name and relation
  together; its query matches names and relations independently, so that an index of
  a required name on another required relation passes (`Found`).
* `sql_guard.py:162` says of a refusal that it comes before execution;
  `sql_hatch.py:232-239` raises the same exception for errors of the execution.
* The handlers say that an unparseable number is a 400. `Infinity` for `rows` or
  `max_rows` raises OverflowError, and a `query` or `zip` that is no text
  AttributeError: both are a 500 (`IntStatus`, `AtOnce`).

One limit of the loader is by design and not a disagreement: `load.py` calls
the comparison of the two counts a tripwire, and it is one for counts only. Files
that are replaced by others with as many rows pass it, with the wrong owners;
`LoadExact` therefore speaks of loads whose files stayed, `RowsAccounted` and
`EntitiesArePeople` of all.

## 7. Plan

1. `Service` with its caches: the bundle of an address is fixed there, and
   `AddressScan` has one address. A composition of the two would state
   `HandlesHonest` over bundles that change.
2. Theorems about the abstractions between modules: that what `BundleCache` takes a scan
   to be, one suspension with three outcomes, is what `AddressScan` does, step by step.
