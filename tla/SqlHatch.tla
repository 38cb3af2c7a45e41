------------------------------- MODULE SqlHatch -------------------------------
(***************************************************************************)
(* POST /v1/sql: the handler (service/handlers.py), the four stages of the *)
(* hatch (service/sql_hatch.py) and the limits they read from the          *)
(* environment at each call (service/limits.py). A request's stages hold   *)
(* no lock: it suspends twice, for EXPLAIN and for the query itself, each  *)
(* on a connection of its own, and between the two the partner may change  *)
(* what the planner would answer.                                          *)
(***************************************************************************)
EXTENDS SqlGuard

CONSTANTS
  Bodies,       \* request bodies: [query : ..., rows : ...]
  Plans,        \* the plans that EXPLAIN may show
  Sizes,        \* how many rows a query may have
  Settings,     \* the values that operators give the four limits
  Defaults,     \* DEFAULT_MAX_PLAN_COST and so on
  Records       \* the relations that is_records_relation knows

(* The query of a body: SQL, no text at all, or nothing.                   *)
Queries == Texts \cup [kind : {"missing", "notText"}]

(* A plan is written down like a parse tree. A node has a cost in whole    *)
(* units, and the relation it scans, if any.                               *)
PlanNode == [type : {"Seq Scan", "Other"}, relation : Records \cup {None}, cost : Nat]

ASSUME HatchAssumption ==
  /\ Bodies \subseteq [query : Queries, rows : Values]
  /\ Plans \subseteq {s \in Seq(PlanNode) : s # <<>>}
  /\ Sizes \subseteq Nat
  /\ Settings \subseteq [cost : Values, seqscan : Values, rows : Values, timeout : Values]
  /\ Defaults \in [{"cost", "seqscan", "rows", "timeout"} -> Nat \ {0}]
  /\ None \notin Records
  /\ None \notin [stage : {"explain"}, why : Records \cup {"total cost"}]
  /\ None \notin [status : {422}, refused : [stage : {"parse"}, why : Reasons]]

VARIABLES
  setting,  \* the environment of the processes
  hatch,    \* the request in hand: "idle", "explain" or "execute"
  asked,    \* its max_rows
  wrapped,  \* its query, wrapped
  cap,      \* its row cap
  plan,     \* the plan that passed, None before
  effects   \* what running queries has done to the partner's database

request   == <<hatch, asked, wrapped, cap, plan>>
hatchVars == <<setting, request, effects>>

------------------------------------------------------------------------------
(* _float_env and _int_env, which raise ValueError (Bad) on what they do   *)
(* not take. A ceiling may be 0; a cap or a timeout may not.               *)
Bad == [kind |-> "bad"]

(* A faulty Ceiling, which takes whatever float() takes.                   *)
CeilingAsParsed(v, default) ==
  CASE v.kind = "unset" -> Is(default)
    [] v.kind = "word"  -> Bad
    [] OTHER            -> v

Ceiling(v, default) ==
  CASE v.kind = "unset"                      -> Is(default)
    [] v.kind = "number" /\ v.value >= 0     -> v
    [] OTHER                                 -> Bad

AtLeastOne(v, default) ==
  CASE v.kind = "unset"                      -> Is(default)
    [] v.kind = "number" /\ v.value >= 1     -> v
    [] OTHER                                 -> Bad

MaxPlanCost == Ceiling(setting.cost, Defaults.cost)
MaxSeqscan  == Ceiling(setting.seqscan, Defaults.seqscan)
MaxSqlRows  == AtLeastOne(setting.rows, Defaults.rows)
SqlTimeout  == AtLeastOne(setting.timeout, Defaults.timeout)

(* cost > ceiling in floating point: no number exceeds inf or nan.         *)
Exceeds(cost, ceiling) == ceiling.kind = "number" /\ cost > ceiling.value

Dear(node) ==
  /\ node.type = "Seq Scan" /\ node.relation \in Records
  /\ Exceeds(node.cost, MaxSeqscan)

(* A faulty SeqScans, which looks at the root alone.                       *)
RootSeqScan(p) == {i \in {1} : Dear(p[i])}

(* The nodes for which check_plan refuses a plan.                          *)
SeqScans(p) == {i \in DOMAIN p : Dear(p[i])}

CheckPlan(p) ==
  IF SeqScans(p) # {} THEN Refusal("explain", p[First(SeqScans(p))].relation)
  ELSE IF Exceeds(p[1].cost, MaxPlanCost) THEN Refusal("explain", "total cost")
  ELSE None

CapFor(rows) == IF rows.kind = "unset" THEN MaxSqlRows.value
                                       ELSE Max(1, Min(rows.value, MaxSqlRows.value))

------------------------------------------------------------------------------
Refused(r) == [status |-> 422, refused |-> r]

(* A page of n rows, with the question it answers (a history): max_rows,   *)
(* and how many rows the query had.                                        *)
Page(n, more, size) ==
  [status |-> 200, count |-> n, truncated |-> more, of |-> [rows |-> asked, size |-> size]]

Idle ==
  /\ hatch = "idle" /\ asked = [kind |-> "unset"]
  /\ wrapped = None /\ cap = 0 /\ plan = None

HatchInit == setting \in Settings /\ Idle /\ effects = {}

(* The request in hand is over.                                            *)
Dropped ==
  /\ hatch' = "idle" /\ asked' = [kind |-> "unset"]
  /\ wrapped' = None /\ cap' = 0 /\ plan' = None

Answer(r) == Dropped /\ reply' = r

(* What run_sql and the first two stages answer at once, if anything.      *)
(* strip() of a query that is not a text raises AttributeError.            *)
AtOnce(body) ==
  IF body.query.kind \in {"missing", "blank"} THEN Status(400)
  ELSE IF IntStatus(body.rows) # 200 THEN Status(IntStatus(body.rows))
  ELSE IF body.query.kind = "notText" THEN Status(500)
  ELSE IF Parse(body.query) # None THEN Refused(Parse(body.query))
  ELSE IF MaxSqlRows = Bad THEN Status(500)
  ELSE None

(* A faulty ToFetch, without the row that tells a full page from a cut one.*)
FetchTheCap(c) == c

ToFetch(c) == c + 1

(* run_sql up to its first await.                                          *)
Post(body) ==
  /\ hatch = "idle"
  /\ IF AtOnce(body) # None
     THEN Answer(AtOnce(body))
     ELSE /\ hatch' = "explain" /\ asked' = body.rows
          /\ cap' = CapFor(body.rows)
          /\ wrapped' = Wrap(body.query.stmts[1], ToFetch(cap'))
          /\ UNCHANGED plan /\ Silent
  /\ UNCHANGED <<setting, effects>>

(* EXPLAIN shows plan p. The ceilings are read only now.                   *)
Explained(p) ==
  /\ hatch = "explain"
  /\ IF Bad \in {MaxPlanCost, MaxSeqscan}
     THEN Answer(Status(500))
     ELSE IF CheckPlan(p) # None
     THEN Answer(Refused(CheckPlan(p)))
     ELSE /\ hatch' = "execute" /\ plan' = p
          /\ UNCHANGED <<asked, wrapped, cap>> /\ Silent
  /\ UNCHANGED <<setting, effects>>

(* A faulty Transaction, which leaves it to the pool's default.            *)
PlainTransaction == [readOnly |-> FALSE]

Transaction == [readOnly |-> TRUE]

Ran == effects' = effects \cup EffectsOf(wrapped.body, Transaction.readOnly)

(* A query that has begun may have its effect although nobody gets its     *)
(* rows.                                                                   *)
MayHaveRun == UNCHANGED effects \/ (hatch = "execute" /\ SqlTimeout # Bad /\ Ran)

(* The query runs, and has n rows now. In a read-only transaction one that *)
(* would write ends with an error instead.                                 *)
Executed(n) ==
  /\ hatch = "execute" /\ SqlTimeout # Bad
  /\ Ran
  /\ IF Writes(wrapped.body) /\ Transaction.readOnly
     THEN Answer(Refused(Refusal("explain", "error")))
     ELSE LET fetched == Fetched(wrapped, n)
          IN  Answer(Page(Min(fetched, cap), fetched > cap, n))
  /\ UNCHANGED setting

(* The timeout to be SET LOCAL does not parse: nothing runs.               *)
NoTimeout ==
  /\ hatch = "execute" /\ SqlTimeout = Bad
  /\ Answer(Status(500))
  /\ UNCHANGED <<setting, effects>>

(* Either command ends badly: with a PostgresError, QueryCanceledError     *)
(* among them, which is a refusal, or with TimeoutError or a closed pool,  *)
(* which nobody catches.                                                   *)
Fails ==
  /\ hatch # "idle"
  /\ \E r \in {Refused(Refusal("explain", "error")), Status(500)} : Answer(r)
  /\ MayHaveRun
  /\ UNCHANGED setting

Hatch ==
  \/ \E p \in Plans : Explained(p)
  \/ \E n \in Sizes : Executed(n)
  \/ NoTimeout
  \/ Fails

------------------------------------------------------------------------------
HatchTypeOK ==
  /\ setting \in Settings
  /\ hatch \in {"idle", "explain", "execute"}
  /\ asked \in Values
  /\ cap \in Nat
  /\ hatch = "idle" => wrapped = None
  /\ hatch # "idle" => wrapped \in [body : Trees, limit : Nat]
  /\ plan \in Plans \cup {None}
  /\ effects \subseteq {"write", "escape"}

(* No query that the hatch has run changed anything: what it writes the    *)
(* read-only transaction refuses, although the guard knows no function of  *)
(* the partner's that writes; what escapes a transaction the guard refuses,*)
(* at any depth and however its name is qualified.                         *)
ReadsOnly == effects = {}

(* The limit an operator gave, if it is one, else the default.             *)
Given(v, default) == IF v.kind = "number" THEN v.value ELSE default

(* What is about to run was planned at no more than the ceilings, whatever *)
(* operators set them to: neither inf nor nan, below which nothing would   *)
(* be refused, ever lets a query run.                                      *)
RunsBounded ==
  hatch = "execute" =>
    /\ \A v \in {setting.cost, setting.seqscan, setting.rows} : v.kind \in {"unset", "number"}
    /\ plan[1].cost <= Given(setting.cost, Defaults.cost)
    /\ \A i \in DOMAIN plan :
         plan[i].type = "Seq Scan" /\ plan[i].relation \in Records
           => plan[i].cost <= Given(setting.seqscan, Defaults.seqscan)

(* A page holds as many of the query's rows as the preference nearest to   *)
(* the one that was asked for allows, and says so exactly if it holds them *)
(* not all: also when it is exactly full.                                  *)
CapExact ==
  reply # None /\ "count" \in DOMAIN reply =>
    LET most == Given(setting.rows, Defaults.rows)
        c    == IF reply.of.rows.kind = "unset" \/ reply.of.rows.value > most THEN most
                ELSE IF reply.of.rows.value < 1 THEN 1 ELSE reply.of.rows.value
    IN  /\ reply.count <= c /\ reply.count <= reply.of.size
        /\ reply.truncated <=> reply.of.size > reply.count
        /\ reply.truncated => reply.count = c
==============================================================================
