---------------------------- MODULE ServiceProofs ----------------------------
(***************************************************************************)
(* The properties of the run service, proved for every number of           *)
(* processes, every schema, every list of names and every setting.         *)
(***************************************************************************)
EXTENDS Service, WellFoundedInduction, TLAPS

------------------------------------------------------------------------------
(* The preflight. An index over the function is evidence of the function,  *)
(* which is why two queries at two moments establish one moment.           *)
PInv ==
  /\ PreflightTypeOK
  /\ \A n \in Required : OnFunction(index[n]) => norm
  /\ \A p \in Replicas : stage[p] # "down" /\ Servable => sound[p]
  /\ ServesOnlyChecked

LEMMA PreflightStarts == PreflightInit => PInv
<1> SUFFICES ASSUME PreflightInit PROVE PInv
  OBVIOUS
<1>1. \A n \in Required : index[n] \in [def : IndexDefs, valid : BOOLEAN]
  <2>1. ASSUME NEW n \in Required PROVE index[n] \in [def : IndexDefs, valid : BOOLEAN]
    <3>1. PICK d \in Definitions : index[n] = [def |-> d, valid |-> TRUE]
      BY DEF PreflightInit
    <3> QED
      BY <3>1, PreflightAssumption
  <2> QED
    BY <2>1
<1>2. index \in [Required -> [def : IndexDefs, valid : BOOLEAN] \cup {Absent}]
  BY <1>1 DEF PreflightInit
<1> QED
  BY <1>2 DEF PreflightInit, PInv, PreflightTypeOK, Stages, OnFunction, ServesOnlyChecked

(* Without problems every required index is usable, and so is the schema.  *)
LEMMA NoProblems ==
  ASSUME PInv, Problems = {}
  PROVE  Servable
<1>1. \A n \in Required : ~Missed(n)
  BY DEF Problems
<1>2. \A n \in Required :
        Usable(index[n]) /\ \E r \in Required : index[n].def.on = RelationOf[r]
  BY <1>1 DEF Missed, Usable, Found
<1>3. norm
  BY <1>2, PreflightAssumption DEF PInv, OnFunction, Usable
<1> QED
  BY <1>2, <1>3 DEF Servable

LEMMA PartnerKeeps ==
  ASSUME PInv, Partner
  PROVE  PInv'
<1> USE DEF PreflightTypeOK, PInv
<1>1. /\ sound' = [p \in Replicas |-> sound[p] \/ (stage[p] # "down" /\ Servable')]
      /\ stage' = stage
  BY DEF Partner, Observe
<1>2. /\ norm' \in BOOLEAN
      /\ index' \in [Required -> [def : IndexDefs, valid : BOOLEAN] \cup {Absent}]
      /\ \A n \in Required : OnFunction(index'[n]) => norm'
  <2>1. ASSUME NEW n \in Required, NEW d \in Definitions, CreateIndex(n, d)
        PROVE  <1>2
    <3>1. [def |-> d, valid |-> FALSE] \in [def : IndexDefs, valid : BOOLEAN]
      BY PreflightAssumption
    <3>2. index' = [index EXCEPT ![n] = [def |-> d, valid |-> FALSE]] /\ norm' = norm
      BY <2>1 DEF CreateIndex
    <3>3. OnFunction(index'[n]) => norm
      BY <2>1, <3>2 DEF CreateIndex, OnFunction
    <3> QED
      BY <3>1, <3>2, <3>3 DEF OnFunction
  <2>2. ASSUME NEW n \in Required, FinishIndex(n)
        PROVE  <1>2
    <3>1. index[n] \in [def : IndexDefs, valid : BOOLEAN]
      BY <2>2 DEF FinishIndex
    <3>2. norm' = norm /\ index' = [index EXCEPT ![n] = [def |-> @.def, valid |-> TRUE]]
      BY <2>2, <3>1 DEF FinishIndex
    <3>3. [def |-> index[n].def, valid |-> TRUE] \in [def : IndexDefs, valid : BOOLEAN]
      BY <3>1
    <3>4. OnFunction(index'[n]) => OnFunction(index[n])
      BY <2>2, <3>2 DEF OnFunction, FinishIndex
    <3> QED
      BY <3>2, <3>3, <3>4 DEF OnFunction
  <2>3. ASSUME NEW n \in Required, DropIndex(n)
        PROVE  <1>2
    BY <2>3 DEF DropIndex, OnFunction
  <2>4. CASE DropFunction
    BY <2>4 DEF DropFunction, OnFunction
  <2>5. CASE CreateFunction
    BY <2>5 DEF CreateFunction, OnFunction
  <2> QED
    BY <2>1, <2>2, <2>3, <2>4, <2>5 DEF Partner
<1>3. Servable' \in BOOLEAN
  BY DEF Servable
<1>4. \A p \in Replicas : sound'[p] = (sound[p] \/ (stage[p] # "down" /\ Servable'))
  BY <1>1
<1>5. sound' \in [Replicas -> BOOLEAN]
  BY <1>1, <1>3
<1>6. \A p \in Replicas : stage'[p] # "down" /\ Servable' => sound'[p]
  BY <1>1, <1>4
<1>7. ServesOnlyChecked'
  BY <1>1, <1>4 DEF ServesOnlyChecked
<1> QED
  BY <1>1, <1>2, <1>5, <1>6, <1>7

LEMMA BootKeeps ==
  ASSUME PInv, NEW p \in Replicas, Boot(p) \/ Stop(p)
  PROVE  PInv'
<1> USE DEF PreflightTypeOK, PInv
<1>1. norm' = norm /\ index' = index
  BY DEF Boot, Stop, Start, CheckFunction, CheckIndexes, VerifyCollation, GoTo, catalog
<1>2. Servable' = Servable
  BY <1>1 DEF Servable
<1>3. CASE Start(p)
  BY <1>1, <1>2, <1>3 DEF Start, Stages, ServesOnlyChecked, Servable
<1>4. CASE CheckIndexes(p)
  <2>1. stage[p] = "indexes" /\ sound' = sound
        /\ stage' = [stage EXCEPT ![p] = IF Problems = {} THEN "collation" ELSE "down"]
    BY <1>4 DEF CheckIndexes, GoTo
  <2>2. stage'[p] = "collation" => sound[p]
    BY <2>1, NoProblems
  <2> QED
    BY <1>1, <1>2, <2>1, <2>2 DEF Stages, ServesOnlyChecked
<1>5. CASE CheckFunction(p) \/ VerifyCollation(p) \/ Stop(p)
  BY <1>1, <1>2, <1>5
     DEF CheckFunction, VerifyCollation, Stop, GoTo, Stages, ServesOnlyChecked
<1> QED
  BY <1>3, <1>4, <1>5 DEF Boot

LEMMA PreflightStutters ==
  ASSUME PInv, UNCHANGED preflightVars
  PROVE  PInv'
BY DEF PInv, PreflightTypeOK, preflightVars, catalog, ServesOnlyChecked, Servable, OnFunction

------------------------------------------------------------------------------
(* The hatch. A set of natural numbers has a least one, so that the walk   *)
(* has a first offender.                                                   *)
LEMMA LeastNatural ==
  ASSUME NEW S, S \subseteq Nat, S # {}
  PROVE  \E i \in S : \A j \in S : i <= j
<1> DEFINE R == OpToRel(<, Nat)
<1>1. \E i \in S : \A j \in S : ~ (<<j, i>> \in R)
  <2>1. IsWellFoundedOn(R, Nat)
    BY NatLessThanWellFounded
  <2> HIDE DEF R
  <2> QED
    BY <2>1, WFMin
<1>2. \A i, j \in Nat : i < j => <<i, j>> \in R
  BY DEF OpToRel
<1> HIDE DEF R
<1>3. PICK i \in S : \A j \in S : ~ (<<j, i>> \in R)
  BY <1>1, Zenon
<1>4. \A j \in S : ~ (j < i)
  BY <1>2, <1>3, Zenon
<1>5. \A j \in S : i <= j
  BY <1>4
<1> QED
  BY <1>5

LEMMA FirstIsIn ==
  ASSUME NEW S, S \subseteq Nat, S # {}
  PROVE  First(S) \in S
BY LeastNatural DEF First

LEMMA RefusalIsSome ==
  \A why \in Reasons : Refusal("parse", why) # None
BY GuardAssumption DEF Refusal

(* A tree that parse lets through has a SELECT on top and no offender.     *)
LEMMA TreePasses ==
  ASSUME NEW tree \in Trees, ParseTree(tree) = None
  PROVE  Offenders(tree) = {}
<1>1. tree \in Seq(Node) /\ tree # <<>>
  BY DEF Trees
<1>2. CASE tree[1].kind \notin {"Select", "SelectInto"}
  <2>1. Refusal("parse", "not a SELECT") # None
    BY RefusalIsSome DEF Reasons
  <2> QED
    BY <1>2, <2>1 DEF ParseTree
<1>3. CASE tree[1].kind \in {"Select", "SelectInto"} /\ Offenders(tree) # {}
  <2>1. Offenders(tree) \subseteq DOMAIN tree /\ DOMAIN tree \subseteq Nat
    BY <1>1 DEF Offenders
  <2>2. First(Offenders(tree)) \in DOMAIN tree
    BY <1>3, <2>1, FirstIsIn
  <2>3. tree[First(Offenders(tree))] \in Node
    BY <1>1, <2>2
  <2>4. tree[First(Offenders(tree))].kind \in Reasons
    BY <2>3 DEF Node, Reasons
  <2>5. Refusal("parse", tree[First(Offenders(tree))].kind) # None
    BY <2>4, RefusalIsSome
  <2> QED
    BY <1>3, <2>5 DEF ParseTree
<1> QED
  BY <1>2, <1>3

(* What parse lets through is SQL of one statement, which passes.          *)
LEMMA TextPasses ==
  ASSUME NEW text \in Texts, Parse(text) = None
  PROVE  text.kind = "sql" /\ text.stmts[1] \in Trees /\ Offenders(text.stmts[1]) = {}
<1>2. text.kind = "sql" /\ Len(text.stmts) = 1
  <2>1. text.kind \in {"blank", "malformed", "sql"}
    BY DEF Texts
  <2>2. \A why \in {"empty query", "not valid SQL", "not one statement"} :
          Refusal("parse", why) # None
    BY RefusalIsSome DEF Reasons
  <2> QED
    BY <2>1, <2>2 DEF Parse
<1>3. text.stmts \in Seq(Trees)
  BY <1>2 DEF Texts
<1>4. text.stmts[1] \in Trees
  BY <1>2, <1>3
<1>5. ParseTree(text.stmts[1]) = None
  BY <1>2 DEF Parse
<1> QED
  BY <1>2, <1>4, <1>5, TreePasses

LEMMA ParseRefuses ==
  ASSUME NEW text \in Texts, Parse(text) # None
  PROVE  Parse(text) \in [stage : {"parse"}, why : Reasons]
<1>1. \A why \in Reasons : Refusal("parse", why) \in [stage : {"parse"}, why : Reasons]
  BY DEF Refusal
<1>2. {"empty query", "not valid SQL", "not one statement", "not a SELECT"} \subseteq Reasons
  BY DEF Reasons
<1>3. CASE text.kind \in {"blank", "malformed"} \/ Len(text.stmts) # 1
  BY <1>1, <1>2, <1>3 DEF Parse
<1>4. CASE text.kind = "sql" /\ Len(text.stmts) = 1
  <2> DEFINE tree == text.stmts[1]
  <2>1. tree \in Seq(Node) /\ tree # <<>>
    <3>1. text.stmts \in Seq(Trees)
      BY <1>4 DEF Texts
    <3>2. tree \in Trees
      BY <1>4, <3>1
    <3> QED
      BY <3>2 DEF Trees
  <2>2. Parse(text) = ParseTree(tree)
    BY <1>4 DEF Parse
  <2>3. CASE Offenders(tree) # {}
    <3>1. Offenders(tree) \subseteq DOMAIN tree /\ DOMAIN tree \subseteq Nat
      BY <2>1 DEF Offenders
    <3>2. First(Offenders(tree)) \in DOMAIN tree
      BY <2>3, <3>1, FirstIsIn
    <3>3. tree[First(Offenders(tree))].kind \in Reasons
      <4>1. tree[First(Offenders(tree))] \in Node
        BY <2>1, <3>2
      <4> QED
        BY <4>1 DEF Node, Reasons
    <3> HIDE DEF tree
    <3> QED
      BY <1>1, <1>2, <2>2, <2>3, <3>3 DEF ParseTree
  <2> QED
    BY <1>1, <1>2, <2>2, <2>3 DEF ParseTree
<1> QED
  BY <1>3, <1>4 DEF Texts

(* A tree without offenders has no effect that escapes a transaction.      *)
LEMMA ContainedIfPassed ==
  ASSUME NEW tree, Offenders(tree) = {}
  PROVE  EffectsOf(tree, Transaction.readOnly) = {}
BY GuardAssumption DEF Offenders, Offends, BadCall, EffectsOf, Escapes, Transaction

(* What the limits are if they parse.                                      *)
LEMMA CeilingParsed ==
  ASSUME NEW v \in Values, NEW d \in Nat \ {0}, Ceiling(v, d) # Bad
  PROVE  /\ v.kind \in {"unset", "number"}
         /\ Ceiling(v, d).kind = "number"
         /\ Ceiling(v, d).value = Given(v, d)
         /\ Given(v, d) \in Nat
BY DEF Ceiling, Given, Values, Numbers, Is, Bad

LEMMA LimitParsed ==
  ASSUME NEW v \in Values, NEW d \in Nat \ {0}, AtLeastOne(v, d) # Bad
  PROVE  /\ v.kind \in {"unset", "number"}
         /\ AtLeastOne(v, d).value = Given(v, d)
         /\ Given(v, d) \in Nat \ {0}
BY DEF AtLeastOne, Given, Values, Numbers, Is, Bad

LEMMA SettingTyped ==
  ASSUME setting \in Settings
  PROVE  /\ setting.cost \in Values /\ setting.seqscan \in Values
         /\ setting.rows \in Values /\ setting.timeout \in Values
         /\ Defaults.cost \in Nat \ {0} /\ Defaults.seqscan \in Nat \ {0}
         /\ Defaults.rows \in Nat \ {0} /\ Defaults.timeout \in Nat \ {0}
BY HatchAssumption, ZenonT(30)

(* The cap is what CapExact says of it.                                    *)
Most   == Given(setting.rows, Defaults.rows)
CapOf(rows) ==
  IF rows.kind = "unset" \/ rows.value > Most THEN Most
  ELSE IF rows.value < 1 THEN 1 ELSE rows.value

LEMMA CapIsClamped ==
  ASSUME setting \in Settings, MaxSqlRows # Bad,
         NEW rows \in Values, rows.kind \in {"unset", "number"}
  PROVE  CapFor(rows) = CapOf(rows) /\ CapFor(rows) \in Nat \ {0}
<1>1. MaxSqlRows.value = Most /\ Most \in Nat \ {0}
  BY SettingTyped, LimitParsed DEF MaxSqlRows, Most
<1>2. CASE rows.kind = "unset"
  BY <1>1, <1>2 DEF CapFor, CapOf
<1>3. CASE rows.kind = "number"
  <2>1. rows.value \in Int
    BY <1>3 DEF Values, Numbers
  <2> QED
    BY <1>1, <1>3, <2>1 DEF CapFor, CapOf, Min, Max
<1> QED
  BY <1>2, <1>3

LEMMA RefusedIsSome ==
  \A r \in [stage : {"parse"}, why : Reasons] : Refused(r) # None
<1> SUFFICES ASSUME NEW r \in [stage : {"parse"}, why : Reasons]
             PROVE  Refused(r) # None
  OBVIOUS
<1>1. Refused(r) \in [status : {422}, refused : [stage : {"parse"}, why : Reasons]]
  BY DEF Refused
<1>2. None \notin [status : {422}, refused : [stage : {"parse"}, why : Reasons]]
  BY HatchAssumption
<1> QED
  BY <1>1, <1>2, Zenon

(* A request that is not answered at once has passed the first two stages. *)
LEMMA Accepted ==
  ASSUME NEW body \in Bodies, AtOnce(body) = None
  PROVE  /\ body.rows \in Values /\ body.rows.kind \in {"unset", "number"}
         /\ body.query.stmts[1] \in Trees /\ Offenders(body.query.stmts[1]) = {}
         /\ MaxSqlRows # Bad
<1>1. body.query \in Queries /\ body.rows \in Values
  BY HatchAssumption
<1>2. \A s \in {200, 400, 404, 422, 500} : Status(s) # None
  BY HttpAssumption DEF Status
<1>3. body.query.kind \notin {"missing", "blank"}
  BY <1>2 DEF AtOnce
<1>4. IntStatus(body.rows) = 200
  <2>1. IntStatus(body.rows) \in {200, 400, 500}
    BY <1>1 DEF IntStatus, Values, Numbers
  <2> QED
    BY <1>2, <1>3, <2>1 DEF AtOnce
<1>5. body.rows.kind \in {"unset", "number"}
  BY <1>1, <1>4 DEF IntStatus, Values, Numbers
<1>6. body.query.kind # "notText"
  BY <1>2, <1>3, <1>4 DEF AtOnce
<1>7. body.query \in Texts
  BY <1>1, <1>3, <1>6 DEF Queries
<1>8. Parse(body.query) = None
  <2>1. Parse(body.query) # None => Refused(Parse(body.query)) # None
    <3>1. Parse(body.query) # None => Parse(body.query) \in [stage : {"parse"}, why : Reasons]
      BY <1>7, ParseRefuses
    <3> QED
      BY <3>1, RefusedIsSome
  <2> QED
    BY <1>3, <1>4, <1>6, <2>1 DEF AtOnce
<1>9. MaxSqlRows # Bad
  BY <1>2, <1>3, <1>4, <1>6, <1>8 DEF AtOnce
<1> QED
  BY <1>1, <1>5, <1>7, <1>8, <1>9, TextPasses

LEMMA RefusedPlanIsSome ==
  \A why \in Records \cup {"total cost"} : Refusal("explain", why) # None
<1> SUFFICES ASSUME NEW why \in Records \cup {"total cost"}
             PROVE  Refusal("explain", why) # None
  OBVIOUS
<1>1. Refusal("explain", why) \in [stage : {"explain"}, why : Records \cup {"total cost"}]
  BY DEF Refusal
<1>2. None \notin [stage : {"explain"}, why : Records \cup {"total cost"}]
  BY HatchAssumption
<1> QED
  BY <1>1, <1>2, Zenon

(* A plan that check_plan lets through is within both ceilings.            *)
LEMMA PlanWithin ==
  ASSUME setting \in Settings, NEW p \in Plans,
         MaxPlanCost # Bad, MaxSeqscan # Bad, CheckPlan(p) = None
  PROVE  /\ p[1].cost <= Given(setting.cost, Defaults.cost)
         /\ \A i \in DOMAIN p :
              p[i].type = "Seq Scan" /\ p[i].relation \in Records
                => p[i].cost <= Given(setting.seqscan, Defaults.seqscan)
<1>1. p \in Seq(PlanNode) /\ p # <<>>
  BY HatchAssumption
<1>2. \A i \in DOMAIN p : p[i].cost \in Nat
  <2>1. ASSUME NEW i \in DOMAIN p PROVE p[i].cost \in Nat
    <3>1. p[i] \in PlanNode
      BY <1>1
    <3> QED
      BY <3>1 DEF PlanNode
  <2> QED
    BY <2>1
<1>3. /\ MaxPlanCost.kind = "number" /\ MaxSeqscan.kind = "number"
      /\ MaxPlanCost.value = Given(setting.cost, Defaults.cost)
      /\ MaxSeqscan.value = Given(setting.seqscan, Defaults.seqscan)
      /\ MaxPlanCost.value \in Nat /\ MaxSeqscan.value \in Nat
  BY SettingTyped, CeilingParsed DEF MaxPlanCost, MaxSeqscan
<1>4. SeqScans(p) = {}
  <2>1. SUFFICES ASSUME SeqScans(p) # {} PROVE FALSE
    OBVIOUS
  <2>2. SeqScans(p) \subseteq Nat
    BY <1>1 DEF SeqScans
  <2>3. First(SeqScans(p)) \in SeqScans(p)
    BY <2>1, <2>2, FirstIsIn
  <2>4. p[First(SeqScans(p))].relation \in Records
    BY <2>3 DEF SeqScans, Dear
  <2>5. Refusal("explain", p[First(SeqScans(p))].relation) # None
    BY <2>4, RefusedPlanIsSome
  <2> QED
    BY <2>1, <2>5 DEF CheckPlan
<1>5. ~Exceeds(p[1].cost, MaxPlanCost)
  <2>1. Refusal("explain", "total cost") # None
    BY RefusedPlanIsSome
  <2> QED
    BY <1>4, <2>1 DEF CheckPlan
<1>6. p[1].cost <= Given(setting.cost, Defaults.cost)
  <2>1. 1 \in DOMAIN p
    BY <1>1
  <2> QED
    BY <2>1, <1>2, <1>3, <1>5 DEF Exceeds
<1>7. ASSUME NEW i \in DOMAIN p, p[i].type = "Seq Scan", p[i].relation \in Records
      PROVE  p[i].cost <= Given(setting.seqscan, Defaults.seqscan)
  <2>1. ~Dear(p[i])
    BY <1>4 DEF SeqScans
  <2>2. ~Exceeds(p[i].cost, MaxSeqscan)
    BY <2>1, <1>7 DEF Dear
  <2> QED
    BY <2>2, <1>2, <1>3 DEF Exceeds
<1> QED
  BY <1>6, <1>7

(* What a request in hand has passed.                                      *)
HInv ==
  /\ HatchTypeOK
  /\ ReadsOnly
  /\ hatch # "idle" =>
       /\ Offenders(wrapped.body) = {}
       /\ MaxSqlRows # Bad
       /\ asked.kind \in {"unset", "number"}
       /\ cap = CapFor(asked)
       /\ wrapped.limit = ToFetch(cap)
  /\ hatch = "execute" =>
       /\ plan \in Plans
       /\ MaxPlanCost # Bad /\ MaxSeqscan # Bad
       /\ CheckPlan(plan) = None

LEMMA HatchStarts == HatchInit => HInv
BY DEF HatchInit, HInv, Idle, HatchTypeOK, ReadsOnly, Values

LEMMA WithinCeilings ==
  ASSUME HInv
  PROVE  RunsBounded
<1> SUFFICES ASSUME hatch = "execute"
             PROVE  /\ \A v \in {setting.cost, setting.seqscan, setting.rows} :
                          v.kind \in {"unset", "number"}
                    /\ plan[1].cost <= Given(setting.cost, Defaults.cost)
                    /\ \A i \in DOMAIN plan :
                         plan[i].type = "Seq Scan" /\ plan[i].relation \in Records
                           => plan[i].cost <= Given(setting.seqscan, Defaults.seqscan)
  BY DEF RunsBounded
<1>1. /\ setting \in Settings /\ plan \in Plans /\ CheckPlan(plan) = None
      /\ MaxPlanCost # Bad /\ MaxSeqscan # Bad /\ MaxSqlRows # Bad
  BY DEF HInv, HatchTypeOK
<1>2. \A v \in {setting.cost, setting.seqscan, setting.rows} : v.kind \in {"unset", "number"}
  BY <1>1, SettingTyped, CeilingParsed, LimitParsed DEF MaxPlanCost, MaxSeqscan, MaxSqlRows
<1> QED
  BY <1>1, <1>2, PlanWithin

LEMMA DroppedKeeps ==
  ASSUME HInv, Dropped, setting' = setting, effects' = effects
  PROVE  HInv'
BY DEF HInv, Dropped, HatchTypeOK, ReadsOnly, Values

(* A query that runs has passed the guard, so that a read-only transaction *)
(* leaves it no effect.                                                    *)
LEMMA NothingRuns ==
  ASSUME HInv, hatch = "execute", Ran
  PROVE  effects' = effects
<1>1. EffectsOf(wrapped.body, Transaction.readOnly) = {}
  BY ContainedIfPassed DEF HInv
<1> QED
  BY <1>1 DEF Ran

LEMMA HatchStutters ==
  ASSUME HInv, UNCHANGED hatchVars
  PROVE  HInv'
BY DEF HInv, hatchVars, request, HatchTypeOK, ReadsOnly, MaxSqlRows, MaxPlanCost, MaxSeqscan,
       CapFor, CheckPlan, SeqScans, Dear

(* What a reply says nothing of: a page of rows, an address or a table.    *)
Unpaged == reply = None \/ "count" \notin DOMAIN reply
Unnamed == reply = None \/ ("address" \notin DOMAIN reply /\ "table" \notin DOMAIN reply)

LEMMA PostKeeps ==
  ASSUME HInv, NEW body \in Bodies, Post(body)
  PROVE  HInv' /\ Unpaged' /\ Unnamed'
<1>0. setting' = setting /\ effects' = effects
  BY DEF Post
<1>1. CASE AtOnce(body) # None
  <2>1. Dropped /\ reply' = AtOnce(body)
    BY <1>1 DEF Post, Answer
  <2>2. HInv'
    BY <1>0, <2>1, DroppedKeeps
  <2>3. DOMAIN reply' \subseteq {"status", "refused"}
    BY <1>1, <2>1 DEF AtOnce, Status, Refused
  <2> QED
    BY <2>2, <2>3 DEF Unpaged, Unnamed
<1>2. CASE AtOnce(body) = None
  <2>1. /\ hatch' = "explain" /\ asked' = body.rows /\ cap' = CapFor(body.rows)
        /\ wrapped' = Wrap(body.query.stmts[1], ToFetch(cap'))
        /\ plan' = plan /\ reply' = None
    BY <1>2 DEF Post, Silent
  <2>2. /\ body.rows \in Values /\ body.rows.kind \in {"unset", "number"}
        /\ body.query.stmts[1] \in Trees /\ Offenders(body.query.stmts[1]) = {}
        /\ MaxSqlRows # Bad
    BY <1>2, Accepted
  <2>3. setting \in Settings /\ plan \in Plans \cup {None}
    BY DEF HInv, HatchTypeOK
  <2>4. CapFor(body.rows) \in Nat \ {0}
    BY <2>2, <2>3, CapIsClamped
  <2>5. MaxSqlRows' = MaxSqlRows /\ CapFor(asked)' = CapFor(body.rows)
    BY <1>0, <2>1 DEF MaxSqlRows, CapFor
  <2>6. /\ wrapped' = [body |-> body.query.stmts[1], limit |-> cap' + 1]
        /\ cap' \in Nat
    BY <2>1, <2>4 DEF Wrap, ToFetch
  <2>7. HatchTypeOK'
    BY <1>0, <2>1, <2>2, <2>3, <2>6 DEF HatchTypeOK, HInv
  <2>8. ReadsOnly'
    BY <1>0 DEF ReadsOnly, HInv
  <2>9. Offenders(wrapped.body)' = {} /\ (wrapped.limit = ToFetch(cap))'
    BY <2>2, <2>6 DEF ToFetch, Offenders
  <2> QED
    BY <2>1, <2>2, <2>5, <2>7, <2>8, <2>9 DEF HInv, Unpaged, Unnamed
<1> QED
  BY <1>1, <1>2

LEMMA ExplainedKeeps ==
  ASSUME HInv, NEW p \in Plans, Explained(p)
  PROVE  HInv' /\ Unpaged' /\ Unnamed'
<1>0. /\ setting' = setting /\ effects' = effects
      /\ HatchTypeOK /\ ReadsOnly /\ hatch = "explain"
  BY DEF Explained, HInv
<1>1. CASE Bad \in {MaxPlanCost, MaxSeqscan} \/ CheckPlan(p) # None
  <2>1. Dropped /\ reply' \in {Status(500), Refused(CheckPlan(p))}
    BY <1>1 DEF Explained, Answer
  <2>2. HInv'
    BY <1>0, <2>1, DroppedKeeps
  <2>3. DOMAIN reply' \subseteq {"status", "refused"}
    BY <2>1 DEF Status, Refused
  <2> QED
    BY <2>2, <2>3 DEF Unpaged, Unnamed
<1>2. CASE Bad \notin {MaxPlanCost, MaxSeqscan} /\ CheckPlan(p) = None
  <2>1. /\ hatch' = "execute" /\ plan' = p /\ reply' = None
        /\ asked' = asked /\ wrapped' = wrapped /\ cap' = cap
    BY <1>2 DEF Explained, Silent
  <2>2. HatchTypeOK' /\ ReadsOnly'
    BY <1>0, <2>1 DEF HatchTypeOK, ReadsOnly
  <2>3. /\ MaxSqlRows' = MaxSqlRows /\ MaxPlanCost' = MaxPlanCost
        /\ MaxSeqscan' = MaxSeqscan /\ CapFor(asked)' = CapFor(asked)
    BY <1>0, <2>1 DEF MaxSqlRows, MaxPlanCost, MaxSeqscan, CapFor
  <2>4. CheckPlan(plan)' = CheckPlan(p)
    BY <2>1, <2>3 DEF CheckPlan, SeqScans, Dear
  <2>5. /\ Offenders(wrapped.body)' = Offenders(wrapped.body)
        /\ (wrapped.limit = ToFetch(cap))' = (wrapped.limit = ToFetch(cap))
    BY <2>1
  <2> QED
    BY <1>0, <1>2, <2>1, <2>2, <2>3, <2>4, <2>5 DEF HInv, Unpaged, Unnamed
<1> QED
  BY <1>1, <1>2

(* The arithmetic of a page: one row more than the cap is fetched, so that *)
(* the cap is exceeded exactly by a result that is cut.                    *)
LEMMA PageIsExact ==
  ASSUME NEW c \in Nat \ {0}, NEW n \in Nat, NEW fetched,
         fetched = IF n < c + 1 THEN n ELSE c + 1
  PROVE  /\ Min(fetched, c) <= c /\ Min(fetched, c) <= n
         /\ (fetched > c) <=> (n > Min(fetched, c))
         /\ fetched > c => Min(fetched, c) = c
BY DEF Min

LEMMA ExecutedKeeps ==
  ASSUME HInv, NEW n \in Sizes, Executed(n)
  PROVE  HInv' /\ CapExact' /\ Unnamed'
<1>0. /\ setting' = setting /\ setting \in Settings /\ hatch = "execute"
      /\ Ran /\ asked \in Values /\ n \in Nat
  BY HatchAssumption DEF Executed, HInv, HatchTypeOK
<1>1. effects' = effects
  BY <1>0, NothingRuns
<1>2. Dropped
  BY DEF Executed, Answer
<1>3. HInv'
  BY <1>0, <1>1, <1>2, DroppedKeeps
<1>4. CASE Writes(wrapped.body) /\ Transaction.readOnly
  <2>1. reply' = [status |-> 422, refused |-> Refusal("explain", "error")]
    BY <1>4 DEF Executed, Answer, Refused
  <2> QED
    BY <1>3, <2>1 DEF CapExact, Unnamed
<1>5. CASE ~(Writes(wrapped.body) /\ Transaction.readOnly)
  <2> DEFINE fetched == Fetched(wrapped, n)
             c       == CapOf(asked)
  <2>1. reply' = [status |-> 200, count |-> Min(fetched, cap), truncated |-> fetched > cap,
                  of |-> [rows |-> asked, size |-> n]]
    BY <1>5 DEF Executed, Answer, Page
  <2>2. cap = c /\ c \in Nat \ {0}
    BY <1>0, CapIsClamped DEF HInv
  <2>3. fetched = IF n < c + 1 THEN n ELSE c + 1
    BY <1>0, <2>2 DEF HInv, Fetched, ToFetch
  <2> HIDE DEF fetched
  <2>4. /\ Min(fetched, c) <= c /\ Min(fetched, c) <= n
        /\ (fetched > c) <=> (n > Min(fetched, c))
        /\ fetched > c => Min(fetched, c) = c
    BY <1>0, <2>2, <2>3, PageIsExact
  <2>5. CapOf(asked) = IF asked.kind = "unset" \/ asked.value > Most' THEN Most'
                       ELSE IF asked.value < 1 THEN 1 ELSE asked.value
    BY <1>0 DEF CapOf, Most
  <2>6. CapExact'
    BY <2>1, <2>2, <2>4, <2>5 DEF CapExact, Most
  <2> QED
    BY <1>3, <2>1, <2>6 DEF Unnamed
<1> QED
  BY <1>4, <1>5

LEMMA EndsKeep ==
  ASSUME HInv, NoTimeout \/ Fails
  PROVE  HInv' /\ Unpaged' /\ Unnamed'
<1>1. Dropped /\ setting' = setting
  BY DEF NoTimeout, Fails, Answer
<1>2. effects' = effects
  BY NothingRuns DEF NoTimeout, Fails, MayHaveRun
<1>3. HInv'
  BY <1>1, <1>2, DroppedKeeps
<1>4. reply' \in {Status(500), Refused(Refusal("explain", "error"))}
  BY DEF NoTimeout, Fails, Answer
<1>5. DOMAIN reply' \subseteq {"status", "refused"}
  BY <1>4 DEF Status, Refused
<1> QED
  BY <1>3, <1>5 DEF Unpaged, Unnamed

------------------------------------------------------------------------------
(* The typed routes. The engine's handle is of a life that is over, or its *)
(* process still has its id for its address.                               *)
SInv ==
  /\ SurfaceTypeOK
  /\ handle # None =>
       /\ handle.life <= life[handle.at]
       /\ handle.life = life[handle.at] =>
            /\ handle.id \in DOMAIN ids[handle.at]
            /\ ids[handle.at][handle.id] = handle.address

LEMMA SurfaceStarts == SurfaceInit => SInv
BY SurfaceAssumption DEF SurfaceInit, SInv, SurfaceTypeOK

LEMMA SurfaceStutters ==
  ASSUME SInv, UNCHANGED surfaceVars
  PROVE  SInv'
BY DEF SInv, surfaceVars, cacheVars, SurfaceTypeOK

LEMMA NewCacheKeeps ==
  ASSUME SInv, NEW p \in Replicas, NewCache(p)
  PROVE  SInv'
<1> USE DEF SInv, SurfaceTypeOK
<1>1. /\ life[p] \in 0..MaxLives /\ life[p] < MaxLives /\ MaxLives \in Nat
      /\ ids' = [ids EXCEPT ![p] = <<>>] /\ known' = [known EXCEPT ![p] = {}]
      /\ life' = [life EXCEPT ![p] = life[p] + 1] /\ handle' = handle
  BY SurfaceAssumption DEF NewCache
<1>2. life' \in [Replicas -> 0..MaxLives]
  BY <1>1
<1>3. \A q \in Replicas : known'[q] \subseteq DOMAIN ids'[q]
  BY <1>1
<1>4. handle # None =>
        /\ handle.at \in Replicas /\ handle.life \in Nat
        /\ handle.at # p => ids'[handle.at] = ids[handle.at] /\ life'[handle.at] = life[handle.at]
        /\ handle.at = p => life'[handle.at] = life[handle.at] + 1
        /\ life[handle.at] \in Nat
  BY <1>1
<1>5. handle' # None =>
        /\ handle'.life <= life'[handle'.at]
        /\ handle'.life = life'[handle'.at] =>
            /\ handle'.id \in DOMAIN ids'[handle'.at]
            /\ ids'[handle'.at][handle'.id] = handle'.address
  BY <1>1, <1>4
<1> QED
  BY <1>1, <1>2, <1>3, <1>5

(* An id is minted behind all others, or is the address's already.         *)
LEMMA IdIsMinted ==
  ASSUME SInv, NEW p \in Replicas, NEW a \in Addresses, Mint(p, a)
  PROVE  /\ IdFor(p, a) \in Nat
         /\ ids' \in [Replicas -> Seq(Addresses)]
         /\ IdFor(p, a) \in DOMAIN ids'[p] /\ ids'[p][IdFor(p, a)] = a
         /\ \A q \in Replicas : \A i \in DOMAIN ids[q] :
               i \in DOMAIN ids'[q] /\ ids'[q][i] = ids[q][i]
<1> DEFINE n == IdFor(p, a)
<1>1. ids \in [Replicas -> Seq(Addresses)] /\ ids[p] \in Seq(Addresses)
  BY DEF SInv, SurfaceTypeOK
<1>2. CASE Minted(p, a) # {}
  <2>1. n \in DOMAIN ids[p] /\ ids[p][n] = a
    BY <1>2 DEF IdFor, Minted
  <2>2. [ids[p] EXCEPT ![n] = a] = ids[p]
    BY <1>1, <2>1
  <2> HIDE DEF n
  <2>3. ids' = [ids EXCEPT ![p] = ids[p]]
    BY <2>1, <2>2 DEF n, Mint
  <2>4. ids' = ids
    BY <1>1, <2>3
  <2> QED
    BY <1>1, <2>1, <2>4 DEF n
<1>3. CASE Minted(p, a) = {}
  <2>1. n = Len(ids[p]) + 1 /\ n \notin DOMAIN ids[p]
    BY <1>1, <1>3 DEF IdFor, NewId
  <2> HIDE DEF n
  <2>2. ids' = [ids EXCEPT ![p] = Append(ids[p], a)]
    BY <2>1 DEF n, Mint
  <2>3. /\ Append(ids[p], a) \in Seq(Addresses)
        /\ n \in Nat /\ n \in DOMAIN Append(ids[p], a) /\ Append(ids[p], a)[n] = a
        /\ \A i \in DOMAIN ids[p] :
             i \in DOMAIN Append(ids[p], a) /\ Append(ids[p], a)[i] = ids[p][i]
    BY <1>1, <2>1
  <2> QED
    BY <1>1, <2>2, <2>3 DEF n
<1> QED
  BY <1>2, <1>3

LEMMA ResolveKeeps ==
  ASSUME SInv, NEW p \in Replicas, NEW a \in Addresses \cup {None}, NEW rows,
         ResolveAddress(p, a, rows)
  PROVE  SInv' /\ Unpaged' /\ Unnamed'
<1>1. CASE a = None \/ IntStatus(rows) # 200
  BY <1>1, SurfaceStutters DEF ResolveAddress, Unpaged, Unnamed, Status
<1>2. CASE ~(a = None \/ IntStatus(rows) # 200)
  <2> DEFINE i == IdFor(p, a)
  <2>1. /\ Mint(p, a)
        /\ known' = [known EXCEPT ![p] = @ \cup {i}]
        /\ life' = life
        /\ reply' \in {Status(200), Status(500)}
        /\ handle' \in {[id |-> i, at |-> p, life |-> life[p], address |-> a], handle}
    BY <1>2 DEF ResolveAddress
  <2>2. /\ i \in Nat
        /\ ids' \in [Replicas -> Seq(Addresses)]
        /\ i \in DOMAIN ids'[p] /\ ids'[p][i] = a
        /\ \A q \in Replicas : \A j \in DOMAIN ids[q] :
             j \in DOMAIN ids'[q] /\ ids'[q][j] = ids[q][j]
    BY <1>2, <2>1, IdIsMinted
  <2> HIDE DEF i
  <2>3. /\ known \in [Replicas -> SUBSET Nat] /\ life \in [Replicas -> 0..MaxLives]
        /\ \A q \in Replicas : known[q] \subseteq DOMAIN ids[q]
        /\ life[p] \in Nat /\ a \in Addresses
        /\ handle \in [id : Nat, at : Replicas, life : Nat, address : Addresses] \cup {None}
    BY <1>2, SurfaceAssumption DEF SInv, SurfaceTypeOK
  <2>4. /\ known' \in [Replicas -> SUBSET Nat]
        /\ \A q \in Replicas : known'[q] \subseteq DOMAIN ids'[q]
    BY <2>1, <2>2, <2>3
  <2>5. CASE handle' = handle
    <3>1. handle # None => handle.at \in Replicas
      BY <2>3
    <3> QED
      BY <2>1, <2>2, <2>3, <2>4, <2>5, <3>1 DEF SInv, SurfaceTypeOK, Unpaged, Unnamed, Status
  <2>6. CASE handle' = [id |-> i, at |-> p, life |-> life[p], address |-> a]
    <3>1. handle' \in [id : Nat, at : Replicas, life : Nat, address : Addresses]
      BY <2>2, <2>3, <2>6
    <3>2. /\ handle'.life <= life'[handle'.at]
          /\ handle'.id \in DOMAIN ids'[handle'.at]
          /\ ids'[handle'.at][handle'.id] = handle'.address
      BY <2>1, <2>2, <2>3, <2>6
    <3> QED
      BY <2>1, <2>2, <2>3, <2>4, <3>1, <3>2 DEF SInv, SurfaceTypeOK, Unpaged, Unnamed, Status
  <2> QED
    BY <2>1, <2>5, <2>6
<1> QED
  BY <1>1, <1>2

LEMMA ForgetKeeps ==
  ASSUME SInv, NEW p \in Replicas, NEW i \in known[p], Forget(p, i)
  PROVE  SInv' /\ reply' = None
BY DEF Forget, Silent, SInv, SurfaceTypeOK

(* An answer about an address is about the one the process has for the id, *)
(* and about an item that the listing has at that position.                *)
Answers(p, r) ==
  /\ handle.id \in known[p]
  /\ \E of \in {"address", "people"} \cup Shapes, n \in Int : \E item :
       /\ r = About(p, Named(p), of, n, item)
       /\ \/ item = None
          \/ /\ n \in 0..(Len(Listing(Named(p), of)) - 1)
             /\ item = Listing(Named(p), of)[n + 1]

LEMMA ListingLength ==
  ASSUME NEW a \in Addresses, NEW of \in {"people"} \cup Shapes
  PROVE  Len(Listing(a, of)) \in Nat
BY SurfaceAssumption DEF Listing

LEMMA NamedIsAddress ==
  ASSUME SInv, NEW p \in Replicas, handle.id \in known[p]
  PROVE  Named(p) \in Addresses
<1>1. ids[p] \in Seq(Addresses) /\ handle.id \in DOMAIN ids[p]
  BY DEF SInv, SurfaceTypeOK
<1> QED
  BY <1>1 DEF Named

LEMMA ItemAnswers ==
  ASSUME SInv, NEW p \in Replicas, NEW of \in {"people"} \cup Shapes, NEW n \in Positions,
         AskAbout(p, Item(p, Named(p), of, n))
  PROVE  (\E s : reply' = Status(s)) \/ Answers(p, reply')
<1>1. n \in Int
  BY SurfaceAssumption
<1>2. CASE handle.id \in known[p] /\ InRange(n, Listing(Named(p), of))
  <2>1. 0 <= n /\ n < Len(Listing(Named(p), of)) /\ Len(Listing(Named(p), of)) \in Nat
    BY <1>2, NamedIsAddress, ListingLength DEF InRange
  <2>2. At(Listing(Named(p), of), n) = Listing(Named(p), of)[n + 1]
    BY <1>1, <2>1 DEF At
  <2>3. n \in 0..(Len(Listing(Named(p), of)) - 1)
    BY <1>1, <2>1
  <2>4. reply' = Status(500) \/ reply' = About(p, Named(p), of, n, At(Listing(Named(p), of), n))
    BY <1>2 DEF AskAbout, Item
  <2> DEFINE item == Listing(Named(p), of)[n + 1]
  <2>5. CASE reply' = About(p, Named(p), of, n, item)
    <3>1. of \in {"address", "people"} \cup Shapes
      OBVIOUS
    <3> HIDE DEF item
    <3>2. /\ reply' = About(p, Named(p), of, n, item)
          /\ \/ item = None
             \/ /\ n \in 0..(Len(Listing(Named(p), of)) - 1)
                /\ item = Listing(Named(p), of)[n + 1]
      BY <2>3, <2>5 DEF item
    <3> QED
      BY <1>1, <1>2, <3>1, <3>2, Zenon DEF Answers
  <2> QED
    BY <2>2, <2>4, <2>5
<1>3. CASE ~(handle.id \in known[p] /\ InRange(n, Listing(Named(p), of)))
  BY <1>3 DEF AskAbout, Item
<1> QED
  BY <1>2, <1>3

LEMMA FollowAnswers ==
  ASSUME SInv, NEW p \in Replicas, Follow(p)
  PROVE  (\E s : reply' = Status(s)) \/ Answers(p, reply')
<1>1. ASSUME NEW page, AddressListing(p, page)
      PROVE  (\E s : reply' = Status(s)) \/ Answers(p, reply')
  <2>1. \/ \E s : reply' = Status(s)
        \/ handle.id \in known[p] /\ reply' = About(p, Named(p), "address", 0, None)
    BY <1>1 DEF AddressListing, AskAbout
  <2>2. ASSUME NEW n, n = 0, handle.id \in known[p],
               reply' = About(p, Named(p), "address", n, None)
        PROVE  Answers(p, reply')
    <3>1. n \in Int /\ "address" \in {"address", "people"} \cup Shapes
      BY <2>2
    <3> QED
      BY <2>2, <3>1, Zenon DEF Answers
  <2> QED
    BY <2>1, <2>2
<1>2. ASSUME NEW page, NEW form, NEW n \in Positions, PersonRecords(p, form, n, page)
      PROVE  (\E s : reply' = Status(s)) \/ Answers(p, reply')
  BY <1>2, ItemAnswers DEF PersonRecords
<1>3. ASSUME NEW page, NEW shape, NEW n \in Positions, SourceRecord(p, shape, n, page)
      PROVE  (\E s : reply' = Status(s)) \/ Answers(p, reply')
  BY <1>3, ItemAnswers DEF SourceRecord
<1> QED
  BY <1>1, <1>2, <1>3 DEF Follow

LEMMA BareHonest ==
  ASSUME \E s : reply' = Status(s)
  PROVE  HandlesHonest' /\ Unpaged'
<1>1. PICK s : reply' = Status(s)
  OBVIOUS
<1>2. DOMAIN reply' = {"status"}
  BY <1>1 DEF Status
<1>3. "address" \notin DOMAIN reply' /\ "table" \notin DOMAIN reply' /\ "count" \notin DOMAIN reply'
  BY <1>2
<1>4. IdsHoldForLife'
  BY <1>3 DEF IdsHoldForLife, IsAbout
<1>5. PositionsExact'
  BY <1>3 DEF PositionsExact, IsAbout
<1> QED
  BY <1>3, <1>4, <1>5 DEF HandlesHonest, Unpaged

LEMMA FollowHonest ==
  ASSUME SInv, NEW p \in Replicas, Follow(p)
  PROVE  HandlesHonest' /\ Unpaged'
<1>1. handle # None /\ handle' = handle /\ life' = life
  BY DEF Follow, surfaceVars, cacheVars
<1>2. CASE \E s : reply' = Status(s)
  BY <1>2, BareHonest
<1>3. CASE Answers(p, reply')
  <2>1. handle.id \in known[p]
    BY <1>3 DEF Answers
  <2>0. PICK of \in {"address", "people"} \cup Shapes, n \in Int : \E item :
          /\ reply' = About(p, Named(p), of, n, item)
          /\ \/ item = None
             \/ /\ n \in 0..(Len(Listing(Named(p), of)) - 1)
                /\ item = Listing(Named(p), of)[n + 1]
    BY <1>3, Zenon DEF Answers
  <2>2. PICK item :
          /\ reply' = About(p, Named(p), of, n, item)
          /\ \/ item = None
             \/ /\ n \in 0..(Len(Listing(Named(p), of)) - 1)
                /\ item = Listing(Named(p), of)[n + 1]
    BY <2>0, Zenon
  <2>3. /\ reply'.at = p /\ reply'.address = Named(p) /\ reply'.of = of
        /\ reply'.n = n /\ reply'.item = item
        /\ "table" \notin DOMAIN reply' /\ "count" \notin DOMAIN reply'
    BY <2>2 DEF About
  <2>4. handle.at = p /\ handle.life = life[p] => Named(p) = handle.address
    BY <1>1 DEF SInv, Named
  <2>5. IdsHoldForLife'
    BY <1>1, <2>3, <2>4 DEF IdsHoldForLife
  <2>6. PositionsExact'
    BY <2>2, <2>3 DEF PositionsExact, Listing
  <2> QED
    BY <2>3, <2>5, <2>6 DEF HandlesHonest, Unpaged
<1> QED
  BY <1>2, <1>3, FollowAnswers

LEMMA LookHonest ==
  ASSUME Look
  PROVE  HandlesHonest' /\ Unpaged'
<1>1. PICK table \in Tables \cup {None}, n \in Positions, given \in Pages :
        SqlSourceRecord(table, n, given)
  BY DEF Look
<1>2. CASE \E s : reply' = Status(s)
  BY <1>2, BareHonest
<1>3. CASE ~\E s : reply' = Status(s)
  <2> DEFINE r == Physical[table][n]
  <2>1. table \in Tables
    BY <1>1, <1>3 DEF SqlSourceRecord
  <2>2. reply' = [status |-> CASE AtMost(r) = 0 -> 404
                               [] AtMost(r) = 1 -> 200
                               [] OTHER -> 409,
                  table |-> table, id |-> n]
    BY <1>1, <1>3 DEF SqlSourceRecord
  <2>3. r \in Nat
    BY <2>1, SurfaceAssumption
  <2>4. AtMost(r) = 1 <=> r = 1
    BY <2>3 DEF AtMost, Min
  <2>5. /\ reply'.status = CASE AtMost(r) = 0 -> 404 [] AtMost(r) = 1 -> 200 [] OTHER -> 409
        /\ reply'.table = table /\ reply'.id = n
        /\ "address" \notin DOMAIN reply' /\ "count" \notin DOMAIN reply'
    BY <2>2
  <2> HIDE DEF r
  <2>6. reply'.status = 200 <=> r = 1
    BY <2>4, <2>5
  <2>7. PositionsExact'
    BY <2>5, <2>6 DEF PositionsExact, IsAbout, r
  <2>8. IdsHoldForLife'
    BY <2>5 DEF IdsHoldForLife, IsAbout
  <2> QED
    BY <2>5, <2>7, <2>8 DEF HandlesHonest, Unpaged
<1> QED
  BY <1>2, <1>3

------------------------------------------------------------------------------
(* The composition. Each part's steps keep its own invariant and leave the *)
(* others' variables alone; only a step that answers has to show that its  *)
(* answer is right, of the one kind it is.                                 *)
AtInv ==
  /\ at \in Replicas \cup {None}
  /\ hatch = "idle" <=> at = None
  /\ at # None => stage[at] = "serving"

IInv == PInv /\ HInv /\ SInv /\ AtInv /\ CapExact /\ HandlesHonest

LEMMA UnpagedIsExact ==
  ASSUME Unpaged'
  PROVE  CapExact'
BY DEF Unpaged, CapExact

LEMMA UnnamedIsHonest ==
  ASSUME Unnamed'
  PROVE  HandlesHonest'
BY DEF Unnamed, HandlesHonest, IdsHoldForLife, PositionsExact, IsAbout

LEMMA SilentIsRight ==
  ASSUME reply' = None
  PROVE  CapExact' /\ HandlesHonest'
BY UnpagedIsExact, UnnamedIsHonest DEF Unpaged, Unnamed

LEMMA Starts == Init => IInv
<1> SUFFICES ASSUME Init PROVE IInv
  OBVIOUS
<1>1. PInv /\ HInv /\ SInv
  BY PreflightStarts, HatchStarts, SurfaceStarts DEF Init
<1>2. AtInv
  BY DEF Init, HatchInit, Idle, AtInv
<1>3. CapExact /\ HandlesHonest
  BY DEF Init, CapExact, HandlesHonest, IdsHoldForLife, PositionsExact, IsAbout
<1> QED
  BY <1>1, <1>2, <1>3 DEF IInv

LEMMA CatalogChangesKeeps ==
  ASSUME IInv, CatalogChanges
  PROVE  IInv'
<1>1. PInv'
  BY PartnerKeeps DEF IInv, CatalogChanges
<1>2. HInv' /\ SInv'
  BY HatchStutters, SurfaceStutters DEF IInv, CatalogChanges
<1>3. AtInv'
  BY DEF IInv, CatalogChanges, Partner, AtInv, hatchVars, request
<1>4. CapExact' /\ HandlesHonest'
  BY SilentIsRight DEF CatalogChanges, Silent
<1> QED
  BY <1>1, <1>2, <1>3, <1>4 DEF IInv

(* A process that boots does not have the request in hand: it is not       *)
(* serving.                                                                *)
LEMMA BootsKeeps ==
  ASSUME IInv, NEW p \in Replicas, Boots(p)
  PROVE  IInv'
<1>1. PInv'
  BY BootKeeps DEF IInv, Boots, Boot
<1>2. HInv'
  BY HatchStutters DEF IInv, Boots
<1>3. SInv'
  BY NewCacheKeeps, SurfaceStutters DEF IInv, Boots
<1>4. AtInv'
  <2>1. stage[p] # "serving" /\ \E s : stage' = [stage EXCEPT ![p] = s]
    BY DEF Boots, Start, CheckFunction, CheckIndexes, VerifyCollation, GoTo
  <2>2. \A q \in Replicas : stage[q] = "serving" => stage'[q] = "serving"
    BY <2>1 DEF IInv, PInv, PreflightTypeOK
  <2> QED
    BY <2>2 DEF IInv, Boots, AtInv, hatchVars, request
<1>5. CapExact' /\ HandlesHonest'
  BY SilentIsRight DEF Boots, Silent
<1> QED
  BY <1>1, <1>2, <1>3, <1>4, <1>5 DEF IInv

(* The request of a process that ends may have run, without an effect.     *)
LEMMA StopsKeeps ==
  ASSUME IInv, NEW p \in Replicas, Stops(p)
  PROVE  IInv'
<1>1. PInv'
  BY BootKeeps DEF IInv, Stops
<1>2. SInv'
  BY SurfaceStutters DEF IInv, Stops
<1>3. CapExact' /\ HandlesHonest'
  BY SilentIsRight DEF Stops, Silent
<1>4. stage' = [stage EXCEPT ![p] = "down"]
  BY DEF Stops, Stop, GoTo
<1>5. CASE at = p
  <2>1. Dropped /\ MayHaveRun /\ at' = None /\ setting' = setting
    BY <1>5 DEF Stops
  <2>2. effects' = effects
    BY <2>1, NothingRuns DEF IInv, MayHaveRun
  <2>3. HInv'
    BY <2>1, <2>2, DroppedKeeps DEF IInv
  <2>4. AtInv'
    BY <2>1 DEF AtInv, Dropped
  <2> QED
    BY <1>1, <1>2, <1>3, <2>3, <2>4 DEF IInv
<1>6. CASE at # p
  <2>1. UNCHANGED hatchVars /\ at' = at
    BY <1>6 DEF Stops, hatchVars
  <2>2. HInv'
    BY <2>1, HatchStutters DEF IInv
  <2>3. AtInv'
    BY <1>4, <1>6, <2>1 DEF IInv, PInv, PreflightTypeOK, AtInv, hatchVars, request
  <2> QED
    BY <1>1, <1>2, <1>3, <2>2, <2>3 DEF IInv
<1> QED
  BY <1>5, <1>6

LEMMA AsksKeeps ==
  ASSUME IInv, NEW p \in Replicas, Asks(p)
  PROVE  IInv'
<1>1. HInv' /\ Unpaged' /\ Unnamed'
  BY PostKeeps DEF IInv, Asks
<1>2. PInv' /\ SInv'
  BY PreflightStutters, SurfaceStutters DEF IInv, Asks
<1>3. AtInv'
  BY HttpAssumption DEF Asks, AtInv, preflightVars
<1> QED
  BY <1>1, <1>2, <1>3, UnpagedIsExact, UnnamedIsHonest DEF IInv

LEMMA ContinuesKeeps ==
  ASSUME IInv, Continues
  PROVE  IInv'
<1>1. HInv' /\ CapExact' /\ Unnamed'
  BY ExplainedKeeps, ExecutedKeeps, EndsKeep, UnpagedIsExact DEF IInv, Continues, Hatch
<1>2. PInv' /\ SInv'
  BY PreflightStutters, SurfaceStutters DEF IInv, Continues
<1>3. AtInv'
  <2>1. hatch # "idle"
    BY DEF Continues, Hatch, Explained, Executed, NoTimeout, Fails
  <2> QED
    BY <2>1 DEF IInv, Continues, AtInv, preflightVars
<1> QED
  BY <1>1, <1>2, <1>3, UnnamedIsHonest DEF IInv

LEMMA TypedKeeps ==
  ASSUME IInv, NEW p \in Replicas, Typed(p)
  PROVE  IInv'
<1>1. PInv' /\ HInv'
  BY PreflightStutters, HatchStutters DEF IInv, Typed
<1>2. AtInv'
  BY DEF IInv, Typed, AtInv, preflightVars, hatchVars, request
<1>3. SInv' /\ CapExact' /\ HandlesHonest'
  <2>1. ASSUME NEW a \in Addresses \cup {None}, NEW rows, ResolveAddress(p, a, rows)
        PROVE  SInv' /\ CapExact' /\ HandlesHonest'
    BY <2>1, ResolveKeeps, UnpagedIsExact, UnnamedIsHonest DEF IInv
  <2>2. ASSUME NEW i \in known[p], Forget(p, i)
        PROVE  SInv' /\ CapExact' /\ HandlesHonest'
    BY <2>2, ForgetKeeps, SilentIsRight DEF IInv
  <2>3. CASE Follow(p)
    BY <2>3, FollowHonest, SurfaceStutters, UnpagedIsExact DEF IInv, Follow
  <2>4. CASE Look
    BY <2>4, LookHonest, SurfaceStutters, UnpagedIsExact DEF IInv, Look
  <2> QED
    BY <2>1, <2>2, <2>3, <2>4 DEF Typed, Surface
<1> QED
  BY <1>1, <1>2, <1>3 DEF IInv

LEMMA Stutters ==
  ASSUME IInv, UNCHANGED vars
  PROVE  IInv'
<1>1. PInv' /\ HInv' /\ SInv'
  BY PreflightStutters, HatchStutters, SurfaceStutters DEF IInv, vars
<1>2. AtInv'
  BY DEF IInv, vars, AtInv, preflightVars, hatchVars, request
<1>3. CapExact' /\ HandlesHonest'
  BY DEF IInv, vars, surfaceVars, cacheVars, hatchVars, CapExact, HandlesHonest,
         IdsHoldForLife, PositionsExact, IsAbout
<1> QED
  BY <1>1, <1>2, <1>3 DEF IInv

(* The inductive invariant of the service holds in every state of it.      *)
THEOREM Invariance == Spec => []IInv
<1>1. Init => IInv
  BY Starts
<1>2. IInv /\ [Next]_vars => IInv'
  BY CatalogChangesKeeps, BootsKeeps, StopsKeeps, AsksKeeps, ContinuesKeeps, TypedKeeps, Stutters
     DEF Next
<1> QED
  BY <1>1, <1>2, PTL DEF Spec

(* The variables of all three parts have their types, and the process that *)
(* has a hatch request in hand serves, through every start and stop.       *)
THEOREM TypeCorrect == Spec => []TypeOK
<1>1. IInv => TypeOK
  BY DEF IInv, PInv, HInv, SInv, AtInv, TypeOK
<1> QED
  BY <1>1, Invariance, PTL

(* preflight.py reads the function and the indexes in two queries, between *)
(* which the partner may drop and build: a process that passes both has    *)
(* had them all there at one moment since it started.                      *)
THEOREM ServesOnlyCheckedAlways == Spec => []ServesOnlyChecked
<1>1. IInv => ServesOnlyChecked
  BY DEF IInv, PInv
<1> QED
  BY <1>1, Invariance, PTL

(* sql_guard.py's walk and sql_hatch.py's read-only transaction, which     *)
(* alone would each let something through, together leave a query no       *)
(* effect on the partner's database: of any tree, however it ends.         *)
THEOREM ReadsOnlyAlways == Spec => []ReadsOnly
<1>1. IInv => ReadsOnly
  BY DEF IInv, HInv
<1> QED
  BY <1>1, Invariance, PTL

(* check_plan and limits.py let a query run only on a plan within the      *)
(* ceilings that are in force, whatever the environment holds for them.    *)
THEOREM RunsBoundedAlways == Spec => []RunsBounded
<1>1. IInv => RunsBounded
  BY WithinCeilings DEF IInv
<1> QED
  BY <1>1, Invariance, PTL

(* run_sql's page holds what max_rows and the operator's cap allow of the  *)
(* query's rows, and `truncated` is true exactly when rows are missing.    *)
THEOREM CapExactAlways == Spec => []CapExact
<1>1. IInv => CapExact
  BY DEF IInv
<1> QED
  BY <1>1, Invariance, PTL

(* The ids that bundle.py mints and the positions that handlers.py numbers *)
(* name, at the process that gave them and in its life, what they named.   *)
THEOREM HandlesHonestAlways == Spec => []HandlesHonest
<1>1. IInv => HandlesHonest
  BY DEF IInv
<1> QED
  BY <1>1, Invariance, PTL
==============================================================================
