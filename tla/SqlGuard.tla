------------------------------- MODULE SqlGuard -------------------------------
(***************************************************************************)
(* The first two stages of the SQL hatch (service/sql_guard.py): what a    *)
(* query's parse tree may contain, and the wrap that bounds its result.    *)
(*                                                                         *)
(* A tree is written down as the sequence that _walk yields: its nodes     *)
(* depth first, each with its depth. Of a node the guard reads what it is  *)
(* and, of a function call, the names it is made of. The lists of names    *)
(* that are refused are one set, the names that match them after folding.  *)
(***************************************************************************)
EXTENDS Http

CONSTANTS
  Names,     \* the names that calls are made of
  Listed,    \* those that _BLOCKED_FUNCTIONS or _BLOCKED_PREFIXES match
  Writing,   \* functions that write to tables
  Escaping   \* functions whose effects no transaction contains

(* A SelectStmt with and without an intoClause, any other node whose name  *)
(* ends in Stmt, a LockingClause, a FuncCall, and all other nodes.         *)
Kinds == {"Select", "SelectInto", "OtherStmt", "Locking", "Call", "Plain"}
Node  == [depth : Nat, kind : Kinds, parts : SUBSET Names]
Trees == {t \in Seq(Node) : t # <<>>}

(* What pglast makes of a text: nothing (it is not SQL), or statements.    *)
Texts == [kind : {"blank", "malformed"}] \cup [kind : {"sql"}, stmts : Seq(Trees)]

Reasons ==
  {"not a SELECT", "empty query", "not valid SQL", "not one statement"} \cup Kinds

(* A denylist of names can never be proven complete, says the module: that *)
(* this one is complete for the effects no transaction contains is assumed.*)
ASSUME GuardAssumption ==
  /\ Listed \subseteq Names /\ Writing \subseteq Names
  /\ Escaping \subseteq Listed
  /\ None \notin [stage : {"parse"}, why : Reasons]

(* A faulty BadCall, which looks at unqualified names only.                *)
BadUnqualified(node) == node.kind = "Call" /\ \E x \in Listed : node.parts = {x}

(* A call is refused if any part of its name is listed.                    *)
BadCall(node) == node.kind = "Call" /\ node.parts \cap Listed # {}

Offends(node) == node.kind \in {"OtherStmt", "SelectInto", "Locking"} \/ BadCall(node)

(* A faulty Offenders, which does not walk below the first level.          *)
ShallowOffenders(tree) == {i \in DOMAIN tree : Offends(tree[i]) /\ tree[i].depth <= 1}

Offenders(tree) == {i \in DOMAIN tree : Offends(tree[i])}

(* parse raises at the first offender that its walk meets.                 *)
First(s) == CHOOSE i \in s : \A j \in s : i <= j

Refusal(stage, why) == [stage |-> stage, why |-> why]

ParseTree(tree) ==
  IF tree[1].kind \notin {"Select", "SelectInto"} THEN Refusal("parse", "not a SELECT")
  ELSE IF Offenders(tree) # {} THEN Refusal("parse", tree[First(Offenders(tree))].kind)
  ELSE None

Parse(text) ==
  IF text.kind = "blank" THEN Refusal("parse", "empty query")
  ELSE IF text.kind = "malformed" THEN Refusal("parse", "not valid SQL")
  ELSE IF Len(text.stmts) # 1 THEN Refusal("parse", "not one statement")
  ELSE ParseTree(text.stmts[1])

(* SELECT * FROM (query) LIMIT limit.                                      *)
Wrap(tree, limit) == [body |-> tree, limit |-> limit]

Fetched(wrapped, size) == IF size < wrapped.limit THEN size ELSE wrapped.limit

------------------------------------------------------------------------------
(* What running a tree does, to Postgres: a read-only transaction refuses  *)
(* whatever writes to tables or locks their rows, and has no hold over     *)
(* functions whose effects lie elsewhere.                                  *)
Writes(tree) ==
  \E i \in DOMAIN tree :
    \/ tree[i].kind \in {"OtherStmt", "SelectInto", "Locking"}
    \/ tree[i].kind = "Call" /\ tree[i].parts \cap Writing # {}

Escapes(tree) ==
  \E i \in DOMAIN tree : tree[i].kind = "Call" /\ tree[i].parts \cap Escaping # {}

EffectsOf(tree, readOnly) ==
  (IF Writes(tree) /\ ~readOnly THEN {"write"} ELSE {}) \cup
  (IF Escapes(tree) THEN {"escape"} ELSE {})
==============================================================================
