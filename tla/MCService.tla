------------------------------ MODULE MCService ------------------------------
(* Two required indexes at most, on relations of their own; queries that   *)
(* offend at every depth and under qualified names; plans under, at and    *)
(* over the ceilings; results around the row cap.                          *)
EXTENDS Service, TLC

MCRelationOf == [n \in Required |-> IF n = "zip" THEN "legacy" ELSE "new"]

Def(on, normed, pattern) == [on |-> on, normed |-> normed, pattern |-> pattern]
MCDefinitions == {Def("legacy", TRUE, TRUE), Def("legacy", TRUE, FALSE)}

(* "grow" writes and is not listed; "sleep" is, and escapes transactions.  *)
MCNames == {"catalog", "grow", "sleep"}

N(depth, kind)      == [depth |-> depth, kind |-> kind, parts |-> {}]
Call(depth, parts)  == [depth |-> depth, kind |-> "Call", parts |-> parts]
Sql(stmts)          == [kind |-> "sql", stmts |-> stmts]
Plain               == <<N(0, "Select"), N(1, "Plain")>>

MCQueries ==
  {[kind |-> k] : k \in {"missing", "notText", "malformed"}}
    \cup {Sql(<<Plain, Plain>>), Sql(<<<<N(0, "OtherStmt")>>>>),
          Sql(<<<<N(0, "Select"), N(1, "Plain"), N(2, "OtherStmt")>>>>),
          Sql(<<<<N(0, "SelectInto"), N(1, "Locking")>>>>),
          Sql(<<<<N(0, "Select"), Call(1, {"catalog", "sleep"})>>>>),
          Sql(<<<<N(0, "Select"), N(1, "Plain"), Call(2, {"sleep"})>>>>),
          Sql(<<<<N(0, "Select"), Call(1, {"grow"})>>>>)}

Unset == [kind |-> "unset"]
Inf   == [kind |-> "inf"]

MCBodies ==
  [query : MCQueries, rows : {Unset}]
    \cup [query : {Sql(<<Plain>>)},
          rows : {Unset, Is(0), Is(1), Is(9), [kind |-> "word"], [kind |-> "nan"], Inf}]

Scan(type, relation, cost) == [type |-> type, relation |-> relation, cost |-> cost]
MCPlans ==
  {<<Scan("Other", None, 3), Scan("Seq Scan", "legacy", 1)>>,
   <<Scan("Other", None, 3), Scan("Seq Scan", "legacy", 2)>>,
   <<Scan("Other", None, 4), Scan("Seq Scan", None, 2)>>}

MCDefaults == [cost |-> 3, seqscan |-> 1, rows |-> 2, timeout |-> 1]
Untouched  == [cost |-> Unset, seqscan |-> Unset, rows |-> Unset, timeout |-> Unset]
MCUntouched == {Untouched}
MCSettings ==
  {Untouched,
   [Untouched EXCEPT !.cost = Inf],
   [Untouched EXCEPT !.seqscan = [kind |-> "nan"]],
   [Untouched EXCEPT !.rows = Is(1), !.cost = Is(2)],
   [Untouched EXCEPT !.rows = Is(0), !.timeout = Is(0)],
   [Untouched EXCEPT !.timeout = [kind |-> "word"]]}

MCRows ==
  [a \in Addresses |->
     IF a = "empty" THEN [base |-> <<>>, tax |-> <<>>]
                    ELSE [base |-> <<a, "twin">>, tax |-> <<"twin">>]]
MCPeople == [a \in Addresses |-> IF a = "empty" THEN <<>> ELSE <<a, "mother">>]

MCPositions == -1..2

(* A record_id that two rows have, one that no row has.                    *)
MCPhysical ==
  [t \in {"records_new"} |->
     [n \in MCPositions |-> IF n = 0 THEN 2 ELSE IF n = 1 THEN 1 ELSE 0]]
MCPages == {Unset, [kind |-> "word"], Is(1)}
==============================================================================
