------------------------------ MODULE Preflight ------------------------------
(***************************************************************************)
(* The start of a service process (service/app.py) and the checks it makes *)
(* of the partner's catalog (source/preflight.py) before it serves.        *)
(*                                                                         *)
(* The partner changes its catalog at any time and tells nobody. A process *)
(* reads it in three queries, one after another and on two connections: is *)
(* the function there, are the indexes there, what is the collation. A     *)
(* refusal, like a query that fails, closes the pool and ends the process, *)
(* which its orchestrator starts again.                                    *)
(***************************************************************************)
EXTENDS Http

CONSTANTS
  Required,     \* the names of REQUIRED_INDEXES
  Relations,    \* the relations of the partner's schema public
  RelationOf,   \* the relation REQUIRED_INDEXES gives for each name
  Definitions,  \* the indexes that the partner may build, as records
  Absent        \* no index of that name in schema public

(* What a check reads of an index: the relation it is on, and whether the  *)
(* text of its definition has s5_street_norm and text_pattern_ops in it.   *)
IndexDefs == [on : Relations, normed : BOOLEAN, pattern : BOOLEAN]

ASSUME PreflightAssumption ==
  /\ Required # {}
  /\ RelationOf \in [Required -> Relations]
  /\ Definitions \subseteq IndexDefs
  /\ Absent \notin [def : IndexDefs, valid : BOOLEAN]

VARIABLES
  norm,       \* silver.s5_street_norm exists
  index,      \* the index of each required name, or Absent
  stage,      \* where each process is
  sound       \* since each process started, all it requires was there at one
              \* moment (a history variable)

catalog       == <<norm, index>>
preflightVars == <<catalog, stage, sound>>

Stages == {"down", "function", "indexes", "collation", "serving"}

PreflightTypeOK ==
  /\ norm \in BOOLEAN
  /\ index \in [Required -> [def : IndexDefs, valid : BOOLEAN] \cup {Absent}]
  /\ stage \in [Replicas -> Stages]
  /\ sound \in [Replicas -> BOOLEAN]

(* The query for the indexes asks for these names on any of the required   *)
(* relations: it does not ask that a name be on its own one.               *)
Found(n) == index[n] # Absent /\ index[n].def.on \in {RelationOf[r] : r \in Required}

(* A faulty Missed, which takes an index that is in the catalog as usable. *)
MissedByName(n) == ~Found(n)

(* A faulty Missed, which reads of the definition only the expression.     *)
MissedByOpclass(n) ==
  ~Found(n) \/ ~index[n].valid \/ ~index[n].def.normed

(* The problem that the check reports of a name.                           *)
Missed(n) ==
  \/ ~Found(n)
  \/ ~index[n].valid
  \/ ~index[n].def.normed \/ ~index[n].def.pattern

Problems == {n \in Required : Missed(n)}

(* What the address predicates need: the function, and on one of the       *)
(* relations they scan an index of each name that the planner can use.     *)
Usable(i) == i # Absent /\ i.valid /\ i.def.normed /\ i.def.pattern

Servable ==
  norm /\ \A n \in Required :
            Usable(index[n]) /\ \E r \in Required : index[n].def.on = RelationOf[r]

(* The history of a step that leaves the processes where they are.         *)
Observe == sound' = [p \in Replicas |-> sound[p] \/ (stage[p] # "down" /\ Servable')]

------------------------------------------------------------------------------
PreflightInit ==
  /\ norm = TRUE
  /\ index \in [Required -> {[def |-> d, valid |-> TRUE] : d \in Definitions}]
  /\ stage = [p \in Replicas |-> "down"]
  /\ sound = [p \in Replicas |-> FALSE]

(* The partner's side. CREATE INDEX CONCURRENTLY leaves an index that is   *)
(* not valid until it ends, and for good if it is interrupted. An index    *)
(* over a function needs the function, and is dropped with it.             *)
CreateIndex(n, d) ==
  /\ index[n] = Absent
  /\ d.normed => norm
  /\ index' = [index EXCEPT ![n] = [def |-> d, valid |-> FALSE]]
  /\ UNCHANGED norm

FinishIndex(n) ==
  /\ index[n] # Absent /\ ~index[n].valid
  /\ index' = [index EXCEPT ![n] = [def |-> @.def, valid |-> TRUE]]
  /\ UNCHANGED norm

DropIndex(n) ==
  /\ index[n] # Absent
  /\ index' = [index EXCEPT ![n] = Absent]
  /\ UNCHANGED norm

OnFunction(i) == i # Absent /\ i.def.normed

DropFunction ==
  /\ norm /\ norm' = FALSE
  /\ index' = [n \in Required |-> IF OnFunction(index[n]) THEN Absent ELSE index[n]]

CreateFunction == ~norm /\ norm' = TRUE /\ UNCHANGED index

Partner ==
  /\ \/ \E n \in Required :
          \/ \E d \in Definitions : CreateIndex(n, d)
          \/ FinishIndex(n)
          \/ DropIndex(n)
     \/ DropFunction
     \/ CreateFunction
  /\ Observe
  /\ UNCHANGED stage

(* The process's side.                                                     *)
GoTo(p, s) ==
  /\ stage' = [stage EXCEPT ![p] = s]
  /\ UNCHANGED <<catalog, sound>>

Start(p) ==
  /\ stage[p] = "down"
  /\ stage' = [stage EXCEPT ![p] = "function"]
  /\ sound' = [sound EXCEPT ![p] = Servable]
  /\ UNCHANGED catalog

CheckFunction(p) ==
  /\ stage[p] = "function"
  /\ GoTo(p, IF norm THEN "indexes" ELSE "down")

CheckIndexes(p) ==
  /\ stage[p] = "indexes"
  /\ GoTo(p, IF Problems = {} THEN "collation" ELSE "down")

(* A collation that is not bytewise empties the people search and nothing  *)
(* else: the process logs it and serves.                                   *)
VerifyCollation(p) == stage[p] = "collation" /\ GoTo(p, "serving")

(* A query of the preflight fails, or the process is stopped.              *)
Stop(p) == stage[p] # "down" /\ GoTo(p, "down")

Boot(p) == Start(p) \/ CheckFunction(p) \/ CheckIndexes(p) \/ VerifyCollation(p)

------------------------------------------------------------------------------
(* A process that serves has seen nothing it may serve without: at one     *)
(* moment since it started, the function and a usable index of every       *)
(* required name were in the catalog together, although it reads them one  *)
(* after the other while the partner rebuilds them.                        *)
ServesOnlyChecked ==
  \A p \in Replicas : stage[p] \in {"collation", "serving"} => sound[p]
==============================================================================
