------------------------------- MODULE Service -------------------------------
(***************************************************************************)
(* The service as its callers and its operators meet it: processes that    *)
(* start, check the partner's catalog, serve and stop; the typed routes    *)
(* over the ids that each of them mints; and the SQL hatch. They share the *)
(* partner's database, and a process's life: what it knows and what it was *)
(* doing end with it.                                                      *)
(***************************************************************************)
EXTENDS Preflight, SqlHatch, TypedSurface

VARIABLE at  \* the process that has the hatch request in hand, or None

vars == <<reply, preflightVars, hatchVars, at, surfaceVars>>

Init ==
  /\ PreflightInit /\ HatchInit /\ SurfaceInit
  /\ at = None /\ reply = None

(* The partner's side of the catalog moves.                                *)
CatalogChanges == Partner /\ Silent /\ UNCHANGED <<hatchVars, at, surfaceVars>>

(* A process starts. The lifespan gives it its cache when the preflight is *)
(* over, and serves.                                                       *)
Boots(p) ==
  /\ \/ (Start(p) \/ CheckFunction(p) \/ CheckIndexes(p)) /\ UNCHANGED surfaceVars
     \/ VerifyCollation(p) /\ NewCache(p)
  /\ Silent
  /\ UNCHANGED <<hatchVars, at>>

(* A process ends, and with it the request that it has in hand.            *)
Stops(p) ==
  /\ Stop(p)
  /\ IF at = p THEN Dropped /\ MayHaveRun /\ at' = None
               ELSE UNCHANGED <<request, effects, at>>
  /\ Silent
  /\ UNCHANGED <<setting, surfaceVars>>

(* A request to the hatch arrives at a process that serves.                *)
Asks(p) ==
  /\ stage[p] = "serving"
  /\ \E body \in Bodies : Post(body)
  /\ at' = IF hatch' = "idle" THEN None ELSE p
  /\ UNCHANGED <<preflightVars, surfaceVars>>

(* The request in hand goes on.                                            *)
Continues ==
  /\ Hatch
  /\ at' = IF hatch' = "idle" THEN None ELSE at
  /\ UNCHANGED <<preflightVars, surfaceVars>>

Typed(p) ==
  /\ stage[p] = "serving"
  /\ Surface(p)
  /\ UNCHANGED <<preflightVars, hatchVars, at>>

Next ==
  \/ CatalogChanges
  \/ \E p \in Replicas : Boots(p) \/ Stops(p) \/ Asks(p) \/ Typed(p)
  \/ Continues

Spec == Init /\ [][Next]_vars

------------------------------------------------------------------------------
(* Every part of the service has its type, and the request in hand is at a *)
(* process that serves.                                                    *)
TypeOK ==
  /\ PreflightTypeOK /\ HatchTypeOK /\ SurfaceTypeOK
  /\ at \in Replicas \cup {None}
  /\ hatch = "idle" <=> at = None
  /\ at # None => stage[at] = "serving"
==============================================================================
