--------------------------------- MODULE Http ---------------------------------
(***************************************************************************)
(* What the handlers (service/handlers.py) answer, and the values that     *)
(* arrive as text or JSON and leave int() and float().                     *)
(***************************************************************************)
EXTENDS Integers, Sequences

CONSTANTS
  Replicas,  \* the processes of the service, on one partner database
  None       \* no value, no refusal, no reply

ASSUME HttpAssumption ==
  None \notin Replicas \cup [status : {200, 400, 404, 422, 500}]

VARIABLE reply  \* what this step told a client: None if it told nobody

(* A number, or what the parsing of one meets instead of it.               *)
Is(n)   == [kind |-> "number", value |-> n]
Numbers == [kind : {"number"}, value : Int]
Values  == Numbers \cup [kind : {"unset", "word", "inf", "nan"}]

Status(s) == [status |-> s]

Silent == reply' = None

(* int() raises ValueError on a word and on nan, which the handlers answer *)
(* with 400, and OverflowError on an infinity, which nobody catches.       *)
IntStatus(v) ==
  CASE v.kind \in {"unset", "number"} -> 200
    [] v.kind \in {"word", "nan"}     -> 400
    [] v.kind = "inf"                 -> 500

Min(x, y) == IF x < y THEN x ELSE y
Max(x, y) == IF x > y THEN x ELSE y
==============================================================================
