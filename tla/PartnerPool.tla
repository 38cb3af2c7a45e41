----------------------------- MODULE PartnerPool -----------------------------
(***************************************************************************)
(* The pool of partner connections (source/pool.py), the operations that   *)
(* borrow from it (resolve.py, search.py, sql_hatch.py, preflight.py) and  *)
(* the lifespan that opens and closes it (service/app.py).                 *)
(*                                                                         *)
(* A caller is one HTTP request, or the preflight of the lifespan. It runs *)
(* one command after another, each on a connection acquired for it alone:  *)
(* no caller ever holds two. Every release sends RESET ALL.                *)
(*                                                                         *)
(* A network path may die without a word (a NAT that drops an idle         *)
(* mapping): what is sent over it is lost, in both directions. Three       *)
(* clocks bound the harm: the server's statement_timeout, the client's     *)
(* command_timeout and the kernel's keepalives. Time is in ticks; a tick   *)
(* waits for whatever is due, and a round trip that does no work, a RESET  *)
(* or the confirmation of a cancellation, takes none of it.                *)
(***************************************************************************)
EXTENDS Naturals, FiniteSets

CONSTANTS
  Callers,           \* the HTTP requests made while the service runs
  Preflight,         \* the lifespan's own use of the pool
  MaxSize,           \* PARTNER_POOL_MAX
  StatementTimeout,  \* PARTNER_STATEMENT_TIMEOUT_MS, in ticks
  HatchTimeout,      \* SQL_HATCH_TIMEOUT_MS, in ticks
  CommandGrace,      \* COMMAND_TIMEOUT_GRACE_SECONDS
  DrainGrace,        \* CLOSE_DRAIN_GRACE_SECONDS
  MaxCloseTimeout,   \* MAX_CLOSE_TIMEOUT_SECONDS
  Keepalive,         \* KEEPALIVE_IDLE + INTERVAL * COUNT seconds
  None               \* no caller, no command, no result

ASSUME PoolAssumption ==
  /\ MaxSize \in Nat \ {0}
  /\ StatementTimeout \in Nat \ {0} /\ HatchTimeout \in Nat \ {0}
  /\ {CommandGrace, DrainGrace, MaxCloseTimeout, Keepalive} \subseteq Nat \ {0}
  /\ Preflight \notin Callers

Slots   == 1..MaxSize
Clients == Callers \cup {Preflight}

(* What a caller may run after each command: materialize() scans the zip   *)
(* tables and then tax, unless it has no city; a traversal of the identity *)
(* graph reads a person, the links, and then the rows of each name of a    *)
(* table that is in the links, in the links' order, and there are three;   *)
(* the hatch explains a query and, unless it refuses the plan, runs it.    *)
After ==
  [zip_legacy |-> {"zip_new"}, zip_new |-> {"tax", None}, tax |-> {None},
   search |-> {None}, record |-> {None},
   entity |-> {"links", None}, links |-> {"rows_first", None},
   rows_first |-> {"rows_second", None}, rows_second |-> {"rows_third", None},
   rows_third |-> {None},
   explain |-> {"execute", None}, execute |-> {None},
   indexes |-> {"collation", None}, collation |-> {None}]

Commands == DOMAIN After
Requests == {"zip_legacy", "search", "record", "entity", "explain"}

(* How a command ends: with rows, by QueryCanceledError, by another error  *)
(* of the server, by the TimeoutError of command_timeout, or because the   *)
(* connection or the pool is gone.                                         *)
Endings == {"rows", "cancelled", "error", "timeout", "lost", "unavailable"}
Results == {"answered", "degraded", "refused", "failed"}

ASSUME NoneAssumption == None \notin Clients \cup Endings

Min(x, y) == IF x < y THEN x ELSE y

(* A faulty CommandTimeout, which leaves the server no lead.               *)
NoCommandGrace == StatementTimeout

CommandTimeout == StatementTimeout + CommandGrace

(* A faulty CloseTimeout, without the grace for the teardown.              *)
NoDrainGrace == Min(StatementTimeout, MaxCloseTimeout)

CloseTimeout == Min(StatementTimeout + DrainGrace, MaxCloseTimeout)

(* The server_settings of the startup packet, which RESET ALL restores.    *)
Settings == [timeout : Nat, readOnly : BOOLEAN]
Startup  == [timeout |-> StatementTimeout, readOnly |-> TRUE]

(* A faulty AfterReset: settings that an init= callback SET on connecting, *)
(* which RESET ALL wipes; Postgres takes 0 for unlimited.                  *)
Wiped == [timeout |-> 0, readOnly |-> FALSE]

AfterReset == Startup

(* The hatch opens its transaction READ ONLY and SETs LOCAL its budget.    *)
SessionFor(cmd, session) ==
  IF cmd = "execute" THEN [timeout |-> HatchTimeout, readOnly |-> TRUE]
                     ELSE session

(* What a caller makes of the way its command ended. Only the three that   *)
(* catch QueryCanceledError degrade; the hatch refuses on any error of     *)
(* asyncpg that is a PostgresError, which a lost connection is, too.       *)
Handled(cmd, ending) ==
  CASE ending = "rows"                                       -> "answered"
    [] ending = "cancelled"
         /\ cmd \in {"tax", "search", "rows_first", "rows_second", "rows_third"}
                                                            -> "degraded"
    [] ending \in {"cancelled", "error", "lost"}
         /\ cmd \in {"explain", "execute"}                   -> "refused"
    [] OTHER                                                 -> "failed"

VARIABLES
  pool,     \* "starting", "open", "closing" or "closed"
  closing,  \* ticks since close() was called
  conn,     \* the connections: [state, by, age, cut, session]
  todo,     \* the command each client runs or is about to, None when it has
            \* nothing to do
  ended,    \* how that command ended, known before its connection is released
  result    \* what each client's request came to, None until then

vars == <<pool, closing, conn, todo, ended, result>>

(* A connection is used by `by` for a command sent `age` ticks ago. `cut`  *)
(* is 0 while its path is up, else 1 + the ticks since the path died.      *)
Closed == [state |-> "closed", by |-> None, age |-> 0, cut |-> 0,
           session |-> Startup]

Up(i)   == conn[i].cut = 0
Held(i) == conn[i].state \in {"query", "cancelling", "reset"}

Put(i, s) == [conn EXCEPT ![i].state = s, ![i].age = 0]

------------------------------------------------------------------------------
Init ==
  /\ pool = "starting" /\ closing = 0
  /\ conn = [i \in Slots |-> Closed]
  /\ todo = [c \in Clients |-> IF c = Preflight THEN "indexes" ELSE None]
  /\ ended = [c \in Clients |-> None]
  /\ result = [c \in Clients |-> None]

(* A faulty Served: startup is refused, and the pool is left open.         *)
LeftOpen(c, r) ==
  /\ pool' = IF c = Preflight /\ r = "answered" THEN "open" ELSE pool
  /\ UNCHANGED closing

(* The lifespan serves once its preflight has passed, and closes the pool  *)
(* before it lets the exception of a failed one propagate.                 *)
Served(c, r) ==
  /\ pool' = IF c # Preflight THEN pool
             ELSE IF r = "answered" THEN "open" ELSE "closing"
  /\ UNCHANGED closing

Finish(c, r) ==
  /\ todo' = [todo EXCEPT ![c] = None]
  /\ ended' = [ended EXCEPT ![c] = None]
  /\ result' = [result EXCEPT ![c] = r]
  /\ Served(c, r)

(* Client c has released its connection, and its command ended with e.     *)
Proceed(c, e) ==
  \/ /\ e = "rows"
     /\ \E next \in After[todo[c]] \ {None} :
          todo' = [todo EXCEPT ![c] = next]
     /\ ended' = [ended EXCEPT ![c] = None]
     /\ UNCHANGED <<pool, closing, result>>
  \/ /\ e = "rows" /\ None \in After[todo[c]]
     /\ Finish(c, IF todo[c] \in {"explain", "indexes"} THEN "refused"
                                                        ELSE "answered")
  \/ /\ e # "rows"
     /\ Finish(c, Handled(todo[c], e))

(* A request arrives while the service serves. *)
Request(c) ==
  /\ pool = "open"
  /\ todo[c] = None /\ result[c] = None
  /\ \E cmd \in Requests : todo' = [todo EXCEPT ![c] = cmd]
  /\ UNCHANGED <<pool, closing, conn, ended, result>>

(* A faulty Wants: a caller that acquires within its own `async with`.     *)
WantsMore(c) == todo[c] # None

Wants(c) == todo[c] # None /\ ~\E i \in Slots : conn[i].by = c

(* acquire: an idle connection, or a new one in a slot that has none; the  *)
(* command is sent at once.                                                *)
Acquire(c, i) ==
  /\ pool \in {"starting", "open"}
  /\ Wants(c) /\ ~Held(i)
  /\ conn' = [conn EXCEPT ![i].state = "query", ![i].by = c, ![i].age = 0,
                          ![i].session = SessionFor(todo[c], @)]
  /\ UNCHANGED <<pool, closing, todo, ended, result>>

(* No connection can be made: the socket fails, or the server refuses.     *)
ConnectFails(c, i) ==
  /\ pool \in {"starting", "open"}
  /\ Wants(c) /\ conn[i].state = "closed"
  /\ \E e \in {"unavailable", "error"} : Finish(c, Handled(todo[c], e))
  /\ UNCHANGED conn

(* acquire raises InterfaceError once close() has been called. *)
AcquireRefused(c) ==
  /\ pool \in {"closing", "closed"}
  /\ Wants(c)
  /\ Finish(c, Handled(todo[c], "unavailable"))
  /\ UNCHANGED conn

(* The server ends a command: with rows, with an error, or by cancelling   *)
(* it, which an administrator may do at any time. The caller leaves its    *)
(* `async with`, whose release sends RESET ALL.                            *)
Reply(i, e) ==
  /\ conn[i].state = "query" /\ Up(i)
  /\ conn' = Put(i, "reset")
  /\ ended' = [ended EXCEPT ![conn[i].by] = e]
  /\ UNCHANGED <<pool, closing, todo, result>>

(* command_timeout on a command: TimeoutError is raised into the caller,   *)
(* whose release waits until the server confirms the cancellation.         *)
GiveUp(i) ==
  /\ conn[i].state = "query" /\ conn[i].age = CommandTimeout
  /\ conn' = Put(i, "cancelling")
  /\ ended' = [ended EXCEPT ![conn[i].by] = "timeout"]
  /\ UNCHANGED <<pool, closing, todo, result>>

CancelConfirmed(i) ==
  /\ conn[i].state = "cancelling" /\ Up(i)
  /\ conn' = Put(i, "reset")
  /\ UNCHANGED <<pool, closing, todo, ended, result>>

(* RESET ALL is done: the slot is free and the caller goes on. *)
Released(i) ==
  /\ conn[i].state = "reset" /\ Up(i)
  /\ conn' = [conn EXCEPT ![i] = [@ EXCEPT !.state = "idle", !.by = None,
                                           !.age = 0, !.session = AfterReset]]
  /\ Proceed(conn[i].by, ended[conn[i].by])

(* command_timeout on the RESET: asyncpg drops the connection and raises   *)
(* the TimeoutError in place of whatever the command gave.                 *)
ResetFails(i) ==
  /\ conn[i].state = "reset" /\ conn[i].age = CommandTimeout
  /\ conn' = [conn EXCEPT ![i] = Closed]
  /\ Proceed(conn[i].by, "timeout")

(* A network path dies unnoticed. *)
PathDies(i) ==
  /\ conn[i].state # "closed" /\ Up(i)
  /\ conn' = [conn EXCEPT ![i].cut = 1]
  /\ UNCHANGED <<pool, closing, todo, ended, result>>

(* A faulty SocketDead: without keepalives an idle or waiting socket never *)
(* learns that its path is dead.                                           *)
NeverLearns(i) == FALSE

(* The last keepalive probe has failed. *)
SocketDead(i) == conn[i].cut > Keepalive

(* The kernel reports the socket dead, which ends the caller's wait for a  *)
(* reply, for the confirmation of a cancellation or for a RESET.           *)
KeepaliveFails(i) ==
  /\ conn[i].state # "closed" /\ SocketDead(i)
  /\ conn' = [conn EXCEPT ![i] = Closed]
  /\ \/ Held(i) /\ Proceed(conn[i].by, IF conn[i].state = "cancelling"
                                       THEN "timeout" ELSE "lost")
     \/ ~Held(i) /\ UNCHANGED <<pool, closing, todo, ended, result>>

(* close() is called when the server has stopped taking requests: perhaps  *)
(* with commands in flight, but with nobody waiting for a connection.      *)
Close ==
  /\ pool = "open"
  /\ \A c \in Clients : Wants(c) => \E i \in Slots : ~Held(i)
  /\ pool' = "closing"
  /\ UNCHANGED <<closing, conn, todo, ended, result>>

(* Pool.close() returns once every connection has been released. *)
Drained ==
  /\ pool = "closing"
  /\ \A i \in Slots : ~Held(i)
  /\ pool' = "closed" /\ closing' = 0
  /\ conn' = [i \in Slots |-> Closed]
  /\ UNCHANGED <<todo, ended, result>>

(* wait_for gives up on the drain: terminate() drops every connection, and *)
(* with it what its caller waits for.                                      *)
Terminate ==
  /\ pool = "closing" /\ closing >= CloseTimeout
  /\ \E i \in Slots : Held(i)
  /\ pool' = "closed" /\ closing' = 0
  /\ conn' = [i \in Slots |-> Closed]
  /\ LET cut == {conn[i].by : i \in {j \in Slots : Held(j)}}
     IN  /\ todo' = [c \in Clients |-> IF c \in cut THEN None ELSE todo[c]]
         /\ ended' = [c \in Clients |-> IF c \in cut THEN None ELSE ended[c]]
         /\ result' = [c \in Clients |->
              IF c \notin cut THEN result[c]
              ELSE Handled(todo[c], IF ended[c] = "timeout" THEN "timeout"
                                                            ELSE "lost")]

(* Something is due at connection i, and time waits for it. *)
Due(i) ==
  LET k == conn[i]
  IN  \/ k.state = "query" /\ Up(i)
           /\ k.session.timeout # 0 /\ k.age >= k.session.timeout
      \/ k.state \in {"cancelling", "reset"} /\ Up(i)
      \/ k.state \in {"query", "reset"} /\ k.age >= CommandTimeout
      \/ SocketDead(i)

Tick ==
  /\ \A i \in Slots : ~Due(i)
  /\ pool = "closing" => closing < CloseTimeout
  /\ closing' = IF pool = "closing" THEN closing + 1 ELSE closing
  /\ conn' = [i \in Slots |->
       [conn[i] EXCEPT
          !.age = IF conn[i].state \in {"query", "reset"} THEN @ + 1 ELSE @,
          !.cut = IF @ = 0 THEN 0 ELSE Min(@ + 1, Keepalive + 1)]]
  /\ UNCHANGED <<pool, todo, ended, result>>

Next ==
  \/ \E c \in Callers : Request(c)
  \/ \E c \in Clients, i \in Slots : Acquire(c, i)
  \/ \E c \in Clients, i \in Slots : ConnectFails(c, i)
  \/ \E c \in Clients : AcquireRefused(c)
  \/ \E i \in Slots, e \in {"rows", "cancelled", "error"} : Reply(i, e)
  \/ \E i \in Slots : GiveUp(i)
  \/ \E i \in Slots : CancelConfirmed(i)
  \/ \E i \in Slots : Released(i)
  \/ \E i \in Slots : ResetFails(i)
  \/ \E i \in Slots : PathDies(i)
  \/ \E i \in Slots : KeepaliveFails(i)
  \/ Close
  \/ Drained
  \/ Terminate
  \/ Tick

(* The loop, the server, the kernel and the clock each do what is theirs;  *)
(* nobody has to send a request, nor to break a path or stop the service.  *)
Fairness ==
  /\ \A c \in Clients, i \in Slots : WF_vars(Acquire(c, i))
  /\ \A c \in Clients : WF_vars(AcquireRefused(c))
  /\ \A i \in Slots :
       /\ WF_vars(\E e \in {"rows", "cancelled", "error"} : Reply(i, e))
       /\ WF_vars(GiveUp(i) \/ CancelConfirmed(i))
       /\ WF_vars(Released(i) \/ ResetFails(i) \/ KeepaliveFails(i))
  /\ WF_vars(Drained \/ Terminate)
  /\ WF_vars(Tick)

Spec == Init /\ [][Next]_vars /\ Fairness

------------------------------------------------------------------------------
(* Properties *)

(* Every variable holds values of its type; a connection is held by one    *)
(* client, who has a command to run and holds no other; a client knows how *)
(* its command ended only while its connection is being given back.        *)
TypeOK ==
  /\ pool \in {"starting", "open", "closing", "closed"}
  /\ closing \in 0..CloseTimeout
  /\ conn \in [Slots -> [state : {"closed", "idle", "query", "cancelling", "reset"},
                         by : Clients \cup {None}, age : 0..CommandTimeout,
                         cut : 0..(Keepalive + 1), session : Settings]]
  /\ todo \in [Clients -> Commands \cup {None}]
  /\ ended \in [Clients -> Endings \cup {None}]
  /\ result \in [Clients -> Results \cup {None}]
  /\ \A i \in Slots : Held(i) <=> conn[i].by # None
  /\ \A i \in Slots : Held(i) =>
       /\ todo[conn[i].by] # None
       /\ conn[i].state = "query" <=> ended[conn[i].by] = None
       /\ \A j \in Slots : conn[j].by = conn[i].by => j = i

Budget(cmd) == IF cmd = "execute" THEN HatchTimeout ELSE StatementTimeout

(* Each command runs read-only and, while its answer can still come, never *)
(* longer than its budget, however often the connection was released and   *)
(* by whom: the settings survive RESET ALL, and the hatch's own timeout    *)
(* does not outlive its transaction (module docstring of pool.py).         *)
EveryCommandBounded ==
  \A i \in Slots : conn[i].state = "query" =>
    /\ conn[i].session.readOnly
    /\ Up(i) => conn[i].age <= Budget(todo[conn[i].by])

(* The client gives up on a command only when its reply is lost, never on  *)
(* one that is merely slow: the server's own bound comes first. So it is   *)
(* only while the hatch's budget is within the pool's.                     *)
ServerBoundFirst ==
  [][HatchTimeout <= StatementTimeout =>
       \A i \in Slots :
         conn[i].state = "query" /\ conn'[i].state = "cancelling" => ~Up(i)]_vars

(* close() gives up on the drain only for connections whose path is dead:  *)
(* a command in flight at shutdown has the time to end and be released.    *)
(* So it is only while the cap on the window leaves it wider than every    *)
(* command's budget.                                                       *)
DrainSuffices ==
  [][HatchTimeout <= StatementTimeout /\ StatementTimeout < MaxCloseTimeout =>
       (pool # "closed" /\ pool' = "closed" =>
         \A i \in Slots : Held(i) => ~Up(i))]_vars

(* Every request ends, and so does the preflight, although paths die with  *)
(* a reply, the confirmation of a cancellation or a RESET outstanding: no  *)
(* caller waits for ever, neither for the partner nor for a slot that such *)
(* a connection keeps from it.                                             *)
EveryRequestEnds == \A c \in Clients : todo[c] # None ~> result[c] # None

(* close() always returns, also where a connection is stuck, and a startup *)
(* that the preflight refuses does not leave the pool open.                *)
CloseReturns ==
  (pool = "closing" \/ result[Preflight] \notin {None, "answered"})
    ~> pool = "closed"

(* The comment on command_timeout: the callers that already handle         *)
(* QueryCanceledError degrade identically on its TimeoutError, while the   *)
(* service runs.                                                           *)
TimeoutDegrades ==
  [][\A c \in Clients :
       pool = "open" /\ ended[c] = "timeout" /\ result[c] = None /\ result'[c] # None
         => result'[c] = Handled(todo[c], "cancelled")]_vars
==============================================================================
