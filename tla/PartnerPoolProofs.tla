-------------------------- MODULE PartnerPoolProofs --------------------------
(***************************************************************************)
(* The safety of PartnerPool for any number of callers and connections and *)
(* any timeouts: an inductive invariant, and what follows from it.         *)
(*                                                                         *)
(* EveryCommandBounded is not inductive, since nothing in it says what the *)
(* settings of an idle connection are, nor that the server's clock runs on *)
(* the caller's budget: Sessions does. DrainSuffices speaks of the step    *)
(* that ends the drain: Draining says how far the drain can be while a     *)
(* connection that works is still held.                                    *)
(***************************************************************************)
EXTENDS PartnerPool, TLAPS

ConnType ==
  [state : {"closed", "idle", "query", "cancelling", "reset"},
   by : Clients \cup {None}, age : 0..CommandTimeout,
   cut : 0..(Keepalive + 1), session : Settings]

(* The preflight runs before the service serves. *)
Booting == todo[Preflight] # None => pool = "starting"

ClosingClock == pool # "closing" => closing = 0

(* A command runs under the timeout it was sent with; a connection nobody  *)
(* holds has the settings of the startup packet.                           *)
Sessions ==
  \A i \in Slots :
    /\ conn[i].state = "query" =>
         conn[i].session.timeout = Budget(todo[conn[i].by])
    /\ conn[i].state \in {"closed", "idle"} => conn[i].session = Startup

(* During the drain, a held connection whose path is up runs a command     *)
(* that was sent before, or is being released in the tick that ended it.   *)
Draining ==
  HatchTimeout <= StatementTimeout /\ StatementTimeout < MaxCloseTimeout =>
    (pool = "closing" =>
      \A i \in Slots : Held(i) /\ Up(i) =>
        /\ closing <= StatementTimeout
        /\ conn[i].state = "query" => closing <= conn[i].age)

(* A client knows how its command ended only while it holds a connection. *)
Knowing ==
  \A c \in Clients : ended[c] # None => \E i \in Slots : conn[i].by = c

IInv ==
  /\ TypeOK /\ Booting /\ ClosingClock /\ Knowing
  /\ Sessions /\ EveryCommandBounded /\ Draining

------------------------------------------------------------------------------
(* What the constants imply: the client's clock is slower than the server's*)
(* and, below the cap, the window of the drain is wider than it.           *)
LEMMA Timeouts ==
  /\ StatementTimeout \in Nat /\ HatchTimeout \in Nat
  /\ CommandTimeout \in Nat /\ StatementTimeout < CommandTimeout
  /\ CloseTimeout \in Nat /\ Keepalive \in Nat
  /\ StatementTimeout < MaxCloseTimeout => StatementTimeout < CloseTimeout
  /\ Startup \in Settings
  /\ \A cmd \in Commands : Budget(cmd) \in Nat \ {0}
BY PoolAssumption
   DEF CommandTimeout, CloseTimeout, Min, Startup, Settings, Budget

(* What a caller may do next is a command, or nothing. *)
LEMMA AfterType == \A cmd \in Commands : After[cmd] \subseteq Commands \cup {None}
BY DEF After, Commands

LEMMA HandledType == \A cmd, e : Handled(cmd, e) \in Results
BY DEF Handled, Results

(* A client that ends changes what it alone has, and opens or closes the   *)
(* pool only if it is the preflight.                                       *)
LEMMA FinishEffect ==
  ASSUME TypeOK, Booting, NEW c \in Clients, todo[c] # None,
         NEW r \in Results, Finish(c, r)
  PROVE  /\ closing' = closing
         /\ todo' = [todo EXCEPT ![c] = None]
         /\ ended' = [ended EXCEPT ![c] = None]
         /\ result' \in [Clients -> Results \cup {None}]
         /\ pool' # pool => pool = "starting" /\ pool' \in {"open", "closing"}
         /\ Booting'
<1>1. Preflight \in Clients
  BY DEF Clients
<1>2. /\ closing' = closing
      /\ todo' = [todo EXCEPT ![c] = None]
      /\ ended' = [ended EXCEPT ![c] = None]
      /\ result' = [result EXCEPT ![c] = r]
      /\ pool' = IF c # Preflight THEN pool
                 ELSE IF r = "answered" THEN "open" ELSE "closing"
  BY DEF Finish, Served
<1>3. result' \in [Clients -> Results \cup {None}]
  BY <1>2 DEF TypeOK
<1>4. pool' # pool => pool = "starting" /\ pool' \in {"open", "closing"}
  BY <1>2 DEF Booting
<1>5. Booting'
  <2>1. CASE c = Preflight
    BY <2>1, <1>1, <1>2 DEF TypeOK, Booting
  <2>2. CASE c # Preflight
    BY <2>2, <1>1, <1>2 DEF TypeOK, Booting
  <2> QED BY <2>1, <2>2
<1> QED BY <1>2, <1>3, <1>4, <1>5

(* So does a client that goes on after a command. *)
LEMMA ProceedEffect ==
  ASSUME TypeOK, Booting, NEW c \in Clients, todo[c] # None,
         NEW e \in Endings, Proceed(c, e)
  PROVE  /\ closing' = closing
         /\ todo' \in [Clients -> Commands \cup {None}]
         /\ \A d \in Clients \ {c} : todo'[d] = todo[d]
         /\ ended' = [ended EXCEPT ![c] = None]
         /\ result' \in [Clients -> Results \cup {None}]
         /\ pool' # pool => pool = "starting" /\ pool' \in {"open", "closing"}
         /\ Booting'
<1>1. todo[c] \in Commands /\ Preflight \in Clients
  BY DEF TypeOK, Clients
<1>2. CASE e = "rows" /\ \E next \in After[todo[c]] \ {None} :
                            todo' = [todo EXCEPT ![c] = next]
              /\ ended' = [ended EXCEPT ![c] = None]
              /\ UNCHANGED <<pool, closing, result>>
  <2>1. PICK next \in After[todo[c]] \ {None} :
          todo' = [todo EXCEPT ![c] = next]
    BY <1>2
  <2>2. next \in Commands
    BY <2>1, <1>1, AfterType
  <2>3. todo' \in [Clients -> Commands \cup {None}]
          /\ \A d \in Clients \ {c} : todo'[d] = todo[d]
    BY <2>1, <2>2 DEF TypeOK
  <2>4. Booting'
    BY <1>1, <1>2, <2>1, <2>3 DEF Booting
  <2> QED BY <1>2, <2>3, <2>4 DEF TypeOK
<1>3. ASSUME NEW r \in Results, Finish(c, r)
      PROVE  /\ closing' = closing
             /\ todo' \in [Clients -> Commands \cup {None}]
             /\ \A d \in Clients \ {c} : todo'[d] = todo[d]
             /\ ended' = [ended EXCEPT ![c] = None]
             /\ result' \in [Clients -> Results \cup {None}]
             /\ pool' # pool =>
                  pool = "starting" /\ pool' \in {"open", "closing"}
             /\ Booting'
  <2>1. todo' = [todo EXCEPT ![c] = None]
    BY <1>3, FinishEffect
  <2>2. todo' \in [Clients -> Commands \cup {None}]
          /\ \A d \in Clients \ {c} : todo'[d] = todo[d]
    BY <2>1 DEF TypeOK
  <2> QED BY <1>3, <2>2, FinishEffect
<1>4. "answered" \in Results /\ "refused" \in Results
  BY DEF Results
<1>5. CASE \E r \in Results : Finish(c, r)
  BY <1>3, <1>5
<1> QED BY <1>2, <1>4, <1>5, HandledType DEF Proceed

------------------------------------------------------------------------------
(* A client is done with the connection of slot i, which becomes k, free.  *)
LEMMA ReleaseStep ==
  ASSUME IInv, NEW i \in Slots, Held(i), NEW e \in Endings,
         NEW k \in ConnType, k.state \in {"closed", "idle"},
         k.by = None, k.session = Startup,
         conn' = [conn EXCEPT ![i] = k], Proceed(conn[i].by, e)
  PROVE  IInv'
<1> DEFINE c == conn[i].by
<1>1. /\ TypeOK /\ Booting /\ ClosingClock /\ Knowing
      /\ Sessions /\ EveryCommandBounded /\ Draining
  BY DEF IInv
<1>2. /\ c \in Clients /\ todo[c] # None
      /\ conn \in [Slots -> ConnType]
      /\ \A j \in Slots : conn[j].by = c => j = i
  BY <1>1, NoneAssumption DEF TypeOK, ConnType
<1>3. /\ closing' = closing
      /\ todo' \in [Clients -> Commands \cup {None}]
      /\ \A d \in Clients \ {c} : todo'[d] = todo[d]
      /\ ended' = [ended EXCEPT ![c] = None]
      /\ result' \in [Clients -> Results \cup {None}]
      /\ pool' # pool => pool = "starting" /\ pool' \in {"open", "closing"}
      /\ Booting'
  BY <1>1, <1>2, ProceedEffect
<1>4. /\ conn'[i] = k /\ ~Held(i)'
      /\ \A j \in Slots \ {i} : conn'[j] = conn[j]
      /\ conn' \in [Slots -> ConnType]
  BY <1>2 DEF Held
<1>5. \A j \in Slots \ {i} : Held(j) =>
        /\ conn[j].by \in Clients \ {c}
        /\ todo'[conn[j].by] = todo[conn[j].by]
        /\ ended'[conn[j].by] = ended[conn[j].by]
  BY <1>1, <1>2, <1>3, NoneAssumption DEF TypeOK, ConnType
<1>6. TypeOK'
  <2>1. /\ pool' \in {"starting", "open", "closing", "closed"}
        /\ closing' \in 0..CloseTimeout
        /\ ended' \in [Clients -> Endings \cup {None}]
    BY <1>1, <1>3 DEF TypeOK
  <2>2. \A j \in Slots : Held(j)' <=> conn'[j].by # None
    BY <1>1, <1>4 DEF TypeOK, Held
  <2>3. ASSUME NEW j \in Slots, Held(j)'
        PROVE  /\ todo'[conn'[j].by] # None
               /\ conn'[j].state = "query" <=> ended'[conn'[j].by] = None
               /\ \A l \in Slots : conn'[l].by = conn'[j].by => l = j
    <3>1. j # i /\ conn'[j] = conn[j] /\ Held(j)
      BY <2>3, <1>4 DEF Held
    <3> QED BY <3>1, <1>1, <1>4, <1>5, NoneAssumption DEF TypeOK
  <2> QED BY <1>3, <1>4, <2>1, <2>2, <2>3 DEF TypeOK, ConnType
<1>7. ClosingClock' /\ Knowing'
  <2>1. ASSUME NEW d \in Clients, ended'[d] # None
        PROVE  \E j \in Slots : conn'[j].by = d
    <3>1. d # c /\ ended[d] # None
      BY <2>1, <1>1, <1>2, <1>3 DEF TypeOK
    <3>2. PICK j \in Slots : conn[j].by = d
      BY <3>1, <1>1 DEF Knowing
    <3> QED BY <3>1, <3>2, <1>4
  <2> QED BY <2>1, <1>1, <1>3 DEF ClosingClock, Knowing
<1>8. Sessions'
  BY <1>1, <1>4, <1>5 DEF Sessions, Held, Budget
<1>9. EveryCommandBounded'
  BY <1>1, <1>4, <1>5 DEF EveryCommandBounded, Held, Up, Budget
<1>10. Draining'
  <2> SUFFICES ASSUME HatchTimeout <= StatementTimeout,
                      StatementTimeout < MaxCloseTimeout,
                      pool' = "closing", NEW j \in Slots, Held(j)', Up(j)'
               PROVE  /\ closing' <= StatementTimeout
                      /\ conn'[j].state = "query" => closing' <= conn'[j].age
    BY DEF Draining
  <2>1. conn'[j] = conn[j] /\ Held(j) /\ Up(j)
    BY <1>4 DEF Held, Up
  <2>2. CASE pool = "closing"
    BY <2>1, <2>2, <1>1, <1>3 DEF Draining
  <2>3. CASE pool # "closing"
    <3>1. closing' = 0
      BY <2>3, <1>1, <1>3 DEF ClosingClock
    <3> QED BY <3>1, <2>1, <1>2, Timeouts DEF ConnType
  <2> QED BY <2>2, <2>3
<1> QED BY <1>3, <1>6, <1>7, <1>8, <1>9, <1>10 DEF IInv

(* A client that waits for a connection ends without one. *)
LEMMA WithoutConnection ==
  ASSUME IInv, NEW c \in Clients, Wants(c), NEW r \in Results,
         Finish(c, r), UNCHANGED conn
  PROVE  IInv'
<1>1. /\ TypeOK /\ Booting /\ ClosingClock /\ Knowing
      /\ Sessions /\ EveryCommandBounded /\ Draining
  BY DEF IInv
<1>2. /\ closing' = closing
      /\ todo' = [todo EXCEPT ![c] = None]
      /\ ended' = [ended EXCEPT ![c] = None]
      /\ result' \in [Clients -> Results \cup {None}]
      /\ pool' # pool => pool = "starting" /\ pool' \in {"open", "closing"}
      /\ Booting'
  BY <1>1, FinishEffect DEF Wants
<1>3. \A j \in Slots : Held(j) =>
        /\ conn[j].by \in Clients \ {c}
        /\ todo'[conn[j].by] = todo[conn[j].by]
        /\ ended'[conn[j].by] = ended[conn[j].by]
  BY <1>1, <1>2 DEF TypeOK, Wants
<1>4. TypeOK'
  <2>1. /\ pool' \in {"starting", "open", "closing", "closed"}
        /\ closing' \in 0..CloseTimeout
        /\ todo' \in [Clients -> Commands \cup {None}]
        /\ ended' \in [Clients -> Endings \cup {None}]
    BY <1>1, <1>2 DEF TypeOK
  <2> QED BY <2>1, <1>1, <1>2, <1>3 DEF TypeOK, Held
<1>5. ClosingClock' /\ Knowing'
  BY <1>1, <1>2 DEF ClosingClock, Knowing, TypeOK
<1>6. Sessions'
  BY <1>1, <1>3 DEF Sessions, Held, Budget
<1>7. EveryCommandBounded'
  BY <1>1, <1>3 DEF EveryCommandBounded, Held, Up, Budget
<1>8. Draining'
  <2>1. CASE pool = "closing"
    BY <2>1, <1>1, <1>2 DEF Draining, Held, Up
  <2>2. CASE pool # "closing"
    <3>1. closing' = 0 /\ \A j \in Slots : conn[j].age \in Nat
      BY <2>2, <1>1, <1>2, Timeouts DEF ClosingClock, TypeOK
    <3> QED BY <3>1, Timeouts DEF Draining
  <2> QED BY <2>1, <2>2
<1> QED BY <1>2, <1>4, <1>5, <1>6, <1>7, <1>8 DEF IInv

(* A held connection changes, its holder and the rest of the pool do not.  *)
LEMMA HeldStep ==
  ASSUME IInv, NEW i \in Slots, Held(i),
         NEW k \in ConnType, k.by = conn[i].by, k.cut = 0 => Up(i),
         k.state \in {"query", "cancelling", "reset"},
         k.state = "query" => /\ conn[i].state = "query"
                              /\ k.age = conn[i].age
                              /\ k.session = conn[i].session,
         conn' = [conn EXCEPT ![i] = k],
         ended' \in [Clients -> Endings \cup {None}],
         \A d \in Clients \ {conn[i].by} : ended'[d] = ended[d],
         k.state = "query" <=> ended'[conn[i].by] = None,
         UNCHANGED <<pool, closing, todo, result>>
  PROVE  IInv'
<1>1. /\ TypeOK /\ Booting /\ ClosingClock /\ Knowing
      /\ Sessions /\ EveryCommandBounded /\ Draining
  BY DEF IInv
<1>2. /\ conn \in [Slots -> ConnType] /\ conn' \in [Slots -> ConnType]
      /\ conn'[i] = k /\ Held(i)'
      /\ \A j \in Slots \ {i} : conn'[j] = conn[j]
      /\ \A j \in Slots : conn'[j].by = conn[j].by
  BY <1>1 DEF TypeOK, ConnType, Held
<1>3. \A j \in Slots : Held(j)' <=> Held(j)
  BY <1>2 DEF Held
<1>4. \A j \in Slots \ {i} : Held(j) =>
        conn[j].by # conn[i].by /\ conn[j].by \in Clients
  BY <1>1 DEF TypeOK
<1>5. TypeOK'
  <2>1. ASSUME NEW j \in Slots, Held(j)'
        PROVE  /\ todo'[conn'[j].by] # None
               /\ conn'[j].state = "query" <=> ended'[conn'[j].by] = None
               /\ \A l \in Slots : conn'[l].by = conn'[j].by => l = j
    <3>1. /\ todo'[conn'[j].by] # None
          /\ \A l \in Slots : conn'[l].by = conn'[j].by => l = j
      BY <2>1, <1>1, <1>2, <1>3 DEF TypeOK
    <3>2. CASE j = i
      BY <3>1, <3>2, <1>2
    <3>3. CASE j # i
      BY <3>1, <3>3, <2>1, <1>1, <1>2, <1>3, <1>4 DEF TypeOK
    <3> QED BY <3>2, <3>3
  <2>2. \A j \in Slots : Held(j)' <=> conn'[j].by # None
    BY <1>1, <1>2, <1>3 DEF TypeOK
  <2> QED BY <2>1, <2>2, <1>1, <1>2 DEF TypeOK, ConnType
<1>6. Booting' /\ ClosingClock' /\ Knowing'
  BY <1>1, <1>2 DEF Booting, ClosingClock, Knowing
<1>7. Sessions'
  BY <1>1, <1>2 DEF Sessions, Budget
<1>8. EveryCommandBounded'
  BY <1>1, <1>2 DEF EveryCommandBounded, Up, Budget
<1>9. Draining'
  BY <1>1, <1>2, <1>3 DEF Draining, Up
<1> QED BY <1>5, <1>6, <1>7, <1>8, <1>9 DEF IInv

(* A connection that nobody holds is dropped, or loses its path unnoticed. *)
LEMMA UnheldStep ==
  ASSUME IInv, NEW i \in Slots, ~Held(i),
         NEW k \in ConnType, k.state \in {"closed", "idle"},
         k.by = None, k.session = Startup,
         conn' = [conn EXCEPT ![i] = k],
         UNCHANGED <<pool, closing, todo, ended, result>>
  PROVE  IInv'
<1>1. /\ TypeOK /\ Booting /\ ClosingClock /\ Knowing
      /\ Sessions /\ EveryCommandBounded /\ Draining
  BY DEF IInv
<1>2. /\ conn \in [Slots -> ConnType] /\ conn' \in [Slots -> ConnType]
      /\ conn'[i] = k /\ ~Held(i)' /\ conn[i].by = None
      /\ \A j \in Slots \ {i} : conn'[j] = conn[j]
      /\ \A j \in Slots : conn'[j].by = conn[j].by
  BY <1>1 DEF TypeOK, ConnType, Held
<1>3. \A j \in Slots : Held(j)' <=> Held(j)
  BY <1>2 DEF Held
<1>4. TypeOK'
  BY <1>1, <1>2, <1>3 DEF TypeOK, ConnType
<1>5. Booting' /\ ClosingClock' /\ Knowing'
  BY <1>1, <1>2 DEF Booting, ClosingClock, Knowing
<1>6. Sessions' /\ EveryCommandBounded'
  BY <1>1, <1>2 DEF Sessions, EveryCommandBounded, Up, Budget
<1>7. Draining'
  BY <1>1, <1>2, <1>3 DEF Draining, Up
<1> QED BY <1>4, <1>5, <1>6, <1>7 DEF IInv

------------------------------------------------------------------------------
(* One lemma per action that the lemmas above do not settle.               *)

LEMMA RequestStep ==
  ASSUME IInv, NEW c \in Callers, Request(c)
  PROVE  IInv'
<1>1. /\ TypeOK /\ Booting /\ ClosingClock /\ Knowing
      /\ Sessions /\ EveryCommandBounded /\ Draining
  BY DEF IInv
<1>2. PICK cmd \in Requests : todo' = [todo EXCEPT ![c] = cmd]
  BY DEF Request
<1>3. cmd \in Commands /\ c \in Clients /\ c # Preflight
  BY PoolAssumption DEF Requests, Commands, After, Clients
<1>4. todo' \in [Clients -> Commands \cup {None}]
  BY <1>1, <1>2, <1>3 DEF TypeOK
<1>5. todo[c] = None /\ UNCHANGED <<pool, closing, conn, ended, result>>
  BY DEF Request
<1>6. \A j \in Slots : Held(j) => todo'[conn[j].by] = todo[conn[j].by]
  BY <1>1, <1>2, <1>3, <1>5 DEF TypeOK
<1>7. TypeOK'
  BY <1>1, <1>4, <1>5, <1>6 DEF TypeOK, Held
<1>8. Booting' /\ ClosingClock' /\ Knowing'
  <2>1. Preflight \in Clients
    BY DEF Clients
  <2> QED BY <2>1, <1>1, <1>2, <1>3, <1>5
           DEF TypeOK, Booting, ClosingClock, Knowing
<1>9. Sessions' /\ EveryCommandBounded'
  BY <1>1, <1>5, <1>6 DEF Sessions, EveryCommandBounded, Held, Up, Budget
<1>10. Draining'
  BY <1>1, <1>5 DEF Draining, Held, Up
<1> QED BY <1>7, <1>8, <1>9, <1>10 DEF IInv

LEMMA AcquireStep ==
  ASSUME IInv, NEW c \in Clients, NEW i \in Slots, Acquire(c, i)
  PROVE  IInv'
<1>1. /\ TypeOK /\ Booting /\ ClosingClock /\ Knowing
      /\ Sessions /\ EveryCommandBounded /\ Draining
  BY DEF IInv
<1>2. /\ todo[c] # None /\ \A j \in Slots : conn[j].by # c
      /\ ~Held(i) /\ pool \in {"starting", "open"}
      /\ UNCHANGED <<pool, closing, todo, ended, result>>
  BY DEF Acquire, Wants
<1>3. conn \in [Slots -> ConnType] /\ todo[c] \in Commands
  BY <1>1, <1>2 DEF TypeOK, ConnType
<1>4. conn[i].state \in {"closed", "idle"} /\ conn[i].session = Startup
  BY <1>1, <1>2, <1>3 DEF Held, Sessions, ConnType
<1> DEFINE session == SessionFor(todo[c], Startup)
<1>5. /\ session \in Settings /\ session.readOnly
      /\ session.timeout = Budget(todo[c])
  BY Timeouts DEF SessionFor, Settings, Startup, Budget
<1> HIDE DEF session
<1>6. /\ conn' \in [Slots -> ConnType]
      /\ \A j \in Slots \ {i} : conn'[j] = conn[j]
      /\ conn'[i].state = "query" /\ conn'[i].by = c /\ conn'[i].age = 0
      /\ conn'[i].session = session
  <2> DEFINE k == [conn[i] EXCEPT !.state = "query", !.by = c,
                                  !.age = 0, !.session = session]
  <2>1. conn' = [conn EXCEPT ![i] = k]
    BY <1>3, <1>4 DEF Acquire, ConnType, session
  <2>2. conn[i] \in ConnType /\ 0 \in 0..CommandTimeout /\ c \in Clients \cup {None}
    BY <1>3, Timeouts
  <2>3. k.state = "query" /\ k.by = c /\ k.age = 0 /\ k.session = session
    BY <2>2 DEF ConnType
  <2>4. k \in ConnType
    BY <2>2, <1>5 DEF ConnType
  <2> HIDE DEF k
  <2> QED BY <2>1, <2>3, <2>4, <1>3
<1>7. \A j \in Slots : Held(j)' <=> Held(j) \/ j = i
  BY <1>6 DEF Held
<1>8. ended[c] = None
  BY <1>1, <1>2 DEF Knowing
<1>9. TypeOK'
  BY <1>1, <1>2, <1>6, <1>7, <1>8, NoneAssumption DEF TypeOK, ConnType
<1>10. Booting' /\ ClosingClock' /\ Knowing'
  <2>1. ASSUME NEW d \in Clients, ended'[d] # None
        PROVE  \E j \in Slots : conn'[j].by = d
    <3>1. PICK j \in Slots : conn[j].by = d
      BY <2>1, <1>1, <1>2 DEF Knowing
    <3>2. j # i
      BY <3>1, <1>1, <1>2, NoneAssumption DEF TypeOK
    <3> QED BY <3>1, <3>2, <1>6
  <2> QED BY <2>1, <1>1, <1>2 DEF Booting, ClosingClock, Knowing
<1>11. Sessions'
  BY <1>1, <1>2, <1>5, <1>6 DEF Sessions, Budget
<1>12. EveryCommandBounded'
  BY <1>1, <1>2, <1>5, <1>6, Timeouts DEF EveryCommandBounded, Up, Budget
<1>13. Draining'
  BY <1>2 DEF Draining
<1> QED BY <1>9, <1>10, <1>11, <1>12, <1>13 DEF IInv

(* A query ends, by a reply or by command_timeout, or its cancellation is  *)
(* confirmed: the connection waits for what is next, its caller still      *)
(* holding it.                                                             *)
LEMMA PutStep ==
  ASSUME IInv, NEW i \in Slots, NEW s \in {"cancelling", "reset"}, Held(i),
         conn' = Put(i, s),
         \/ \E e \in Endings : ended' = [ended EXCEPT ![conn[i].by] = e]
         \/ conn[i].state # "query" /\ ended' = ended,
         UNCHANGED <<pool, closing, todo, result>>
  PROVE  IInv'
<1> DEFINE k == [conn[i] EXCEPT !.state = s, !.age = 0]
           c == conn[i].by
<1>1. /\ conn \in [Slots -> ConnType] /\ c \in Clients
      /\ ended \in [Clients -> Endings \cup {None}]
      /\ conn[i].state = "query" <=> ended[c] = None
  BY NoneAssumption DEF IInv, TypeOK, ConnType
<1>2. conn[i] \in ConnType /\ 0 \in 0..CommandTimeout
  BY <1>1, Timeouts
<1>3. k \in ConnType
  BY <1>2 DEF ConnType
<1>4. k.state = s /\ k.by = c /\ k.cut = conn[i].cut
  BY <1>2 DEF ConnType
<1>5. conn' = [conn EXCEPT ![i] = k]
  BY <1>1, <1>2 DEF Put, ConnType
<1>6. /\ ended' \in [Clients -> Endings \cup {None}]
      /\ \A d \in Clients \ {c} : ended'[d] = ended[d]
      /\ ended'[c] # None
  BY <1>1, NoneAssumption
<1>7. k.cut = 0 => Up(i)
  BY <1>4 DEF Up
<1> HIDE DEF k
<1> QED BY <1>3, <1>4, <1>5, <1>6, <1>7, HeldStep

LEMMA PathDiesStep ==
  ASSUME IInv, NEW i \in Slots, PathDies(i)
  PROVE  IInv'
<1> DEFINE k == [conn[i] EXCEPT !.cut = 1]
<1>1. /\ TypeOK /\ Sessions
  BY DEF IInv
<1>2. conn \in [Slots -> ConnType] /\ 1 \in 0..(Keepalive + 1)
  BY <1>1, PoolAssumption DEF TypeOK, ConnType
<1>3. conn[i] \in ConnType
  BY <1>2
<1>4. k \in ConnType
  BY <1>2, <1>3 DEF ConnType
<1>5. /\ k.state = conn[i].state /\ k.by = conn[i].by /\ k.cut = 1
      /\ k.age = conn[i].age /\ k.session = conn[i].session
  BY <1>3 DEF ConnType
<1>6. /\ conn' = [conn EXCEPT ![i] = k]
      /\ UNCHANGED <<pool, closing, todo, ended, result>>
  BY <1>2, <1>3 DEF PathDies, ConnType
<1> HIDE DEF k
<1>7. CASE Held(i)
  <2>1. k.state = "query" <=> ended'[conn[i].by] = None
    BY <1>1, <1>5, <1>6, <1>7 DEF TypeOK
  <2>2. k.state \in {"query", "cancelling", "reset"}
    BY <1>5, <1>7 DEF Held
  <2>3. ended' \in [Clients -> Endings \cup {None}]
    BY <1>1, <1>6 DEF TypeOK
  <2>4. k.cut = 0 => Up(i)
    BY <1>5
  <2> QED BY <1>4, <1>5, <1>6, <1>7, <2>1, <2>2, <2>3, <2>4, HeldStep
<1>8. CASE ~Held(i)
  <2>1. conn[i].state \in {"closed", "idle"}
    BY <1>3, <1>8 DEF Held, ConnType
  <2>2. k.state \in {"closed", "idle"} /\ k.by = None /\ k.session = Startup
    BY <2>1, <1>1, <1>5, <1>8 DEF TypeOK, Sessions
  <2> QED BY <1>4, <1>6, <1>8, <2>2, UnheldStep
<1> QED BY <1>7, <1>8

LEMMA ClosedType ==
  /\ Closed \in ConnType
  /\ Closed.state = "closed" /\ Closed.by = None /\ Closed.session = Startup
BY Timeouts, PoolAssumption DEF Closed, ConnType

LEMMA ReleasedStep ==
  ASSUME IInv, NEW i \in Slots, Released(i)
  PROVE  IInv'
<1> DEFINE k == [conn[i] EXCEPT !.state = "idle", !.by = None,
                                !.age = 0, !.session = AfterReset]
<1>1. conn \in [Slots -> ConnType] /\ 0 \in 0..CommandTimeout
  BY Timeouts DEF IInv, TypeOK, ConnType
<1>2. conn[i] \in ConnType /\ AfterReset = Startup /\ Startup \in Settings
  BY <1>1, Timeouts DEF AfterReset
<1>3. k.state = "idle" /\ k.by = None /\ k.session = Startup
  BY <1>2 DEF ConnType
<1>4. k \in ConnType
  BY <1>1, <1>2 DEF ConnType
<1>5. conn' = [conn EXCEPT ![i] = k]
  BY DEF Released
<1>6. Held(i) /\ ended[conn[i].by] \in Endings
  BY NoneAssumption DEF Released, Held, IInv, TypeOK
<1>7. Proceed(conn[i].by, ended[conn[i].by])
  BY DEF Released
<1> HIDE DEF k
<1> QED BY <1>3, <1>4, <1>5, <1>6, <1>7, ReleaseStep

LEMMA DroppedStep ==
  ASSUME IInv, NEW i \in Slots, ResetFails(i) \/ KeepaliveFails(i)
  PROVE  IInv'
<1>1. conn' = [conn EXCEPT ![i] = Closed]
  BY DEF ResetFails, KeepaliveFails
<1>2. \/ Held(i) /\ \E e \in Endings : Proceed(conn[i].by, e)
      \/ ~Held(i) /\ UNCHANGED <<pool, closing, todo, ended, result>>
  BY DEF ResetFails, KeepaliveFails, Held, Endings
<1> HIDE DEF Closed
<1> QED BY <1>1, <1>2, ClosedType, ReleaseStep, UnheldStep

LEMMA CloseStep ==
  ASSUME IInv, Close
  PROVE  IInv'
<1>1. /\ TypeOK /\ Booting /\ ClosingClock /\ Knowing
      /\ Sessions /\ EveryCommandBounded /\ Draining
  BY DEF IInv
<1>2. /\ pool = "open" /\ pool' = "closing"
      /\ UNCHANGED <<closing, conn, todo, ended, result>>
  BY DEF Close
<1>3. TypeOK' /\ Booting' /\ ClosingClock' /\ Knowing'
  BY <1>1, <1>2 DEF TypeOK, Held, Booting, ClosingClock, Knowing
<1>4. Sessions' /\ EveryCommandBounded'
  BY <1>1, <1>2 DEF Sessions, EveryCommandBounded, Up, Budget
<1>5. Draining'
  <2>1. closing' = 0 /\ \A i \in Slots : conn'[i].age \in Nat
    BY <1>1, <1>2, Timeouts DEF ClosingClock, TypeOK
  <2> QED BY <2>1, Timeouts DEF Draining
<1> QED BY <1>3, <1>4, <1>5 DEF IInv

(* At the end of the drain every connection is closed, and a client that   *)
(* is cut off has nothing more to do.                                      *)
LEMMA ClosedStep ==
  ASSUME IInv, Drained \/ Terminate
  PROVE  IInv'
<1> DEFINE cut == {conn[i].by : i \in {j \in Slots : Held(j)}}
<1>1. /\ TypeOK /\ Booting /\ Knowing
  BY DEF IInv
<1>2. /\ pool = "closing" /\ pool' = "closed" /\ closing' = 0
      /\ conn' = [i \in Slots |-> Closed]
  BY DEF Drained, Terminate
<1>3. /\ todo' = [c \in Clients |-> IF c \in cut THEN None ELSE todo[c]]
      /\ ended' = [c \in Clients |-> IF c \in cut THEN None ELSE ended[c]]
      /\ result' \in [Clients -> Results \cup {None}]
  <2>1. CASE Drained
    <3>1. cut = {}
      BY <2>1 DEF Drained
    <3>2. UNCHANGED <<todo, ended, result>>
      BY <2>1 DEF Drained
    <3> HIDE DEF cut
    <3> QED BY <3>1, <3>2, <1>1 DEF TypeOK
  <2>2. CASE Terminate
    <3> DEFINE handled(c) ==
          Handled(todo[c], IF ended[c] = "timeout" THEN "timeout" ELSE "lost")
    <3>1. \A c \in Clients : handled(c) \in Results
      BY HandledType
    <3>2. /\ todo' = [c \in Clients |-> IF c \in cut THEN None ELSE todo[c]]
          /\ ended' = [c \in Clients |-> IF c \in cut THEN None ELSE ended[c]]
          /\ result' = [c \in Clients |-> IF c \notin cut THEN result[c]
                                          ELSE handled(c)]
      BY <2>2 DEF Terminate
    <3> HIDE DEF cut, handled
    <3>3. result' \in [Clients -> Results \cup {None}]
      BY <3>1, <3>2, <1>1 DEF TypeOK
    <3> QED BY <3>2, <3>3
  <2> QED BY <2>1, <2>2
<1>4. \A c \in Clients : c \notin cut => ended[c] = None
  BY <1>1, NoneAssumption DEF Knowing, TypeOK
<1> HIDE DEF cut
<1>5. conn' \in [Slots -> ConnType] /\ \A i \in Slots : ~Held(i)' /\ conn'[i] = Closed
  BY <1>2, ClosedType DEF Held
<1>6. TypeOK'
  <2>1. todo' \in [Clients -> Commands \cup {None}]
          /\ ended' \in [Clients -> Endings \cup {None}]
    BY <1>1, <1>3 DEF TypeOK
  <2>2. closing' \in 0..CloseTimeout
    BY <1>2, Timeouts
  <2> QED BY <1>2, <1>3, <1>5, <2>1, <2>2, ClosedType DEF TypeOK, ConnType
<1>7. Booting'
  <2>1. Preflight \in Clients
    BY DEF Clients
  <2> QED BY <2>1, <1>1, <1>2, <1>3 DEF Booting
<1>8. ClosingClock' /\ Draining'
  BY <1>2 DEF ClosingClock, Draining
<1>9. Knowing'
  BY <1>3, <1>4 DEF Knowing
<1>10. Sessions' /\ EveryCommandBounded'
  BY <1>5, ClosedType DEF Sessions, EveryCommandBounded
<1> QED BY <1>6, <1>7, <1>8, <1>9, <1>10 DEF IInv

(* Time passes only where nothing is due, so no bound is overrun.          *)
LEMMA TickStep ==
  ASSUME IInv, Tick
  PROVE  IInv'
<1>1. /\ TypeOK /\ Booting /\ ClosingClock /\ Knowing
      /\ Sessions /\ EveryCommandBounded /\ Draining
  BY DEF IInv
<1> DEFINE age(i) == IF conn[i].state \in {"query", "reset"}
                     THEN conn[i].age + 1 ELSE conn[i].age
           cut(i) == IF conn[i].cut = 0 THEN 0
                     ELSE Min(conn[i].cut + 1, Keepalive + 1)
           k(i) == [conn[i] EXCEPT !.age = age(i), !.cut = cut(i)]
<1>2. /\ conn \in [Slots -> ConnType]
      /\ \A i \in Slots : /\ conn[i] \in ConnType
                          /\ conn[i].age \in Nat /\ conn[i].cut \in Nat
                          /\ conn[i].age <= CommandTimeout
                          /\ conn[i].cut <= Keepalive + 1
                          /\ conn[i].session.timeout \in Nat
  BY <1>1, Timeouts DEF TypeOK, ConnType, Settings
<1>3. \A i \in Slots : ~Due(i)
  BY DEF Tick
<1>4. \A i \in Slots : conn[i].state \in {"query", "reset"} =>
                         conn[i].age < CommandTimeout
  BY <1>2, <1>3, Timeouts DEF Due
<1>5. \A i \in Slots : age(i) \in 0..CommandTimeout /\ cut(i) \in 0..(Keepalive + 1)
  BY <1>2, <1>4, Timeouts DEF Min
<1>6. \A i \in Slots : (cut(i) = 0) <=> Up(i)
  BY <1>2, Timeouts DEF Min, Up
<1>7. ASSUME NEW i \in Slots
      PROVE  /\ conn'[i].state = conn[i].state /\ conn'[i].by = conn[i].by
             /\ conn'[i].age = age(i) /\ conn'[i].cut = cut(i)
             /\ conn'[i].session = conn[i].session
             /\ conn'[i] \in ConnType
  <2>1. conn'[i] = k(i)
    BY DEF Tick
  <2> HIDE DEF age, cut
  <2>2. /\ k(i).state = conn[i].state /\ k(i).by = conn[i].by
        /\ k(i).age = age(i) /\ k(i).cut = cut(i)
        /\ k(i).session = conn[i].session
    BY <1>2 DEF ConnType
  <2>3. k(i) \in ConnType
    BY <1>2, <1>5 DEF ConnType
  <2> HIDE DEF k
  <2> QED BY <2>1, <2>2, <2>3
<1>8. conn' \in [Slots -> ConnType]
  <2>1. conn' = [i \in Slots |-> k(i)]
    BY DEF Tick
  <2> HIDE DEF k, age, cut
  <2> QED BY <2>1, <1>7
<1>9. /\ UNCHANGED <<pool, todo, ended, result>>
      /\ closing' = IF pool = "closing" THEN closing + 1 ELSE closing
      /\ pool = "closing" => closing < CloseTimeout
  BY DEF Tick
<1>10. ASSUME NEW i \in Slots, conn[i].state = "query", Up(i)
       PROVE  conn[i].age < Budget(todo[conn[i].by])
  <2>1. conn[i].session.timeout = Budget(todo[conn[i].by])
    BY <1>1, <1>10 DEF Sessions
  <2>2. todo[conn[i].by] \in Commands
    BY <1>1, <1>10 DEF TypeOK, Held
  <2>3. Budget(todo[conn[i].by]) \in Nat \ {0}
    BY <2>2, Timeouts
  <2> QED BY <2>1, <2>3, <1>2, <1>3, <1>10 DEF Due
<1>11. ASSUME NEW i \in Slots, Held(i), Up(i)
       PROVE  conn[i].state = "query"
  BY <1>3, <1>11 DEF Due, Held
<1>12. \A i \in Slots : (Held(i)' <=> Held(i)) /\ (Up(i)' <=> Up(i))
  BY <1>6, <1>7 DEF Held, Up
<1> HIDE DEF k, cut
<1>13. TypeOK'
  <2>1. closing' \in 0..CloseTimeout
    BY <1>1, <1>9, Timeouts DEF TypeOK
  <2> QED BY <1>1, <1>7, <1>8, <1>9, <1>12, <2>1 DEF TypeOK, ConnType
<1>14. Booting' /\ ClosingClock' /\ Knowing'
  BY <1>1, <1>7, <1>9 DEF Booting, ClosingClock, Knowing
<1>15. Sessions'
  BY <1>1, <1>7, <1>9 DEF Sessions, Budget
<1>16. EveryCommandBounded'
  <2> SUFFICES ASSUME NEW i \in Slots, conn'[i].state = "query"
               PROVE  /\ conn'[i].session.readOnly
                      /\ Up(i)' => conn'[i].age <= Budget(todo'[conn'[i].by])
    BY DEF EveryCommandBounded, Budget
  <2>1. conn[i].state = "query" /\ conn'[i].session.readOnly
    BY <1>1, <1>7 DEF EveryCommandBounded
  <2>2. ASSUME Up(i)'
        PROVE  conn'[i].age <= Budget(todo'[conn'[i].by])
    <3>1. conn[i].age < Budget(todo[conn[i].by]) /\ todo[conn[i].by] \in Commands
      BY <2>1, <2>2, <1>1, <1>10, <1>12 DEF TypeOK, Held
    <3>2. conn'[i].age = conn[i].age + 1 /\ conn'[i].by = conn[i].by
      BY <2>1, <1>7
    <3> QED BY <3>1, <3>2, <1>2, <1>9, Timeouts
  <2> QED BY <2>1, <2>2
<1>17. Draining'
  <2> SUFFICES ASSUME HatchTimeout <= StatementTimeout,
                      StatementTimeout < MaxCloseTimeout,
                      pool' = "closing", NEW i \in Slots, Held(i)', Up(i)'
               PROVE  /\ closing' <= StatementTimeout
                      /\ conn'[i].state = "query" => closing' <= conn'[i].age
    BY DEF Draining
  <2>1. Held(i) /\ Up(i) /\ conn[i].state = "query" /\ pool = "closing"
    BY <1>9, <1>11, <1>12
  <2>2. closing <= conn[i].age
    BY <2>1, <1>1 DEF Draining
  <2>3. conn[i].age < StatementTimeout
    BY <2>1, <1>2, <1>10, Timeouts DEF Budget
  <2>4. conn'[i].age = conn[i].age + 1 /\ closing' = closing + 1
    BY <2>1, <1>7, <1>9
  <2>5. closing \in Nat
    BY <1>1, Timeouts DEF TypeOK
  <2> QED BY <2>2, <2>3, <2>4, <2>5, <1>2, Timeouts
<1> QED BY <1>13, <1>14, <1>15, <1>16, <1>17 DEF IInv

------------------------------------------------------------------------------
(* The invariant and what it gives. *)

LEMMA InitIInv == Init => IInv
<1> SUFFICES ASSUME Init PROVE IInv
  OBVIOUS
<1>1. \A i \in Slots : conn[i] = Closed /\ ~Held(i)
  BY ClosedType DEF Init, Held
<1>2. TypeOK
  <2>1. closing \in 0..CloseTimeout
    BY Timeouts DEF Init
  <2>2. /\ conn \in [Slots -> ConnType]
        /\ todo \in [Clients -> Commands \cup {None}]
        /\ ended \in [Clients -> Endings \cup {None}]
        /\ result \in [Clients -> Results \cup {None}]
    BY ClosedType DEF Init, Commands, After
  <2> QED BY <2>1, <2>2, <1>1, ClosedType DEF Init, TypeOK, ConnType
<1>3. Booting /\ ClosingClock /\ Knowing /\ Draining
  BY <1>1 DEF Init, Booting, ClosingClock, Knowing, Draining
<1>4. Sessions /\ EveryCommandBounded
  BY <1>1, ClosedType DEF Sessions, EveryCommandBounded
<1> QED BY <1>2, <1>3, <1>4 DEF IInv

LEMMA NextIInv == IInv /\ [Next]_vars => IInv'
<1> SUFFICES ASSUME IInv, [Next]_vars PROVE IInv'
  OBVIOUS
<1>1. ASSUME NEW c \in Callers, Request(c) PROVE IInv'
  BY <1>1, RequestStep
<1>2. ASSUME NEW c \in Clients, NEW i \in Slots, Acquire(c, i) PROVE IInv'
  BY <1>2, AcquireStep
<1>3. ASSUME NEW c \in Clients, NEW i \in Slots, ConnectFails(c, i) PROVE IInv'
  <2>1. \E r \in Results : Finish(c, r)
    BY <1>3, HandledType DEF ConnectFails
  <2> QED BY <1>3, <2>1, WithoutConnection DEF ConnectFails
<1>4. ASSUME NEW c \in Clients, AcquireRefused(c) PROVE IInv'
  <2>1. \E r \in Results : Finish(c, r)
    BY <1>4, HandledType DEF AcquireRefused
  <2> QED BY <1>4, <2>1, WithoutConnection DEF AcquireRefused
<1>5. ASSUME NEW i \in Slots, NEW e \in {"rows", "cancelled", "error"}, Reply(i, e)
      PROVE  IInv'
  BY <1>5, PutStep DEF Reply, Held, Endings
<1>6. ASSUME NEW i \in Slots, GiveUp(i) PROVE IInv'
  BY <1>6, PutStep DEF GiveUp, Held, Endings
<1>7. ASSUME NEW i \in Slots, CancelConfirmed(i) PROVE IInv'
  BY <1>7, PutStep DEF CancelConfirmed, Held
<1>8. ASSUME NEW i \in Slots, Released(i) PROVE IInv'
  BY <1>8, ReleasedStep
<1>9. ASSUME NEW i \in Slots, ResetFails(i) \/ KeepaliveFails(i) PROVE IInv'
  BY <1>9, DroppedStep
<1>10. ASSUME NEW i \in Slots, PathDies(i) PROVE IInv'
  BY <1>10, PathDiesStep
<1>11. CASE Close
  BY <1>11, CloseStep
<1>12. CASE Drained \/ Terminate
  BY <1>12, ClosedStep
<1>13. CASE Tick
  BY <1>13, TickStep
<1>14. CASE UNCHANGED vars
  <2>1. UNCHANGED <<pool, closing, conn, todo, ended, result>>
    BY <1>14 DEF vars
  <2> QED BY <2>1 DEF IInv, TypeOK, Booting, ClosingClock, Knowing, Sessions,
                      EveryCommandBounded, Draining, Held, Up, Budget
<1> QED BY <1>1, <1>2, <1>3, <1>4, <1>5, <1>6, <1>7, <1>8, <1>9, <1>10,
           <1>11, <1>12, <1>13, <1>14 DEF Next

(* IInv is an invariant, whatever the number of requests and connections,  *)
(* the timeouts, and the moments at which paths die.                       *)
THEOREM Invariance == Spec => []IInv
<1>1. IInv /\ [Next]_vars => IInv'
  BY NextIInv
<1> QED BY InitIInv, <1>1, PTL DEF Spec

(* Every variable keeps its type; a connection has one holder, and a       *)
(* client one connection.                                                  *)
THEOREM TypeCorrect == Spec => []TypeOK
<1>1. IInv => TypeOK
  BY DEF IInv
<1> QED BY <1>1, Invariance, PTL

(* A command runs read-only and within its budget on every connection,     *)
(* fresh or released by whomever: the server_settings of                   *)
(* PartnerPool.create survive RESET ALL.                                   *)
THEOREM CommandsBounded == Spec => []EveryCommandBounded
<1>1. IInv => EveryCommandBounded
  BY DEF IInv
<1> QED BY <1>1, Invariance, PTL

(* command_timeout_for gives the server's own timeout the first word: the  *)
(* client's fires only on a connection whose path is dead.                 *)
THEOREM ServerFirst == Spec => ServerBoundFirst
<1> DEFINE A == HatchTimeout <= StatementTimeout =>
                  \A i \in Slots : conn[i].state = "query"
                      /\ conn'[i].state = "cancelling" => ~Up(i)
<1>1. ASSUME IInv, Next PROVE A
  <2> SUFFICES ASSUME HatchTimeout <= StatementTimeout, NEW i \in Slots,
                      conn[i].state = "query", conn'[i].state = "cancelling",
                      Up(i)
               PROVE  FALSE
    OBVIOUS
  <2>1. TypeOK /\ EveryCommandBounded /\ conn \in [Slots -> ConnType]
    BY <1>1 DEF IInv, TypeOK, ConnType
  <2>2. \A j \in Slots : conn[j] \in ConnType
    BY <2>1
  <2>3. GiveUp(i)
    <3>1. ASSUME NEW j \in Slots, NEW s, conn' = Put(j, s) PROVE s = "cancelling" /\ j = i
      BY <3>1, <2>1, <2>2 DEF Put, ConnType
    <3>2. ASSUME NEW c \in Clients, NEW j \in Slots, Acquire(c, j) PROVE FALSE
      BY <3>2, <2>1, <2>2 DEF Acquire, ConnType
    <3>3. ASSUME NEW j \in Slots, PathDies(j) PROVE FALSE
      BY <3>3, <2>1, <2>2 DEF PathDies, ConnType
    <3>4. ASSUME NEW j \in Slots, Released(j) PROVE FALSE
      BY <3>4, <2>1, <2>2 DEF Released, ConnType
    <3>5. ASSUME NEW j \in Slots, ResetFails(j) \/ KeepaliveFails(j) PROVE FALSE
      BY <3>5, <2>1, ClosedType DEF ResetFails, KeepaliveFails
    <3>6. CASE Drained \/ Terminate
      BY <3>6, ClosedType DEF Drained, Terminate
    <3>7. CASE Tick
      <4>1. conn'[i] = [conn[i] EXCEPT !.age = conn'[i].age, !.cut = conn'[i].cut]
        BY <3>7, <2>2 DEF Tick, ConnType
      <4> QED BY <4>1, <2>2 DEF ConnType
    <3>8. ASSUME UNCHANGED conn PROVE FALSE
      BY <3>8
    <3> QED BY <1>1, <3>1, <3>2, <3>3, <3>4, <3>5, <3>6, <3>7, <3>8
            DEF Next, Request, ConnectFails, AcquireRefused, Reply, GiveUp,
                CancelConfirmed, Close
  <2>4. /\ conn[i].age = CommandTimeout
        /\ conn[i].age <= Budget(todo[conn[i].by])
    BY <2>1, <2>3 DEF GiveUp, EveryCommandBounded
  <2> QED BY <2>4, Timeouts, PoolAssumption DEF Budget
<1> QED BY <1>1, Invariance, PTL DEF Spec, ServerBoundFirst

(* close_timeout_for leaves a command in flight at shutdown the time to    *)
(* end and be released: the drain is given up only for a dead connection.  *)
THEOREM DrainEnough == Spec => DrainSuffices
<1> DEFINE A == HatchTimeout <= StatementTimeout
                  /\ StatementTimeout < MaxCloseTimeout =>
                    (pool # "closed" /\ pool' = "closed" =>
                      \A i \in Slots : Held(i) => ~Up(i))
<1>1. ASSUME IInv, Next PROVE A
  <2> SUFFICES ASSUME HatchTimeout <= StatementTimeout,
                      StatementTimeout < MaxCloseTimeout,
                      pool # "closed", pool' = "closed",
                      NEW i \in Slots, Held(i), Up(i)
               PROVE  FALSE
    OBVIOUS
  <2>1. TypeOK /\ Booting /\ Draining
    BY <1>1 DEF IInv
  <2>2. Drained \/ Terminate
    <3>1. ASSUME NEW c \in Clients, NEW r \in Results, todo[c] # None, Finish(c, r)
          PROVE  FALSE
      BY <3>1, <2>1, FinishEffect
    <3>2. ASSUME NEW c \in Clients, NEW e \in Endings, todo[c] # None, Proceed(c, e)
          PROVE  FALSE
      BY <3>2, <2>1, ProceedEffect
    <3>3. \A j \in Slots : Held(j) => /\ conn[j].by \in Clients
                                      /\ todo[conn[j].by] # None
                                      /\ ended[conn[j].by] \in Endings \cup {None}
      BY <2>1, NoneAssumption DEF TypeOK
    <3>4. ASSUME NEW c \in Clients, NEW j \in Slots,
                 ConnectFails(c, j) \/ AcquireRefused(c)
          PROVE  FALSE
      BY <3>4, <3>1, HandledType DEF ConnectFails, AcquireRefused, Wants
    <3>5. ASSUME NEW j \in Slots, Released(j) \/ ResetFails(j) \/ KeepaliveFails(j)
          PROVE  FALSE
      <4>1. CASE Released(j)
        BY <4>1, <3>2, <2>1, NoneAssumption DEF Released, Held, TypeOK
      <4>2. CASE ResetFails(j) \/ KeepaliveFails(j)
        BY <4>2, <3>2, <3>3 DEF ResetFails, KeepaliveFails, Held, Endings
      <4> QED BY <3>5, <4>1, <4>2
    <3> QED BY <1>1, <3>4, <3>5
            DEF Next, Request, Acquire, Reply, GiveUp, CancelConfirmed,
                PathDies, Close, Tick
  <2>3. Terminate
    BY <2>2 DEF Drained
  <2>4. closing \in Nat /\ closing <= StatementTimeout /\ closing >= CloseTimeout
    BY <2>1, <2>3, Timeouts DEF TypeOK, Draining, Terminate
  <2> QED BY <2>4, Timeouts
<1> QED BY <1>1, Invariance, PTL DEF Spec, DrainSuffices
==============================================================================
