----------------------------- MODULE TypedSurface -----------------------------
(***************************************************************************)
(* The typed routes of the service (service/handlers.py) as an engine uses *)
(* them: it resolves an address, keeps the address_id it is given, and     *)
(* asks for that address's rows and persons by position, and for single    *)
(* rows of the partner's tables.                                           *)
(*                                                                         *)
(* A process mints address ids by itself, in memory, from 1 on. Here its   *)
(* bundle cache is those ids and which of them it still knows; how it      *)
(* scans is BundleCache's and AddressScan's matter. The bundle of an       *)
(* address does not change.                                                *)
(***************************************************************************)
EXTENDS Http, FiniteSets

CONSTANTS
  Addresses,  \* the addresses, up to spelling
  People,     \* the sequence of persons of each address's bundle
  Rows,       \* per address and shape of the corpus, the rows of the bundle
  Physical,   \* per table and record_id that is asked for, how many rows have it
  Pages,      \* what is sent for a number
  Positions,  \* the positions that are asked for
  MaxLives    \* bound: how often a process starts to serve

Shapes == UNION {DOMAIN Rows[a] : a \in Addresses}
Tables == DOMAIN Physical

ASSUME SurfaceAssumption ==
  /\ \A a \in Addresses : DOMAIN Rows[a] = Shapes
  /\ Pages \subseteq Numbers \cup [kind : {"unset", "word"}]
  /\ \A a \in Addresses : Len(People[a]) \in Nat
  /\ \A a \in Addresses, s \in Shapes : Len(Rows[a][s]) \in Nat
  /\ \A table \in Tables : Positions \subseteq DOMAIN Physical[table]
  /\ \A table \in Tables, n \in Positions : Physical[table][n] \in Nat
  /\ Positions \subseteq Int
  /\ MaxLives \in Nat

VARIABLES
  ids,    \* per process, the address of each id it has minted
  known,  \* per process, the ids that are not forgotten
  life,   \* per process, how often it has started to serve
  handle  \* the engine's last address_id, where and when it was minted, and
          \* for which address; None before

cacheVars   == <<ids, known, life>>
surfaceVars == <<cacheVars, handle>>

SurfaceInit ==
  /\ ids = [p \in Replicas |-> <<>>]
  /\ known = [p \in Replicas |-> {}]
  /\ life = [p \in Replicas |-> 0]
  /\ handle = None

(* A faulty NewCache, which keeps what the cold tier knew.                 *)
CacheOfBefore(p) ==
  /\ life[p] < MaxLives
  /\ ids' = [ids EXCEPT ![p] = <<>>]
  /\ life' = [life EXCEPT ![p] = @ + 1]
  /\ UNCHANGED <<known, handle>>

(* The cache that a process is given when it begins to serve.              *)
NewCache(p) ==
  /\ life[p] < MaxLives
  /\ ids' = [ids EXCEPT ![p] = <<>>]
  /\ known' = [known EXCEPT ![p] = {}]
  /\ life' = [life EXCEPT ![p] = @ + 1]
  /\ UNCHANGED handle

(* A cold entry expires.                                                   *)
Forget(p, i) ==
  /\ i \in known[p]
  /\ known' = [known EXCEPT ![p] = @ \ {i}]
  /\ Silent
  /\ UNCHANGED <<ids, life, handle>>

Minted(p, a) == {i \in DOMAIN ids[p] : ids[p][i] = a}

(* A faulty NewId, which counts the entries of the cold tier.              *)
IdByCold(p) == Cardinality(known[p]) + 1

NewId(p) == Len(ids[p]) + 1

IdFor(p, a) == IF Minted(p, a) = {} THEN NewId(p) ELSE CHOOSE i \in Minted(p, a) : TRUE

(* _by_key has the address's id from now on.                               *)
Mint(p, a) ==
  ids' = [ids EXCEPT ![p] = IF IdFor(p, a) \in DOMAIN @ THEN [@ EXCEPT ![IdFor(p, a)] = a]
                                                         ELSE Append(@, a)]

(* relation_count > 0: a bundle without rows is no candidate.              *)
Resolved(a) == \E s \in Shapes : Rows[a][s] # <<>>

(* POST /v1/resolve of address a, None if the body has none. The id is     *)
(* minted, or remembered, before the scan; which may fail.                 *)
ResolveAddress(p, a, rows) ==
  IF a = None \/ IntStatus(rows) # 200
  THEN /\ reply' = Status(IF a = None THEN 400 ELSE IntStatus(rows))
       /\ UNCHANGED surfaceVars
  ELSE LET i == IdFor(p, a)
       IN  /\ Mint(p, a)
           /\ known' = [known EXCEPT ![p] = @ \cup {i}]
           /\ UNCHANGED life
           /\ \/ /\ reply' = Status(200)
                 /\ handle' = IF Resolved(a)
                              THEN [id |-> i, at |-> p, life |-> life[p], address |-> a]
                              ELSE handle
              \/ reply' = Status(500) /\ UNCHANGED handle

(* What a listing numbers, as Python indexes it: a negative index counts   *)
(* from the end.                                                           *)
At(s, n) == s[IF n < 0 THEN Len(s) + n + 1 ELSE n + 1]

(* A faulty InRange, without the lower bound.                              *)
BelowLen(n, s) == n < Len(s) /\ -n <= Len(s)

InRange(n, s) == 0 <= n /\ n < Len(s)

(* The persons of an address, or its rows of one shape.                    *)
Listing(a, of) == IF of = "people" THEN People[a] ELSE Rows[a][of]

(* A 200 about one address, and about the item at position n of a listing  *)
(* of it, if any.                                                          *)
About(p, a, of, n, item) ==
  [status |-> 200, at |-> p, address |-> a, of |-> of, n |-> n, item |-> item]

Item(p, a, of, n) ==
  IF InRange(n, Listing(a, of)) THEN About(p, a, of, n, At(Listing(a, of), n))
                                ELSE Status(404)

(* cache.get(handle.id) at process p: `found` is the answer if it knows    *)
(* the id, which fails (500) if the address is scanned again and that does.*)
Named(p) == ids[p][handle.id]

AskAbout(p, found) ==
  IF handle.id \in known[p] THEN reply' \in {found, Status(500)} ELSE reply' = Status(404)

(* GET /v1/address/<id>/records and /people: the page is parsed last.      *)
AddressListing(p, page) ==
  AskAbout(p, IF IntStatus(page) # 200 THEN Status(IntStatus(page))
                                       ELSE About(p, Named(p), "address", 0, None))

(* GET /v1/person/<id>/records for an id of the form addr:<id>:<n>, or of  *)
(* no form that is known. hal: ids are IdentityGraph's.                    *)
PersonRecords(p, form, n, page) ==
  IF IntStatus(page) # 200 THEN reply' = Status(IntStatus(page))
  ELSE IF form # "addr" THEN reply' = Status(400)
  ELSE AskAbout(p, Item(p, Named(p), "people", n))

(* GET /v1/source-record/<shape>/<n>, whose path has no negative n.        *)
SourceRecord(p, shape, n, given) ==
  IF given.kind # "number" THEN reply' = Status(400)
  ELSE IF shape \notin Shapes THEN reply' = Status(404)
  ELSE AskAbout(p, Item(p, Named(p), shape, n))

(* A faulty AtMost, with a LIMIT that finds a row, but not a second one.   *)
LimitOne(rows) == Min(rows, 1)

AtMost(rows) == Min(rows, 2)

(* GET /v1/sql/source-record/<table>/<given>, with id n if that is a number.*)
SqlSourceRecord(table, n, given) ==
  IF table \notin Tables THEN reply' = Status(404)
  ELSE IF given.kind # "number" THEN reply' = Status(400)
  ELSE reply' \in {[status |-> CASE AtMost(Physical[table][n]) = 0 -> 404
                                 [] AtMost(Physical[table][n]) = 1 -> 200
                                 [] OTHER -> 409,
                    table |-> table, id |-> n],
                   Status(500)}

Follow(p) ==
  /\ handle # None
  /\ \E page \in Pages :
       \/ AddressListing(p, page)
       \/ \E n \in Positions :
            \/ \E form \in {"addr", "other"} : PersonRecords(p, form, n, page)
            \/ n >= 0 /\ \E shape \in Shapes \cup {None} : SourceRecord(p, shape, n, page)
  /\ UNCHANGED surfaceVars

Look ==
  /\ \E table \in Tables \cup {None}, n \in Positions, given \in Pages :
        SqlSourceRecord(table, n, given)
  /\ UNCHANGED surfaceVars

Surface(p) ==
  \/ \E a \in Addresses \cup {None}, rows \in Pages \cup {[kind |-> "inf"]} :
        ResolveAddress(p, a, rows)
  \/ \E i \in known[p] : Forget(p, i)
  \/ Follow(p)
  \/ Look

------------------------------------------------------------------------------
SurfaceTypeOK ==
  /\ ids \in [Replicas -> Seq(Addresses)]
  /\ known \in [Replicas -> SUBSET Nat]
  /\ \A p \in Replicas : known[p] \subseteq DOMAIN ids[p]
  /\ life \in [Replicas -> 0..MaxLives]
  /\ handle \in [id : Nat, at : Replicas, life : Nat, address : Addresses] \cup {None}

IsAbout == reply # None /\ "address" \in DOMAIN reply

(* Whatever was forgotten, resolved and minted since: the process that     *)
(* minted an id, as long as it lives, answers with it about the address it *)
(* minted it for.                                                          *)
IdsHoldForLife ==
  IsAbout /\ handle.at = reply.at /\ handle.life = life[reply.at]
    => reply.address = handle.address

(* A person or row that is answered for a position is the one that the     *)
(* listing of that address numbers so, and a physical row is the only one  *)
(* of its table with its id.                                               *)
PositionsExact ==
  /\ IsAbout /\ reply.item # None
       => /\ reply.n \in 0..(Len(Listing(reply.address, reply.of)) - 1)
          /\ reply.item = Listing(reply.address, reply.of)[reply.n + 1]
  /\ reply # None /\ "table" \in DOMAIN reply
       => (reply.status = 200 <=> Physical[reply.table][reply.id] = 1)

HandlesHonest == IdsHoldForLife /\ PositionsExact

(* serve.py says to scale the service by running it behind a load balancer *)
(* with a shared upstream Postgres: then an address_id names the address   *)
(* it was given for, whichever process answers.                            *)
HandleNamesItsAddress == IsAbout => reply.address = handle.address
==============================================================================
