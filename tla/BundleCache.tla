----------------------------- MODULE BundleCache -----------------------------
(***************************************************************************)
(* The two-tier bundle cache (source/bundle.py, class BundleCache) on the  *)
(* one asyncio event loop that runs it.                                    *)
(*                                                                         *)
(* A call is one HTTP request that reaches BundleCache.resolve or .get.    *)
(* Python code runs without interruption from one await to the next, so an *)
(* action is one callback of the loop: the first step of a call, a step of *)
(* a materialize() task, or the wakeup of a coroutine that awaited one.    *)
(* The callbacks wait in `ready`, asyncio's FIFO queue.                    *)
(*                                                                         *)
(* Each call creates at most one materialize() task, so a task is named by *)
(* the call that created it, its owner, and so is the bundle it returns:   *)
(* bundle t is the one materialized by call t's task, from the spelling    *)
(* query[t], for the address id seen[t].id.                                *)
(***************************************************************************)
EXTENDS Naturals, Sequences, FiniteSets, SequencesExt

CONSTANTS
  Calls,      \* the calls made while the service runs, resolve or get
  Spellings,  \* the (address, zip) pairs callers send, as they spell them
  Blank,      \* the spellings AddressQuery.build gets no query out of
  Keys,       \* the (normalize_address, zip5) pairs the spellings normalise to
  KeyOf,      \* KeyOf[s]: the key of spelling s
  MaxId,      \* bound: address ids are 1..MaxId
  MaxTime,    \* bound: the monotonic clock stops here
  HotTTL,     \* HOT_TTL_SECONDS
  ColdTTL,    \* COLD_TTL_SECONDS
  MaxHot,     \* MAX_HOT_BUNDLES
  NoCall,     \* no call, no task
  NoEntry     \* a missing dict entry or attribute

ASSUME ConstantsAssumption ==
  /\ Blank \subseteq Spellings
  /\ KeyOf \in [Spellings -> Keys]
  /\ MaxId \in Nat \ {0} /\ MaxTime \in Nat
  /\ HotTTL \in Nat /\ ColdTTL \in Nat
  /\ MaxHot \in Nat \ {0}
  /\ NoCall \notin Calls

Ids == 1..MaxId

VARIABLES
  now,       \* time.monotonic()
  nextId,    \* _next_id
  byKey,     \* _by_key: key -> address id, or NoEntry
  cold,      \* _cold: id -> [spelling, expires], or NoEntry
  hot,       \* _hot, an OrderedDict: [id, bundle, expires] oldest use first
  inflight,  \* _inflight: id -> the task's owner, or NoCall
  ready,     \* the event loop's FIFO queue of callbacks
  call,      \* what each call asks for, NoEntry before it arrives
  phase,     \* where each call's coroutine stands
  seen,      \* the id a call is about and when it first ran, or NoEntry
  awaits,    \* the task a call awaits, or NoCall
  task,      \* the state of the task a call owns
  query,     \* the spelling that task materializes, or NoEntry
  awaiters,  \* the done-callbacks of the task: who awaits it, in order
  answer,    \* what each call returned or raised, or NoEntry
  log        \* history: the answered calls, in the order of their answers

cache    == <<nextId, byKey, cold, hot, inflight>>
tasks    == <<task, query>>
vars     == <<now, cache, ready, call, phase, seen, awaits, tasks, awaiters,
              answer, log>>

------------------------------------------------------------------------------
(* Values *)

Requests   == [op : {"resolve"}, spelling : Spellings]
                \cup [op : {"get"}, id : Ids]
ColdEntry  == [spelling : Spellings, expires : Nat]
HotEntry   == [id : Ids, bundle : Calls, expires : Nat]
Phases     == {"unsent", "queued", "owner", "waiter", "answered"}
Succeeded  == {"full", "partial"}      \* partial: tax_timed_out is True
Done       == Succeeded \cup {"failed"}
Running    == {"created", "scanning", "resumed"}
TaskStates == {"none"} \cup Running \cup Done
Callback   == [kind : {"call", "step", "wake"}, of : Calls]
Answers    == [kind : {"bundle", "error"}, by : Calls, via : {"hot", "task"},
               at : Nat]
                \cup [kind : {"unknown"}, at : Nat]

ASSUME NoEntryAssumption ==
  NoEntry \notin Ids \cup [id : Ids, at : Nat] \cup ColdEntry \cup Answers

CallBack(k, r) == [kind |-> k, of |-> r]

(* The ids in the hot tier, and the tier as the dict operations leave it.  *)
HotIds == {hot[i].id : i \in DOMAIN hot}

HotIndex(id) == CHOOSE i \in DOMAIN hot : hot[i].id = id

WithoutHot(id) == IF id \in HotIds THEN RemoveAt(hot, HotIndex(id)) ELSE hot

(* _hot_get finds an entry: present, and not strictly past its expiry.     *)
HotHit(id) == id \in HotIds /\ ~(hot[HotIndex(id)].expires < now)

(* Faulty variants of Touched: a hit that leaves the order alone, and one  *)
(* that prolongs the entry.                                                *)
UntouchedHit(id) == hot

SlidingHit(id) ==
  Append(WithoutHot(id), [hot[HotIndex(id)] EXCEPT !.expires = now + HotTTL])

Touched(id) == Append(WithoutHot(id), hot[HotIndex(id)])

(* A faulty Stored, whose loop runs while the tier is at the cap.          *)
StoredBelowCap(id, t) ==
  LET h == Append(WithoutHot(id),
                  [id |-> id, bundle |-> t, expires |-> now + HotTTL])
  IN  IF Len(h) >= MaxHot THEN SubSeq(h, Len(h) - MaxHot + 2, Len(h)) ELSE h

(* _store_hot: set, move to the end, drop the oldest while over the cap.   *)
Stored(id, t) ==
  LET h == Append(WithoutHot(id),
                  [id |-> id, bundle |-> t, expires |-> now + HotTTL])
  IN  IF Len(h) > MaxHot THEN SubSeq(h, Len(h) - MaxHot + 1, Len(h)) ELSE h

------------------------------------------------------------------------------
(* The initial state: BundleCache.__init__, and no call yet. *)
Init ==
  /\ now = 0
  /\ nextId = 1
  /\ byKey = [k \in Keys |-> NoEntry]
  /\ cold = [i \in Ids |-> NoEntry]
  /\ hot = <<>>
  /\ inflight = [i \in Ids |-> NoCall]
  /\ ready = <<>>
  /\ call = [r \in Calls |-> NoEntry]
  /\ phase = [r \in Calls |-> "unsent"]
  /\ seen = [r \in Calls |-> NoEntry]
  /\ awaits = [r \in Calls |-> NoCall]
  /\ task = [r \in Calls |-> "none"]
  /\ query = [r \in Calls |-> NoEntry]
  /\ awaiters = [r \in Calls |-> <<>>]
  /\ answer = [r \in Calls |-> NoEntry]
  /\ log = <<>>

(* A request arrives: the server schedules its handler. *)
Arrive(r, q) ==
  /\ phase[r] = "unsent"
  /\ call' = [call EXCEPT ![r] = q]
  /\ phase' = [phase EXCEPT ![r] = "queued"]
  /\ ready' = Append(ready, CallBack("call", r))
  /\ UNCHANGED <<now, cache, seen, awaits, tasks, awaiters, answer, log>>

(* Call r returns a or raises: the handler goes on to render the response. *)
Answer(r, a) ==
  /\ answer' = [answer EXCEPT ![r] = a]
  /\ phase' = [phase EXCEPT ![r] = "answered"]
  /\ log' = Append(log, r)

BundleAnswer(t, how) ==
  [kind |-> "bundle", by |-> t, via |-> how, at |-> now]

(* What awaiting the finished task t, in state s, gives call r: the bundle *)
(* goes (again) into the hot tier, the exception is raised to every        *)
(* awaiter. h is the hot tier the caller found.                            *)
TakeResult(r, id, t, h) ==
  \/ /\ task[t] \in Succeeded
     /\ hot' = Stored(id, t)
     /\ Answer(r, BundleAnswer(t, "task"))
  \/ /\ task[t] = "failed"
     /\ hot' = h
     /\ Answer(r, [kind |-> "error", by |-> t, via |-> "task", at |-> now])

(* A faulty StartTask, which does not look at _inflight.                   *)
StartAnyway(r, id, s) ==
  /\ inflight' = [inflight EXCEPT ![id] = r]
  /\ task' = [task EXCEPT ![r] = "created"]
  /\ query' = [query EXCEPT ![r] = s]
  /\ awaiters' = [awaiters EXCEPT ![r] = <<r>>]
  /\ awaits' = [awaits EXCEPT ![r] = r]
  /\ phase' = [phase EXCEPT ![r] = "owner"]
  /\ ready' = Append(Tail(ready), CallBack("step", r))
  /\ hot' = WithoutHot(id)
  /\ UNCHANGED <<answer, log>>

(* _materialize_once up to its first suspension. Nothing awaits between    *)
(* the look at _inflight and the registration of the new task.             *)
StartTask(r, id, s) ==
  /\ inflight[id] = NoCall
  /\ inflight' = [inflight EXCEPT ![id] = r]
  /\ task' = [task EXCEPT ![r] = "created"]
  /\ query' = [query EXCEPT ![r] = s]
  /\ awaiters' = [awaiters EXCEPT ![r] = <<r>>]
  /\ awaits' = [awaits EXCEPT ![r] = r]
  /\ phase' = [phase EXCEPT ![r] = "owner"]
  /\ ready' = Append(Tail(ready), CallBack("step", r))
  /\ hot' = WithoutHot(id)
  /\ UNCHANGED <<answer, log>>

(* A task is in flight: await it too. *)
JoinTask(r, id) ==
  /\ inflight[id] # NoCall
  /\ task[inflight[id]] \notin Done
  /\ awaits' = [awaits EXCEPT ![r] = inflight[id]]
  /\ awaiters' = [awaiters EXCEPT ![inflight[id]] = Append(@, r)]
  /\ phase' = [phase EXCEPT ![r] = "waiter"]
  /\ hot' = WithoutHot(id)
  /\ ready' = Tail(ready)
  /\ UNCHANGED <<inflight, tasks, answer, log>>

(* The task is already done but its owner has not run yet: awaiting a done *)
(* task does not suspend, so the call has its result in this same step.    *)
TakeDone(r, id) ==
  /\ inflight[id] # NoCall
  /\ task[inflight[id]] \in Done
  /\ awaits' = [awaits EXCEPT ![r] = inflight[id]]
  /\ TakeResult(r, id, inflight[id], WithoutHot(id))
  /\ ready' = Tail(ready)
  /\ UNCHANGED <<inflight, tasks, awaiters>>

MaterializeOnce(r, id, s) ==
  StartTask(r, id, s) \/ JoinTask(r, id) \/ TakeDone(r, id)

(* _hot_get answers: the entry becomes the most recently used one. *)
ServeHot(r, id) ==
  /\ HotHit(id)
  /\ hot' = Touched(id)
  /\ Answer(r, BundleAnswer(hot[HotIndex(id)].bundle, "hot"))
  /\ ready' = Tail(ready)
  /\ UNCHANGED <<inflight, tasks, awaits, awaiters>>

Runs(r, op) ==
  /\ ready # <<>>
  /\ Head(ready) = CallBack("call", r)
  /\ phase[r] = "queued"
  /\ call[r].op = op

(* A faulty IdFor, which numbers a new key by the ids recoverable now.     *)
IdByCount(k) ==
  IF byKey[k] = NoEntry
    THEN 1 + Cardinality({i \in Ids : cold[i] # NoEntry}) ELSE byKey[k]

(* The id of key k: the one minted for it, or the next one. *)
IdFor(k) == IF byKey[k] = NoEntry THEN nextId ELSE byKey[k]

(* BundleCache.resolve, up to its answer or its first suspension. *)
Resolve(r) ==
  /\ Runs(r, "resolve")
  /\ LET s  == call[r].spelling
         k  == KeyOf[s]
         id == IdFor(k)
     IN  /\ id \in Ids    \* the bound MaxId
         /\ byKey' = [byKey EXCEPT ![k] = id]
         /\ nextId' = IF byKey[k] = NoEntry THEN nextId + 1 ELSE nextId
         /\ cold' = [cold EXCEPT ![id] = [spelling |-> s,
                                          expires |-> now + ColdTTL]]
         /\ seen' = [seen EXCEPT ![r] = [id |-> id, at |-> now]]
         /\ \/ ServeHot(r, id)
            \/ ~HotHit(id) /\ MaterializeOnce(r, id, s)
  /\ UNCHANGED <<now, call>>

(* A faulty ColdHit, which expires an entry at its expiry time.            *)
ColdHitEarly(id) == cold[id] # NoEntry /\ ~(cold[id].expires <= now)

ColdHit(id) == cold[id] # NoEntry /\ ~(cold[id].expires < now)

(* Both tiers miss: _cold drops the id and get returns None. *)
Unknown(r, id) ==
  /\ cold' = [cold EXCEPT ![id] = NoEntry]
  /\ hot' = WithoutHot(id)
  /\ Answer(r, [kind |-> "unknown", at |-> now])
  /\ ready' = Tail(ready)
  /\ UNCHANGED <<inflight, tasks, awaits, awaiters>>

(* BundleCache.get, up to its answer or its first suspension. *)
Get(r) ==
  /\ Runs(r, "get")
  /\ LET id == call[r].id
     IN  /\ seen' = [seen EXCEPT ![r] = [id |-> id, at |-> now]]
         /\ \/ ServeHot(r, id) /\ UNCHANGED cold
            \/ ~HotHit(id) /\ ~ColdHit(id) /\ Unknown(r, id)
            \/ /\ ~HotHit(id) /\ ColdHit(id)
               /\ MaterializeOnce(r, id, cold[id].spelling)
               /\ UNCHANGED cold
  /\ UNCHANGED <<now, nextId, byKey, call>>

(* A task ends: the loop schedules every awaiter, in the order they came. *)
Wakeups(t) ==
  [i \in 1..Len(awaiters[t]) |-> CallBack("wake", awaiters[t][i])]

(* A faulty Finish: a shared result that is set on success only.           *)
FinishQuietly(t, outcome) ==
  /\ task' = [task EXCEPT ![t] = outcome]
  /\ awaiters' = [awaiters EXCEPT ![t] = <<>>]
  /\ ready' = IF outcome \in Succeeded
              THEN Tail(ready) \o Wakeups(t) ELSE Tail(ready)

Finish(t, outcome) ==
  /\ task' = [task EXCEPT ![t] = outcome]
  /\ awaiters' = [awaiters EXCEPT ![t] = <<>>]
  /\ ready' = Tail(ready) \o Wakeups(t)

(* A step of a materialize() task. Its first step suspends on the pool,    *)
(* unless the spelling yields no query at all; a later one ends it, with a *)
(* bundle, with a bundle whose tax scan timed out, or with an exception.   *)
(* The suspensions between its queries touch nothing but its own locals.   *)
Step(t) ==
  /\ ready # <<>>
  /\ Head(ready) = CallBack("step", t)
  /\ \/ /\ task[t] = "created" /\ query[t] \in Blank
        /\ Finish(t, "full")
     \/ /\ task[t] = "created" /\ query[t] \notin Blank
        /\ task' = [task EXCEPT ![t] = "scanning"]
        /\ ready' = Tail(ready)
        /\ UNCHANGED awaiters
     \/ /\ task[t] = "resumed"
        /\ \E outcome \in Done : Finish(t, outcome)
  /\ UNCHANGED <<now, cache, call, phase, seen, awaits, query, answer, log>>

(* The database answers, cancels or drops the scan: the task is ready. *)
ScanReturns(t) ==
  /\ task[t] = "scanning"
  /\ task' = [task EXCEPT ![t] = "resumed"]
  /\ ready' = Append(ready, CallBack("step", t))
  /\ UNCHANGED <<now, cache, call, phase, seen, awaits, query, awaiters,
                 answer, log>>

(* Faulty variants of Unregister: one that skips the removal when the task *)
(* failed (no finally), and one that stores None in place of removing.     *)
UnregisterOnSuccess(r, id) ==
  inflight' = IF phase[r] = "owner" /\ task[awaits[r]] \in Succeeded
              THEN [inflight EXCEPT ![id] = NoCall] ELSE inflight

UnregisterToNone(r, id) ==
  inflight' = IF phase[r] = "owner"
              THEN [inflight EXCEPT ![id] = NoEntry] ELSE inflight

(* The owner resumes: its finally clause unregisters the task, whatever    *)
(* the outcome; a waiter leaves the registration alone.                    *)
Unregister(r, id) ==
  inflight' = IF phase[r] = "owner"
              THEN [inflight EXCEPT ![id] = NoCall] ELSE inflight

Wake(r) ==
  /\ ready # <<>>
  /\ Head(ready) = CallBack("wake", r)
  /\ phase[r] \in {"owner", "waiter"}
  /\ Unregister(r, seen[r].id)
  /\ TakeResult(r, seen[r].id, awaits[r], hot)
  /\ ready' = Tail(ready)
  /\ UNCHANGED <<now, nextId, byKey, cold, call, seen, awaits, tasks, awaiters>>

(* BundleCache.evict_hot, which only the tests call. *)
EvictHot(id) ==
  /\ id \in HotIds
  /\ hot' = WithoutHot(id)
  /\ UNCHANGED <<now, nextId, byKey, cold, inflight, ready, call, phase, seen,
                 awaits, tasks, awaiters, answer, log>>

Tick ==
  /\ now < MaxTime
  /\ now' = now + 1
  /\ UNCHANGED <<cache, ready, call, phase, seen, awaits, tasks, awaiters,
                 answer, log>>

(* Every call has its answer: the loop idles. *)
Idle ==
  /\ \A r \in Calls : phase[r] = "answered"
  /\ UNCHANGED vars

Loop == \E r \in Calls : Resolve(r) \/ Get(r) \/ Step(r) \/ Wake(r)

Next ==
  \/ \E r \in Calls, q \in Requests : Arrive(r, q)
  \/ \E r \in Calls : Resolve(r)
  \/ \E r \in Calls : Get(r)
  \/ \E r \in Calls : Step(r)
  \/ \E r \in Calls : ScanReturns(r)
  \/ \E r \in Calls : Wake(r)
  \/ \E id \in Ids : EvictHot(id)
  \/ Tick
  \/ Idle

(* The loop runs what is ready, and every scan returns: the server's       *)
(* statement_timeout and asyncpg's command_timeout see to it.              *)
Fairness ==
  /\ WF_vars(Loop)
  /\ \A r \in Calls : WF_vars(ScanReturns(r))

Spec == Init /\ [][Next]_vars /\ Fairness

------------------------------------------------------------------------------
(* Properties *)

(* Every variable holds values of its type: the dicts of BundleCache, the  *)
(* loop's queue and the coroutines' places.                                *)
TypeOK ==
  /\ now \in Nat
  /\ nextId \in Nat \ {0}
  /\ byKey \in [Keys -> Ids \cup {NoEntry}]
  /\ cold \in [Ids -> ColdEntry \cup {NoEntry}]
  /\ hot \in Seq(HotEntry)
  /\ inflight \in [Ids -> Calls \cup {NoCall}]
  /\ ready \in Seq(Callback)
  /\ call \in [Calls -> Requests \cup {NoEntry}]
  /\ phase \in [Calls -> Phases]
  /\ seen \in [Calls -> [id : Ids, at : Nat] \cup {NoEntry}]
  /\ awaits \in [Calls -> Calls \cup {NoCall}]
  /\ task \in [Calls -> TaskStates]
  /\ query \in [Calls -> Spellings \cup {NoEntry}]
  /\ awaiters \in [Calls -> Seq(Calls)]
  /\ answer \in [Calls -> Answers \cup {NoEntry}]
  /\ log \in Seq(Calls)

(* The inductive invariant behind the theorems of BundleCacheProofs. What  *)
(* the place of a call's coroutine says of its other variables.            *)
Places ==
  \A r \in Calls :
    /\ phase[r] # "unsent" => call[r] \in Requests
    /\ phase[r] \in {"unsent", "queued"} =>
         seen[r] = NoEntry /\ task[r] = "none"
    /\ phase[r] \in {"owner", "waiter", "answered"} => seen[r] # NoEntry
    /\ phase[r] = "answered" <=> answer[r] # NoEntry
    /\ phase[r] = "owner" => awaits[r] = r /\ task[r] # "none"
    /\ phase[r] = "waiter" =>
         /\ awaits[r] \in Calls
         /\ task[awaits[r]] # "none"
         /\ seen[awaits[r]].id = seen[r].id
    /\ task[r] # "none" => seen[r] # NoEntry /\ query[r] \in Spellings

(* A registered task is its owner's, and the owner has not resumed; a task *)
(* that still runs has an owner that awaits it.                            *)
Flight ==
  /\ \A id \in Ids : inflight[id] # NoCall =>
       phase[inflight[id]] = "owner" /\ seen[inflight[id]].id = id
  /\ \A r \in Calls : phase[r] = "owner" => inflight[seen[r].id] = r
  /\ \A r \in Calls : task[r] \in Running => phase[r] = "owner"

(* Hot entries hold bundles of finished tasks of their own address id. *)
GoodEntries ==
  {e \in HotEntry : task[e.bundle] \in Succeeded
                      /\ seen[e.bundle].id = e.id}

HotSound == hot \in Seq(GoodEntries)

(* An id belongs to one key, and whatever is kept under an id, or asked of *)
(* a task for it, was spelled as that key.                                 *)
KeySound ==
  /\ \A k \in Keys : byKey[k] # NoEntry =>
       /\ byKey[k] < nextId
       /\ \A l \in Keys : byKey[l] = byKey[k] => l = k
  /\ \A id \in Ids : cold[id] # NoEntry =>
       byKey[KeyOf[cold[id].spelling]] = id
  /\ \A r \in Calls : task[r] # "none" =>
       byKey[KeyOf[query[r]]] = seen[r].id
  /\ \A r \in Calls : seen[r] # NoEntry /\ call[r].op = "resolve" =>
       byKey[KeyOf[call[r].spelling]] = seen[r].id

(* What a call was answered with is the outcome of a task of its address. *)
AnswerSound ==
  \A r \in Calls : answer[r] # NoEntry /\ answer[r].kind # "unknown" =>
    /\ seen[answer[r].by].id = seen[r].id
    /\ task[answer[r].by] \in
         IF answer[r].kind = "bundle" THEN Succeeded ELSE {"failed"}

IInv ==
  TypeOK /\ Places /\ Flight /\ HotSound /\ KeySound /\ AnswerSound

(* At most one materialize() per address is ever in flight: the promise of *)
(* _materialize_once, over every interleaving of owners, late callers,     *)
(* failures and evictions.                                                 *)
SingleFlight ==
  \A t, u \in Calls :
    task[t] \in Running /\ task[u] \in Running /\ seen[t].id = seen[u].id
      => t = u

(* A bundle that answers a call was materialized for the call's own        *)
(* address: from a spelling that normalises to the key the id was minted   *)
(* for, which for a resolve is the key of the caller's own spelling.       *)
OwnAddress ==
  \A r \in Calls : answer[r] # NoEntry =>
    (answer[r].kind = "bundle" =>
      LET k == KeyOf[query[answer[r].by]]
      IN  /\ byKey[k] = seen[r].id
          /\ call[r].op = "resolve" => KeyOf[call[r].spelling] = k)

(* Once the loop is idle no registration points to a dead task: every task *)
(* in _inflight can still end and be unregistered, so an address whose     *)
(* scan failed is scanned again by the next call for it.                   *)
NoDeadTask ==
  ready = <<>> =>
    \A id \in Ids : inflight[id] # NoCall => task[inflight[id]] \in Running

(* The index in the log of the answer that last gave the bundle of id. *)
LastUse(id) ==
  LET uses == {n \in DOMAIN log : /\ seen[log[n]].id = id
                                  /\ answer[log[n]].kind = "bundle"}
  IN  Max(uses \cup {0})

(* The hot tier is within MAX_HOT_BUNDLES and its order is the order of    *)
(* last use, over hits, stores by owners and re-stores by waiters: what    *)
(* the cap evicts is the least recently used bundle.                       *)
LeastRecentFirst ==
  /\ Len(hot) <= MaxHot
  /\ \A i, j \in DOMAIN hot :
       i < j => LastUse(hot[i].id) < LastUse(hot[j].id)

(* A hit serves a bundle that some call stored at most HOT_TTL_SECONDS     *)
(* ago: use never prolongs the life of a bundle, only a store does.        *)
HotAge ==
  \A r \in Calls : answer[r] # NoEntry =>
    (answer[r].kind = "bundle" /\ answer[r].via = "hot" =>
      \E w \in Calls :
        /\ answer[w] # NoEntry
        /\ answer[w].kind = "bundle" /\ answer[w].via = "task"
        /\ answer[w].by = answer[r].by
        /\ answer[w].at <= answer[r].at
        /\ answer[r].at <= answer[w].at + HotTTL)

(* get returns None only for an id that no resolve was called for in the   *)
(* last COLD_TTL_SECONDS: the two tiers make eviction recoverable, over    *)
(* expiry, LRU eviction and failed scans.                                  *)
Recoverable ==
  [][\A g \in Calls :
       (answer[g] = NoEntry /\ answer'[g] # NoEntry
          /\ answer'[g].kind = "unknown") =>
         \A r \in Calls \ {g} :
           (seen[r] # NoEntry /\ call[r].op = "resolve"
              /\ seen[r].id = call[g].id)
             => now > seen[r].at + ColdTTL]_vars

(* Serving calls drops a bundle that is still valid only when the hot tier *)
(* is full: no lookup, failure or store of one address costs another its   *)
(* bundle below the cap.                                                   *)
EvictedOnlyWhenFull ==
  [][phase' # phase =>
       \A i \in DOMAIN hot :
         \/ hot[i].expires < now
         \/ \E j \in DOMAIN hot' : hot'[j].id = hot[i].id
         \/ Len(hot') = MaxHot]_vars

(* A stored bundle is never replaced by one whose scan began earlier: late *)
(* waiters re-store what they awaited, never over a newer bundle.          *)
NoStaleOverwrite ==
  [][\A i \in DOMAIN hot, j \in DOMAIN hot' :
       hot[i].id = hot'[j].id =>
         seen[hot[i].bundle].at <= seen[hot'[j].bundle].at]_vars

(* Every call that arrives is answered, whatever its scan does. *)
EveryCallAnswered ==
  \A r \in Calls : phase[r] = "queued" ~> phase[r] = "answered"

(* The cache implements AddressService: a call is about the id it looked   *)
(* up, a scan is a materialize() task.                                     *)
AboutOf(e) == IF e = NoEntry THEN NoEntry ELSE e.id

ScanOf(s) == IF s \in Running THEN "running"
             ELSE IF s \in Succeeded THEN "bundle" ELSE s

ReplyOf(a) == IF a = NoEntry THEN NoEntry
              ELSE IF a.kind = "unknown" THEN [kind |-> "unknown"]
              ELSE [kind |-> a.kind, by |-> a.by]

AboutId   == [r \in Calls |-> AboutOf(seen[r])]
ScanState == [r \in Calls |-> ScanOf(task[r])]
Reply     == [r \in Calls |-> ReplyOf(answer[r])]

Abstract == INSTANCE AddressService
              WITH about <- AboutId, scan <- ScanState, reply <- Reply

AddressServiceSpec == Abstract!Spec

==============================================================================
