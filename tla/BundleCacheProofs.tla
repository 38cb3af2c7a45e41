-------------------------- MODULE BundleCacheProofs --------------------------
(***************************************************************************)
(* Theorems about BundleCache, for every set of calls, spellings and keys  *)
(* and every bound and time-to-live: the type invariant, one scan per      *)
(* address, bundles of the caller's own address, and the implementation of *)
(* AddressService. They rest on IInv, proved inductive action by action.   *)
(*                                                                         *)
(* Then the two tiers: a hit is never older than HOT_TTL_SECONDS, the hot  *)
(* tier is ordered by last use and drops a valid bundle only when it is    *)
(* full, and an id stays recoverable for COLD_TTL_SECONDS after its last   *)
(* resolve. Then the event loop's queue: an idle loop leaves no            *)
(* registration of a dead task, and no bundle is replaced by one whose     *)
(* scan began earlier, both by where the wakeups of a finished task stand  *)
(* in it.                                                                  *)
(***************************************************************************)
EXTENDS BundleCache, SortedSequences

------------------------------------------------------------------------------
(* The dict and queue operations keep sequences of any element set S. *)

LEMMA RemoveAtSeq ==
  ASSUME NEW S, NEW s \in Seq(S), NEW i \in 1..Len(s)
  PROVE  RemoveAt(s, i) \in Seq(S)
<1> DEFINE p == SubSeq(s, 1, i - 1)
           q == SubSeq(s, i + 1, Len(s))
<1>1. p \in Seq(S)
  BY SubSeqProperties, LenProperties
<1>2. q \in Seq(S)
  BY SubSeqProperties, LenProperties
<1> QED BY <1>1, <1>2, ConcatProperties DEF RemoveAt

LEMMA FoundInHot ==
  ASSUME NEW S, hot \in Seq(S), NEW id, id \in HotIds
  PROVE  /\ HotIndex(id) \in 1..Len(hot)
         /\ hot[HotIndex(id)] \in S
         /\ hot[HotIndex(id)].id = id
<1>1. DOMAIN hot = 1..Len(hot)
  BY LenProperties
<1>2. \E i \in DOMAIN hot : hot[i].id = id
  BY DEF HotIds
<1>3. HotIndex(id) \in DOMAIN hot /\ hot[HotIndex(id)].id = id
  BY <1>2 DEF HotIndex
<1> QED BY <1>1, <1>3, ElementOfSeq

LEMMA WithoutHotSeq ==
  ASSUME NEW S, hot \in Seq(S), NEW id
  PROVE  WithoutHot(id) \in Seq(S)
<1>1. CASE id \in HotIds
  BY <1>1, FoundInHot, RemoveAtSeq DEF WithoutHot
<1>2. CASE id \notin HotIds
  BY <1>2 DEF WithoutHot
<1> QED BY <1>1, <1>2

LEMMA TouchedSeq ==
  ASSUME NEW S, hot \in Seq(S), NEW id, id \in HotIds
  PROVE  Touched(id) \in Seq(S)
BY FoundInHot, WithoutHotSeq, AppendProperties DEF Touched

LEMMA StoredSeq ==
  ASSUME NEW S, hot \in Seq(S), NEW id, NEW t,
         [id |-> id, bundle |-> t, expires |-> now + HotTTL] \in S
  PROVE  Stored(id, t) \in Seq(S)
<1> DEFINE e == [id |-> id, bundle |-> t, expires |-> now + HotTTL]
           h == Append(WithoutHot(id), e)
<1>1. h \in Seq(S)
  BY WithoutHotSeq, AppendProperties
<1>2. Stored(id, t) =
        IF Len(h) > MaxHot THEN SubSeq(h, Len(h) - MaxHot + 1, Len(h)) ELSE h
  BY DEF Stored
<1> HIDE DEF h
<1>3. ASSUME Len(h) > MaxHot
      PROVE  SubSeq(h, Len(h) - MaxHot + 1, Len(h)) \in Seq(S)
  <2>1. Len(h) \in Nat /\ MaxHot \in Nat \ {0}
    BY <1>1, LenProperties, ConstantsAssumption
  <2>2. \A i \in (Len(h) - MaxHot + 1)..Len(h) : h[i] \in S
    BY <2>1, <1>1, <1>3, ElementOfSeq
  <2> QED BY <2>1, <2>2, SubSeqProperties
<1> QED BY <1>1, <1>2, <1>3

LEMMA CallBackType ==
  ASSUME NEW k \in {"call", "step", "wake"}, NEW r \in Calls
  PROVE  CallBack(k, r) \in Callback
BY DEF CallBack, Callback

LEMMA ReadySeq ==
  ASSUME ready \in Seq(Callback)
  PROVE  /\ ready # <<>> => Tail(ready) \in Seq(Callback)
         /\ \A k \in {"call", "step", "wake"}, r \in Calls :
              /\ Append(ready, CallBack(k, r)) \in Seq(Callback)
              /\ ready # <<>> =>
                   Append(Tail(ready), CallBack(k, r)) \in Seq(Callback)
BY CallBackType, HeadTailProperties, AppendProperties

LEMMA WakeupsSeq ==
  ASSUME NEW t \in Calls, awaiters \in [Calls -> Seq(Calls)],
         ready \in Seq(Callback), ready # <<>>
  PROVE  Tail(ready) \o Wakeups(t) \in Seq(Callback)
<1>1. awaiters[t] \in Seq(Calls)
  OBVIOUS
<1>2. /\ Len(awaiters[t]) \in Nat
      /\ \A i \in 1..Len(awaiters[t]) : awaiters[t][i] \in Calls
  BY <1>1, LenProperties, ElementOfSeq
<1>3. \A i \in 1..Len(awaiters[t]) :
        CallBack("wake", awaiters[t][i]) \in Callback
  BY <1>2, CallBackType
<1>4. Wakeups(t) \in Seq(Callback)
  BY <1>2, <1>3 DEF Wakeups
<1> QED BY <1>4, ReadySeq, ConcatProperties

------------------------------------------------------------------------------
(* The step of a call that looks its id up: what it does to everything but *)
(* the clock, the ids and the cold tier. *)

CoreType ==
  /\ hot \in Seq(HotEntry)
  /\ inflight \in [Ids -> Calls \cup {NoCall}]
  /\ ready \in Seq(Callback)
  /\ phase \in [Calls -> Phases]
  /\ seen \in [Calls -> [id : Ids, at : Nat] \cup {NoEntry}]
  /\ awaits \in [Calls -> Calls \cup {NoCall}]
  /\ task \in [Calls -> TaskStates]
  /\ query \in [Calls -> Spellings \cup {NoEntry}]
  /\ awaiters \in [Calls -> Seq(Calls)]
  /\ answer \in [Calls -> Answers \cup {NoEntry}]
  /\ log \in Seq(Calls)

Core == CoreType /\ Places /\ Flight /\ HotSound /\ AnswerSound

(* The step changes no task but r's own, and that one materializes s. *)
OwnTask(r, s) ==
  \A t \in Calls :
    \/ task'[t] = task[t] /\ query'[t] = query[t]
    \/ t = r /\ query'[t] = s

(* Bundles that answered or were stored stay as they were. *)
LEMMA GoodEntriesKept ==
  ASSUME TypeOK, Places, NEW r \in Calls, phase[r] = "queued",
         NEW v, seen' = [seen EXCEPT ![r] = v],
         \A t \in Calls \ {r} : task'[t] = task[t]
  PROVE  GoodEntries \subseteq GoodEntries'
<1> SUFFICES ASSUME NEW e \in GoodEntries PROVE e \in GoodEntries'
  OBVIOUS
<1>1. e \in HotEntry /\ e.bundle \in Calls /\ task[e.bundle] \in Succeeded
        /\ seen[e.bundle].id = e.id
  BY DEF GoodEntries, HotEntry
<1>2. task[r] = "none"
  BY DEF Places
<1>3. e.bundle # r
  BY <1>1, <1>2 DEF Succeeded
<1>4. task'[e.bundle] = task[e.bundle] /\ seen'[e.bundle] = seen[e.bundle]
  BY <1>1, <1>3 DEF TypeOK
<1> QED BY <1>1, <1>4 DEF GoodEntries

(* AnswerSound for one call. *)
SoundFor(r) ==
  answer[r] # NoEntry /\ answer[r].kind # "unknown" =>
    /\ seen[answer[r].by].id = seen[r].id
    /\ task[answer[r].by] \in
         IF answer[r].kind = "bundle" THEN Succeeded ELSE {"failed"}

LEMMA AnswerBy ==
  ASSUME TypeOK, NEW u \in Calls, answer[u] # NoEntry,
         answer[u].kind # "unknown"
  PROVE  answer[u].by \in Calls /\ answer[u].kind \in {"bundle", "error"}
BY DEF TypeOK, Answers

LEMMA AnswersKept ==
  ASSUME TypeOK, Places, AnswerSound, NEW r \in Calls, phase[r] = "queued",
         NEW v, seen' = [seen EXCEPT ![r] = v],
         \A t \in Calls \ {r} : task'[t] = task[t],
         NEW u \in Calls \ {r}, answer'[u] = answer[u]
  PROVE  SoundFor(u)'
<1> SUFFICES ASSUME answer[u] # NoEntry, answer[u].kind # "unknown"
             PROVE  SoundFor(u)'
  BY DEF SoundFor
<1> DEFINE t == answer[u].by
<1>1. /\ t \in Calls /\ seen[t].id = seen[u].id
      /\ task[t] \in IF answer[u].kind = "bundle" THEN Succeeded
                                                 ELSE {"failed"}
  BY AnswerBy DEF AnswerSound
<1>2. t # r
  BY <1>1 DEF Places, Succeeded
<1>3. seen'[t] = seen[t] /\ task'[t] = task[t] /\ seen'[u] = seen[u]
  BY <1>1, <1>2 DEF TypeOK
<1> QED BY <1>1, <1>3 DEF SoundFor

LEMMA ServeHotStep ==
  ASSUME IInv, NEW r \in Calls, phase[r] = "queued", NEW id \in Ids,
         seen' = [seen EXCEPT ![r] = [id |-> id, at |-> now]],
         ready # <<>>, call' = call, ServeHot(r, id)
  PROVE  Core' /\ task' = task /\ query' = query
<1> USE DEF IInv
<1> DEFINE t == hot[HotIndex(id)].bundle
<1>1. t \in Calls /\ task[t] \in Succeeded /\ seen[t].id = id
  <2>1. hot[HotIndex(id)] \in GoodEntries /\ hot[HotIndex(id)].id = id
    BY FoundInHot DEF ServeHot, HotHit, HotSound
  <2> QED BY <2>1 DEF GoodEntries, HotEntry
<1>2. /\ task' = task /\ query' = query /\ awaits' = awaits
      /\ inflight' = inflight /\ awaiters' = awaiters
      /\ answer' = [answer EXCEPT ![r] = BundleAnswer(t, "hot")]
      /\ phase' = [phase EXCEPT ![r] = "answered"]
      /\ log' = Append(log, r) /\ ready' = Tail(ready) /\ hot' = Touched(id)
  BY DEF ServeHot, Answer, tasks
<1> HIDE DEF t
<1>3. BundleAnswer(t, "hot") \in Answers
  BY <1>1 DEF BundleAnswer, Answers, TypeOK
<1>4. hot' \in Seq(GoodEntries)
  BY <1>2, TouchedSeq DEF HotSound, ServeHot, HotHit
<1>5. HotSound'
  BY <1>2, <1>4, GoodEntriesKept, SeqMonotonic DEF HotSound
<1>6. [id |-> id, at |-> now] \in [id : Ids, at : Nat]
  BY DEF TypeOK
<1>7. CoreType'
  <2>1. hot' \in Seq(HotEntry)
    BY <1>2, TouchedSeq DEF ServeHot, HotHit, TypeOK
  <2>2. log' \in Seq(Calls) /\ ready' \in Seq(Callback)
    BY <1>2, ReadySeq, AppendProperties DEF TypeOK
  <2> QED BY <1>2, <1>3, <1>6, <2>1, <2>2 DEF CoreType, TypeOK, Phases
<1>8. task[r] = "none" /\ seen[r] = NoEntry /\ answer[r] = NoEntry
  BY DEF Places
<1>9. Places'
  BY <1>2, <1>3, <1>6, <1>8, NoEntryAssumption DEF Places, TypeOK
<1>10. Flight'
  BY <1>2, <1>8 DEF Flight, TypeOK, Running, Places
<1>11. AnswerSound'
  <2>1. ASSUME NEW u \in Calls \ {r} PROVE SoundFor(u)'
    BY <1>2, AnswersKept DEF TypeOK
  <2>2. SoundFor(r)'
    <3>1. answer'[r] = BundleAnswer(t, "hot") /\ t # r
      BY <1>1, <1>2, <1>8 DEF TypeOK, Succeeded
    <3>2. seen'[t] = seen[t] /\ seen'[r].id = id
      BY <1>1, <3>1 DEF TypeOK
    <3> QED BY <1>1, <1>2, <3>1, <3>2 DEF SoundFor, BundleAnswer
  <2> QED BY <2>1, <2>2 DEF AnswerSound, SoundFor
<1> QED BY <1>2, <1>5, <1>7, <1>9, <1>10, <1>11 DEF Core

LEMMA StartTaskStep ==
  ASSUME IInv, NEW r \in Calls, phase[r] = "queued", NEW id \in Ids,
         seen' = [seen EXCEPT ![r] = [id |-> id, at |-> now]],
         NEW s \in Spellings,
         ready # <<>>, call' = call, StartTask(r, id, s)
  PROVE  Core' /\ OwnTask(r, s)
<1> USE DEF IInv
<1>1. /\ inflight[id] = NoCall
      /\ inflight' = [inflight EXCEPT ![id] = r]
      /\ task' = [task EXCEPT ![r] = "created"]
      /\ query' = [query EXCEPT ![r] = s]
      /\ awaiters' = [awaiters EXCEPT ![r] = <<r>>]
      /\ awaits' = [awaits EXCEPT ![r] = r]
      /\ phase' = [phase EXCEPT ![r] = "owner"]
      /\ ready' = Append(Tail(ready), CallBack("step", r))
      /\ hot' = WithoutHot(id)
      /\ answer' = answer /\ log' = log
  BY DEF StartTask
<1>2. [id |-> id, at |-> now] \in [id : Ids, at : Nat]
  BY DEF TypeOK
<1>3. task[r] = "none" /\ seen[r] = NoEntry /\ answer[r] = NoEntry
  BY DEF Places
<1>4. \A t \in Calls \ {r} : task'[t] = task[t]
  BY <1>1 DEF TypeOK
<1>5. HotSound'
  BY <1>1, <1>4, GoodEntriesKept, WithoutHotSeq, SeqMonotonic DEF HotSound
<1>6. CoreType'
  <2>1. hot' \in Seq(HotEntry)
    BY <1>1, WithoutHotSeq DEF TypeOK
  <2>2. ready' \in Seq(Callback) /\ <<r>> \in Seq(Calls)
    BY <1>1, ReadySeq DEF TypeOK
  <2> QED BY <1>1, <1>2, <2>1, <2>2
          DEF CoreType, TypeOK, Phases, TaskStates, Running
<1>7. Places'
  BY <1>1, <1>2, <1>3, NoEntryAssumption DEF Places, TypeOK
<1>8. Flight'
  <2>1. NoCall \notin Calls
    BY ConstantsAssumption
  <2>2. seen'[r].id = id /\ \A t \in Calls \ {r} : seen'[t] = seen[t]
    BY DEF TypeOK
  <2>3. \A i \in Ids : inflight[i] # r
    BY <2>1, ConstantsAssumption DEF Flight
  <2>4. \A i \in Ids : inflight'[i] # NoCall =>
          phase'[inflight'[i]] = "owner" /\ seen'[inflight'[i]].id = i
    BY <1>1, <2>1, <2>2, <2>3 DEF Flight, TypeOK
  <2>5. \A t \in Calls : phase'[t] = "owner" => inflight'[seen'[t].id] = t
    <3>1. ASSUME NEW t \in Calls \ {r}, phase[t] = "owner"
          PROVE  inflight'[seen[t].id] = t
      <4>1. inflight[seen[t].id] = t /\ seen[t].id \in Ids
        BY <3>1 DEF Flight, Places, TypeOK
      <4>2. seen[t].id # id
        BY <4>1, <1>1, <2>1
      <4> QED BY <1>1, <4>1, <4>2 DEF TypeOK
    <3> QED BY <1>1, <2>2, <3>1 DEF TypeOK
  <2>6. \A t \in Calls : task'[t] \in Running => phase'[t] = "owner"
    BY <1>1 DEF Flight, TypeOK
  <2> QED BY <2>4, <2>5, <2>6 DEF Flight
<1>9. AnswerSound'
  <2>1. ASSUME NEW u \in Calls \ {r} PROVE SoundFor(u)'
    BY <1>1, <1>4, AnswersKept DEF TypeOK
  <2>2. SoundFor(r)'
    BY <1>1, <1>3 DEF SoundFor
  <2> QED BY <2>1, <2>2 DEF AnswerSound, SoundFor
<1>10. OwnTask(r, s)
  BY <1>1 DEF OwnTask, TypeOK
<1> QED BY <1>5, <1>6, <1>7, <1>8, <1>9, <1>10 DEF Core

LEMMA JoinTaskStep ==
  ASSUME IInv, NEW r \in Calls, phase[r] = "queued", NEW id \in Ids,
         seen' = [seen EXCEPT ![r] = [id |-> id, at |-> now]],
         ready # <<>>, call' = call, JoinTask(r, id)
  PROVE  Core' /\ task' = task /\ query' = query
<1> USE DEF IInv
<1> DEFINE t == inflight[id]
<1>1. t \in Calls /\ phase[t] = "owner" /\ seen[t].id = id /\ task[t] # "none"
  BY DEF JoinTask, Flight, Places, TypeOK
<1>2. /\ task' = task /\ query' = query /\ inflight' = inflight
      /\ awaits' = [awaits EXCEPT ![r] = t]
      /\ awaiters' = [awaiters EXCEPT ![t] = Append(@, r)]
      /\ phase' = [phase EXCEPT ![r] = "waiter"]
      /\ hot' = WithoutHot(id) /\ ready' = Tail(ready)
      /\ answer' = answer /\ log' = log
  BY DEF JoinTask, tasks
<1> HIDE DEF t
<1>3. [id |-> id, at |-> now] \in [id : Ids, at : Nat]
  BY DEF TypeOK
<1>4. task[r] = "none" /\ seen[r] = NoEntry /\ answer[r] = NoEntry /\ t # r
  BY <1>1 DEF Places
<1>5. HotSound'
  BY <1>2, GoodEntriesKept, WithoutHotSeq, SeqMonotonic DEF HotSound
<1>6. CoreType'
  <2>1. hot' \in Seq(HotEntry)
    BY <1>2, WithoutHotSeq DEF TypeOK
  <2>2. ready' \in Seq(Callback) /\ Append(awaiters[t], r) \in Seq(Calls)
    BY <1>1, <1>2, ReadySeq, AppendProperties DEF TypeOK
  <2> QED BY <1>1, <1>2, <1>3, <2>1, <2>2 DEF CoreType, TypeOK, Phases
<1>7. Places'
  BY <1>1, <1>2, <1>3, <1>4, NoEntryAssumption DEF Places, TypeOK
<1>8. Flight'
  BY <1>1, <1>2, <1>4 DEF Flight, TypeOK, Running, Places
<1>9. AnswerSound'
  <2>1. ASSUME NEW u \in Calls \ {r} PROVE SoundFor(u)'
    BY <1>2, AnswersKept DEF TypeOK
  <2>2. SoundFor(r)'
    BY <1>2, <1>4 DEF SoundFor
  <2> QED BY <2>1, <2>2 DEF AnswerSound, SoundFor
<1> QED BY <1>2, <1>5, <1>6, <1>7, <1>8, <1>9 DEF Core

(* Storing the bundle of a finished task of address id keeps the hot tier  *)
(* sound; so does the tier a caller already found to be.                   *)
LEMMA TakeResultHot ==
  ASSUME TypeOK, HotSound, NEW r \in Calls, NEW id \in Ids, NEW t \in Calls,
         NEW h \in Seq(GoodEntries), seen[t].id = id,
         TakeResult(r, id, t, h)
  PROVE  hot' \in Seq(GoodEntries)
<1>1. CASE task[t] \in Succeeded /\ hot' = Stored(id, t)
  <2>1. [id |-> id, bundle |-> t, expires |-> now + HotTTL] \in GoodEntries
    BY <1>1, ConstantsAssumption DEF TypeOK, GoodEntries, HotEntry
  <2> QED BY <1>1, <2>1, StoredSeq DEF HotSound
<1>2. CASE hot' = h
  BY <1>2
<1> QED BY <1>1, <1>2 DEF TakeResult

LEMMA TakeResultAnswer ==
  ASSUME TypeOK, NEW r \in Calls, NEW id \in Ids, NEW t \in Calls, NEW h,
         TakeResult(r, id, t, h)
  PROVE  /\ task[t] \in Done
         /\ phase' = [phase EXCEPT ![r] = "answered"]
         /\ log' = Append(log, r) /\ log' \in Seq(Calls)
         /\ \E a \in Answers :
              /\ answer' = [answer EXCEPT ![r] = a]
              /\ a.kind # "unknown" /\ a.by = t
              /\ task[t] \in IF a.kind = "bundle" THEN Succeeded ELSE {"failed"}
<1> DEFINE b == BundleAnswer(t, "task")
           e == [kind |-> "error", by |-> t, via |-> "task", at |-> now]
<1>1. log' = Append(log, r) /\ log' \in Seq(Calls)
  <2>1. log' = Append(log, r)
    BY DEF TakeResult, Answer
  <2> QED BY <2>1, AppendProperties DEF TypeOK
<1>2. CASE task[t] \in Succeeded /\ Answer(r, b)
  <2>1. b \in Answers /\ b.kind = "bundle" /\ b.by = t
    BY DEF BundleAnswer, Answers, TypeOK
  <2>2. answer' = [answer EXCEPT ![r] = b]
          /\ phase' = [phase EXCEPT ![r] = "answered"]
    BY <1>2 DEF Answer
  <2> HIDE DEF b
  <2> QED BY <1>1, <1>2, <2>1, <2>2 DEF Done
<1>3. CASE task[t] = "failed" /\ Answer(r, e)
  <2>1. e \in Answers /\ e.kind = "error" /\ e.by = t
    BY DEF Answers, TypeOK
  <2>2. answer' = [answer EXCEPT ![r] = e]
          /\ phase' = [phase EXCEPT ![r] = "answered"]
    BY <1>3 DEF Answer
  <2> HIDE DEF e
  <2> QED BY <1>1, <1>3, <2>1, <2>2 DEF Done
<1> QED BY <1>2, <1>3 DEF TakeResult

LEMMA TakeDoneStep ==
  ASSUME IInv, NEW r \in Calls, phase[r] = "queued", NEW id \in Ids,
         seen' = [seen EXCEPT ![r] = [id |-> id, at |-> now]],
         ready # <<>>, call' = call, TakeDone(r, id)
  PROVE  Core' /\ task' = task /\ query' = query
<1> USE DEF IInv
<1> DEFINE t == inflight[id]
<1>1. t \in Calls /\ phase[t] = "owner" /\ seen[t].id = id /\ task[t] # "none"
  BY DEF TakeDone, Flight, Places, TypeOK
<1>2. /\ task' = task /\ query' = query /\ inflight' = inflight
      /\ awaits' = [awaits EXCEPT ![r] = t]
      /\ awaiters' = awaiters /\ ready' = Tail(ready)
      /\ TakeResult(r, id, t, WithoutHot(id))
  BY DEF TakeDone, tasks
<1> HIDE DEF t
<1>3. PICK a \in Answers :
        /\ answer' = [answer EXCEPT ![r] = a]
        /\ a.kind # "unknown" /\ a.by = t
        /\ task[t] \in IF a.kind = "bundle" THEN Succeeded ELSE {"failed"}
  BY <1>1, <1>2, TakeResultAnswer
<1>4. phase' = [phase EXCEPT ![r] = "answered"] /\ log' \in Seq(Calls)
  BY <1>1, <1>2, TakeResultAnswer
<1>5. [id |-> id, at |-> now] \in [id : Ids, at : Nat]
  BY DEF TypeOK
<1>6. task[r] = "none" /\ seen[r] = NoEntry /\ answer[r] = NoEntry /\ t # r
  BY <1>1 DEF Places
<1>7. hot' \in Seq(GoodEntries)
  BY <1>1, <1>2, WithoutHotSeq, TakeResultHot DEF HotSound
<1>8. HotSound'
  BY <1>2, <1>7, GoodEntriesKept, SeqMonotonic DEF HotSound
<1>9. CoreType'
  <2>1. hot' \in Seq(HotEntry)
    BY <1>7, SeqMonotonic DEF GoodEntries
  <2>2. ready' \in Seq(Callback)
    BY <1>2, ReadySeq DEF TypeOK
  <2> QED BY <1>1, <1>2, <1>3, <1>4, <1>5, <2>1, <2>2
          DEF CoreType, TypeOK, Phases
<1>10. Places'
  BY <1>1, <1>2, <1>3, <1>4, <1>5, <1>6, NoEntryAssumption DEF Places, TypeOK
<1>11. Flight'
  BY <1>1, <1>2, <1>4, <1>6 DEF Flight, TypeOK, Running, Places
<1>12. AnswerSound'
  <2>1. ASSUME NEW u \in Calls \ {r} PROVE SoundFor(u)'
    BY <1>2, <1>3, AnswersKept DEF TypeOK
  <2>2. SoundFor(r)'
    <3>1. answer'[r] = a /\ seen'[t] = seen[t] /\ seen'[r].id = id
      BY <1>1, <1>3, <1>6 DEF TypeOK
    <3> QED BY <1>1, <1>2, <1>3, <3>1 DEF SoundFor
  <2> QED BY <2>1, <2>2 DEF AnswerSound, SoundFor
<1> QED BY <1>2, <1>8, <1>9, <1>10, <1>11, <1>12 DEF Core

LEMMA UnknownStep ==
  ASSUME IInv, NEW r \in Calls, phase[r] = "queued", NEW id \in Ids,
         seen' = [seen EXCEPT ![r] = [id |-> id, at |-> now]],
         ready # <<>>, call' = call, Unknown(r, id)
  PROVE  Core' /\ task' = task /\ query' = query
<1> USE DEF IInv
<1> DEFINE a == [kind |-> "unknown", at |-> now]
<1>1. a \in Answers /\ a.kind = "unknown"
  BY DEF Answers, TypeOK
<1>2. /\ task' = task /\ query' = query /\ inflight' = inflight
      /\ awaits' = awaits /\ awaiters' = awaiters /\ ready' = Tail(ready)
      /\ hot' = WithoutHot(id)
      /\ answer' = [answer EXCEPT ![r] = a]
      /\ phase' = [phase EXCEPT ![r] = "answered"]
      /\ log' = Append(log, r)
  BY DEF Unknown, Answer, tasks
<1> HIDE DEF a
<1>3. [id |-> id, at |-> now] \in [id : Ids, at : Nat]
  BY DEF TypeOK
<1>4. task[r] = "none" /\ seen[r] = NoEntry
  BY DEF Places
<1>5. HotSound'
  BY <1>2, GoodEntriesKept, WithoutHotSeq, SeqMonotonic DEF HotSound
<1>6. CoreType'
  <2>1. hot' \in Seq(HotEntry)
    BY <1>2, WithoutHotSeq DEF TypeOK
  <2>2. ready' \in Seq(Callback) /\ log' \in Seq(Calls)
    BY <1>2, ReadySeq, AppendProperties DEF TypeOK
  <2> QED BY <1>1, <1>2, <1>3, <2>1, <2>2 DEF CoreType, TypeOK, Phases
<1>7. Places'
  BY <1>1, <1>2, <1>3, <1>4, NoEntryAssumption DEF Places, TypeOK
<1>8. Flight'
  BY <1>2, <1>4 DEF Flight, TypeOK, Running, Places
<1>9. AnswerSound'
  <2>1. ASSUME NEW u \in Calls \ {r} PROVE SoundFor(u)'
    BY <1>2, AnswersKept DEF TypeOK
  <2>2. SoundFor(r)'
    BY <1>1, <1>2 DEF SoundFor, TypeOK
  <2> QED BY <2>1, <2>2 DEF AnswerSound, SoundFor
<1> QED BY <1>2, <1>5, <1>6, <1>7, <1>8, <1>9 DEF Core

------------------------------------------------------------------------------
(* The ids: minted once per key, kept with spellings of that key. *)

(* What a call step that looked up id, for spelling s, does to the ids     *)
(* once it has set byKey, nextId and cold.                                 *)
LEMMA KeySoundStep ==
  ASSUME IInv, Core', NEW r \in Calls, phase[r] = "queued",
         NEW id \in Ids, NEW s,
         seen' = [seen EXCEPT ![r] = [id |-> id, at |-> now]], call' = call,
         \/ OwnTask(r, s) /\ byKey'[KeyOf[s]] = id
         \/ task' = task /\ query' = query,
         byKey' \in [Keys -> Ids \cup {NoEntry}],
         \A k \in Keys : byKey[k] # NoEntry => byKey'[k] = byKey[k],
         call[r].op = "resolve" => byKey'[KeyOf[call[r].spelling]] = id
  PROVE  /\ \A t \in Calls : task'[t] # "none" =>
              byKey'[KeyOf[query'[t]]] = seen'[t].id
         /\ \A t \in Calls : seen'[t] # NoEntry /\ call'[t].op = "resolve" =>
              byKey'[KeyOf[call'[t].spelling]] = seen'[t].id
<1> USE DEF IInv
<1>1. seen'[r].id = id /\ \A t \in Calls \ {r} : seen'[t] = seen[t]
  BY DEF TypeOK
<1>2. NoEntry \notin Ids /\ KeyOf \in [Spellings -> Keys]
  BY NoEntryAssumption, ConstantsAssumption
<1>3. task[r] = "none"
  BY DEF Places
<1>4. ASSUME NEW t \in Calls, task'[t] # "none"
      PROVE  byKey'[KeyOf[query'[t]]] = seen'[t].id
  <2>1. CASE t = r
    BY <2>1, <1>1, <1>3, <1>4 DEF OwnTask
  <2>2. CASE t # r
    <3>1. task'[t] = task[t] /\ query'[t] = query[t]
      BY <2>2 DEF OwnTask
    <3>2. /\ query[t] \in Spellings /\ seen[t] # NoEntry
          /\ byKey[KeyOf[query[t]]] = seen[t].id /\ seen[t].id \in Ids
      BY <1>4, <3>1 DEF KeySound, Places, TypeOK
    <3> QED BY <1>1, <1>2, <2>2, <3>1, <3>2
  <2> QED BY <2>1, <2>2
<1>5. ASSUME NEW t \in Calls, seen'[t] # NoEntry, call'[t].op = "resolve"
      PROVE  byKey'[KeyOf[call'[t].spelling]] = seen'[t].id
  <2>1. CASE t = r
    BY <2>1, <1>1, <1>5
  <2>2. CASE t # r
    <3>1. seen[t] # NoEntry /\ phase[t] # "unsent"
      BY <1>1, <1>5, <2>2 DEF Places
    <3>2. call[t] \in Requests /\ call[t].spelling \in Spellings
      BY <3>1, <1>5 DEF Places, Requests
    <3>3. byKey[KeyOf[call[t].spelling]] = seen[t].id /\ seen[t].id \in Ids
      BY <3>1, <1>5 DEF KeySound, TypeOK
    <3> QED BY <1>1, <1>2, <1>5, <2>2, <3>2, <3>3
  <2> QED BY <2>1, <2>2
<1> QED BY <1>4, <1>5

LEMMA ResolveStep ==
  ASSUME IInv, NEW r \in Calls, Resolve(r)
  PROVE  IInv'
<1> USE DEF IInv
<1> DEFINE s  == call[r].spelling
           k  == KeyOf[s]
           id == IdFor(k)
<1>1. /\ ready # <<>> /\ phase[r] = "queued" /\ call[r].op = "resolve"
      /\ id \in Ids
      /\ byKey' = [byKey EXCEPT ![k] = id]
      /\ nextId' = IF byKey[k] = NoEntry THEN nextId + 1 ELSE nextId
      /\ cold' = [cold EXCEPT ![id] = [spelling |-> s,
                                      expires |-> now + ColdTTL]]
      /\ seen' = [seen EXCEPT ![r] = [id |-> id, at |-> now]]
      /\ ServeHot(r, id) \/ MaterializeOnce(r, id, s)
      /\ now' = now /\ call' = call
  BY DEF Resolve, Runs
<1>2. s \in Spellings /\ k \in Keys
  BY <1>1, ConstantsAssumption DEF Places, Requests
<1>3. id = IF byKey[k] = NoEntry THEN nextId ELSE byKey[k]
  BY DEF IdFor
<1> HIDE DEF s, id
<1>4. Core' /\ (OwnTask(r, s) \/ (task' = task /\ query' = query))
  BY <1>1, <1>2, ServeHotStep, StartTaskStep, JoinTaskStep, TakeDoneStep
     DEF MaterializeOnce
<1>5. NoEntry \notin Ids
  BY NoEntryAssumption
<1>6. byKey' \in [Keys -> Ids \cup {NoEntry}] /\ byKey'[k] = id
  BY <1>1, <1>2 DEF TypeOK
<1>7. \A l \in Keys : byKey[l] # NoEntry => byKey'[l] = byKey[l]
  BY <1>1, <1>2, <1>3 DEF TypeOK
<1>8. TypeOK'
  <2>1. [spelling |-> s, expires |-> now + ColdTTL] \in ColdEntry
    BY <1>2, ConstantsAssumption DEF ColdEntry, TypeOK
  <2>2. now' \in Nat /\ nextId' \in Nat \ {0}
          /\ cold' \in [Ids -> ColdEntry \cup {NoEntry}]
          /\ call' \in [Calls -> Requests \cup {NoEntry}]
    BY <1>1, <2>1 DEF TypeOK
  <2> QED BY <1>4, <1>6, <2>2 DEF Core, CoreType, TypeOK
<1>9. KeySound'
  <2>1. \A t \in Calls :
          /\ task'[t] # "none" => byKey'[KeyOf[query'[t]]] = seen'[t].id
          /\ seen'[t] # NoEntry /\ call'[t].op = "resolve" =>
               byKey'[KeyOf[call'[t].spelling]] = seen'[t].id
    BY <1>1, <1>2, <1>4, <1>6, <1>7, KeySoundStep DEF s
  <2>2. ASSUME NEW l \in Keys, byKey'[l] # NoEntry
        PROVE  /\ byKey'[l] < nextId'
               /\ \A m \in Keys : byKey'[m] = byKey'[l] => m = l
    <3>1. CASE byKey[k] = NoEntry
      <4>1. byKey' = [byKey EXCEPT ![k] = nextId] /\ nextId' = nextId + 1
              /\ nextId \in Nat
        BY <3>1, <1>1, <1>3 DEF TypeOK
      <4>2. \A m \in Keys : byKey[m] # NoEntry =>
               byKey[m] \in Nat /\ byKey[m] < nextId
        BY DEF KeySound, TypeOK, Ids
      <4> QED BY <1>2, <1>3, <1>5, <2>2, <3>1, <4>1, <4>2 DEF KeySound, TypeOK
    <3>2. CASE byKey[k] # NoEntry
      <4>1. byKey' = byKey /\ nextId' = nextId
        BY <3>2, <1>1, <1>2, <1>3 DEF TypeOK
      <4> QED BY <2>2, <4>1 DEF KeySound
    <3> QED BY <3>1, <3>2
  <2>3. ASSUME NEW i \in Ids, cold'[i] # NoEntry
        PROVE  byKey'[KeyOf[cold'[i].spelling]] = i
    <3>1. CASE i = id
      BY <3>1, <1>1, <1>6 DEF TypeOK
    <3>2. CASE i # id
      <4>1. cold'[i] = cold[i] /\ cold[i].spelling \in Spellings
        BY <3>2, <1>1, <2>3 DEF TypeOK, ColdEntry
      <4>2. byKey[KeyOf[cold[i].spelling]] = i /\ KeyOf[cold[i].spelling] \in Keys
        BY <2>3, <4>1, ConstantsAssumption DEF KeySound
      <4> QED BY <1>5, <1>7, <4>1, <4>2
    <3> QED BY <3>1, <3>2
  <2> QED BY <2>1, <2>2, <2>3 DEF KeySound
<1> QED BY <1>4, <1>8, <1>9 DEF Core

LEMMA GetStep ==
  ASSUME IInv, NEW r \in Calls, Get(r)
  PROVE  IInv'
<1> USE DEF IInv
<1> DEFINE id == call[r].id
<1>1. /\ ready # <<>> /\ phase[r] = "queued" /\ call[r].op = "get"
      /\ byKey' = byKey /\ nextId' = nextId /\ now' = now /\ call' = call
      /\ seen' = [seen EXCEPT ![r] = [id |-> id, at |-> now]]
      /\ \/ ServeHot(r, id) /\ cold' = cold
         \/ Unknown(r, id)
         \/ /\ ColdHit(id) /\ cold' = cold
            /\ MaterializeOnce(r, id, cold[id].spelling)
  BY DEF Get, Runs
<1>2. id \in Ids
  BY <1>1 DEF Places, Requests
<1> HIDE DEF id
<1>3. /\ Core'
      /\ \/ task' = task /\ query' = query
         \/ cold[id] # NoEntry /\ OwnTask(r, cold[id].spelling)
  <2>1. CASE ServeHot(r, id)
    BY <1>1, <1>2, <2>1, ServeHotStep
  <2>2. CASE Unknown(r, id)
    BY <1>1, <1>2, <2>2, UnknownStep
  <2>3. CASE ColdHit(id) /\ MaterializeOnce(r, id, cold[id].spelling)
    <3>1. cold[id] # NoEntry /\ cold[id].spelling \in Spellings
      BY <1>2, <2>3 DEF ColdHit, ColdEntry, TypeOK
    <3> QED BY <1>1, <1>2, <2>3, <3>1, StartTaskStep, JoinTaskStep,
               TakeDoneStep DEF MaterializeOnce
  <2> QED BY <1>1, <2>1, <2>2, <2>3
<1>4. cold' \in [Ids -> ColdEntry \cup {NoEntry}]
        /\ \A i \in Ids : cold'[i] = cold[i] \/ cold'[i] = NoEntry
  BY <1>1, <1>2 DEF Unknown, TypeOK
<1>5. TypeOK'
  <2>1. /\ now' \in Nat /\ nextId' \in Nat \ {0}
        /\ byKey' \in [Keys -> Ids \cup {NoEntry}]
        /\ call' \in [Calls -> Requests \cup {NoEntry}]
    BY <1>1 DEF TypeOK
  <2>2. CoreType'
    BY <1>3 DEF Core
  <2> QED BY <1>4, <2>1, <2>2 DEF CoreType, TypeOK
<1>6. KeySound'
  <2>1. call[r].op # "resolve" /\ byKey' \in [Keys -> Ids \cup {NoEntry}]
    BY <1>1 DEF TypeOK
  <2>2. \A t \in Calls :
          /\ task'[t] # "none" => byKey'[KeyOf[query'[t]]] = seen'[t].id
          /\ seen'[t] # NoEntry /\ call'[t].op = "resolve" =>
               byKey'[KeyOf[call'[t].spelling]] = seen'[t].id
    <3>1. CASE task' = task /\ query' = query
      BY <1>1, <1>2, <1>3, <2>1, <3>1, KeySoundStep
    <3>2. CASE cold[id] # NoEntry /\ OwnTask(r, cold[id].spelling)
      <4>1. cold[id].spelling \in Spellings
              /\ byKey'[KeyOf[cold[id].spelling]] = id
        BY <1>1, <1>2, <3>2 DEF KeySound, ColdEntry, TypeOK
      <4> QED BY <1>1, <1>2, <1>3, <2>1, <3>2, <4>1, KeySoundStep
    <3> QED BY <1>3, <3>1, <3>2
  <2>3. \A i \in Ids : cold'[i] # NoEntry =>
          byKey'[KeyOf[cold'[i].spelling]] = i
    BY <1>1, <1>4 DEF KeySound
  <2>4. \A k \in Keys : byKey'[k] # NoEntry =>
          byKey'[k] < nextId' /\ \A l \in Keys : byKey'[l] = byKey'[k] => l = k
    BY <1>1 DEF KeySound
  <2> QED BY <2>2, <2>3, <2>4 DEF KeySound
<1>7. Places' /\ Flight' /\ HotSound' /\ AnswerSound'
  BY <1>3 DEF Core
<1> QED BY <1>5, <1>6, <1>7

------------------------------------------------------------------------------
(* The other steps. *)

LEMMA ArriveStep ==
  ASSUME IInv, NEW r \in Calls, NEW q \in Requests, Arrive(r, q)
  PROVE  IInv'
<1> USE DEF IInv
<1>1. /\ phase[r] = "unsent"
      /\ call' = [call EXCEPT ![r] = q]
      /\ phase' = [phase EXCEPT ![r] = "queued"]
      /\ ready' = Append(ready, CallBack("call", r))
      /\ UNCHANGED <<now, cache, seen, awaits, tasks, awaiters, answer, log>>
  BY DEF Arrive
<1>2. UNCHANGED <<nextId, byKey, cold, hot, inflight, task, query>>
  BY <1>1 DEF cache, tasks
<1>3. seen[r] = NoEntry /\ task[r] = "none" /\ answer[r] = NoEntry
  BY <1>1 DEF Places, TypeOK
<1>4. TypeOK'
  <2>1. ready' \in Seq(Callback)
    BY <1>1, ReadySeq DEF TypeOK
  <2> QED BY <1>1, <1>2, <2>1 DEF TypeOK, Phases
<1>5. Places'
  BY <1>1, <1>2, <1>3 DEF Places, TypeOK
<1>6. Flight'
  BY <1>1, <1>2, <1>3 DEF Flight, TypeOK, Running
<1>7. HotSound'
  BY <1>1, <1>2 DEF HotSound, GoodEntries
<1>8. KeySound'
  BY <1>1, <1>2, <1>3 DEF KeySound, TypeOK
<1>9. AnswerSound'
  BY <1>1, <1>2 DEF AnswerSound
<1> QED BY <1>4, <1>5, <1>6, <1>7, <1>8, <1>9

(* A task that runs goes on or ends: only it and the loop's queue change,  *)
(* and nothing depends on the outcome of a running task.                   *)
LEMMA RunningStep ==
  ASSUME IInv, NEW t \in Calls, task[t] \in Running,
         NEW st \in Running \cup Done, task' = [task EXCEPT ![t] = st],
         ready' \in Seq(Callback), awaiters' \in [Calls -> Seq(Calls)],
         UNCHANGED <<now, nextId, byKey, cold, hot, inflight, call, phase,
                     seen, awaits, query, answer, log>>
  PROVE  IInv'
<1> USE DEF IInv
<1>1. task[t] \notin Done /\ task[t] # "none" /\ st # "none"
        /\ st \in TaskStates
  BY DEF Running, Done, Succeeded, TaskStates
<1>2. task'[t] = st /\ \A u \in Calls \ {t} : task'[u] = task[u]
  BY DEF TypeOK
<1>3. TypeOK'
  BY <1>1 DEF TypeOK
<1>4. Places'
  BY <1>1, <1>2 DEF Places
<1>5. Flight'
  BY <1>2 DEF Flight
<1>6. HotSound'
  <2>1. GoodEntries \subseteq GoodEntries'
    BY <1>1, <1>2 DEF GoodEntries, HotEntry, Done
  <2> QED BY <2>1, SeqMonotonic DEF HotSound
<1>7. KeySound'
  BY <1>1, <1>2 DEF KeySound
<1>8. AnswerSound'
  <2> SUFFICES ASSUME NEW u \in Calls, answer[u] # NoEntry,
                      answer[u].kind # "unknown"
               PROVE  SoundFor(u)'
    BY DEF AnswerSound, SoundFor
  <2>1. answer[u].by \in Calls
    BY AnswerBy
  <2>2. SoundFor(u)
    BY DEF AnswerSound, SoundFor
  <2>3. task[answer[u].by] \in Done
    BY <2>2 DEF SoundFor, Done
  <2> QED BY <1>1, <1>2, <2>1, <2>2, <2>3 DEF SoundFor
<1> QED BY <1>3, <1>4, <1>5, <1>6, <1>7, <1>8

LEMMA StepStep ==
  ASSUME IInv, NEW t \in Calls, Step(t)
  PROVE  IInv'
<1>1. ready # <<>> /\ TypeOK /\ Tail(ready) \in Seq(Callback)
  BY ReadySeq DEF Step, IInv, TypeOK
<1>2. UNCHANGED <<now, nextId, byKey, cold, hot, inflight, call, phase,
                  seen, awaits, query, answer, log>>
  BY DEF Step, cache
<1>3. ASSUME NEW outcome \in Done, task[t] \in Running, Finish(t, outcome)
      PROVE  IInv'
  <2>1. /\ task' = [task EXCEPT ![t] = outcome]
        /\ awaiters' = [awaiters EXCEPT ![t] = <<>>]
        /\ ready' = Tail(ready) \o Wakeups(t)
    BY <1>3 DEF Finish
  <2>2. ready' \in Seq(Callback)
    BY <1>1, <2>1, WakeupsSeq DEF TypeOK
  <2>3. awaiters' \in [Calls -> Seq(Calls)]
    BY <1>1, <2>1, EmptySeq DEF TypeOK
  <2> QED BY <1>2, <1>3, <2>1, <2>2, <2>3, RunningStep
<1>4. CASE task[t] = "created" /\ Finish(t, "full")
  BY <1>3, <1>4 DEF Running, Done, Succeeded
<1>5. CASE /\ task[t] = "created" /\ task' = [task EXCEPT ![t] = "scanning"]
           /\ ready' = Tail(ready) /\ awaiters' = awaiters
  <2>1. task[t] \in Running /\ "scanning" \in Running
    BY <1>5 DEF Running
  <2> QED BY <1>1, <1>2, <1>5, <2>1, RunningStep DEF TypeOK
<1>6. CASE task[t] = "resumed" /\ \E outcome \in Done : Finish(t, outcome)
  BY <1>3, <1>6 DEF Running
<1> QED BY <1>4, <1>5, <1>6 DEF Step

LEMMA ScanReturnsStep ==
  ASSUME IInv, NEW t \in Calls, ScanReturns(t)
  PROVE  IInv'
<1>1. /\ task[t] \in Running /\ "resumed" \in Running
      /\ task' = [task EXCEPT ![t] = "resumed"]
      /\ ready' = Append(ready, CallBack("step", t)) /\ awaiters' = awaiters
  BY DEF ScanReturns, Running
<1>2. ready' \in Seq(Callback) /\ awaiters' \in [Calls -> Seq(Calls)]
  BY <1>1, ReadySeq DEF IInv, TypeOK
<1>3. UNCHANGED <<now, nextId, byKey, cold, hot, inflight, call, phase,
                  seen, awaits, query, answer, log>>
  BY DEF ScanReturns, cache
<1> QED BY <1>1, <1>2, <1>3, RunningStep

LEMMA WakeStep ==
  ASSUME IInv, NEW r \in Calls, Wake(r)
  PROVE  IInv'
<1> USE DEF IInv
<1> DEFINE id == seen[r].id
           t  == awaits[r]
<1>1. /\ ready # <<>> /\ phase[r] \in {"owner", "waiter"}
      /\ Unregister(r, id) /\ TakeResult(r, id, t, hot)
      /\ ready' = Tail(ready)
      /\ UNCHANGED <<now, nextId, byKey, cold, call, seen, awaits, task, query,
                     awaiters>>
  BY DEF Wake, tasks
<1>2. seen[r] # NoEntry /\ id \in Ids /\ t \in Calls /\ seen[t].id = id
        /\ answer[r] = NoEntry
  BY <1>1 DEF Places, TypeOK
<1>3. phase[r] = "owner" => t = r
  BY DEF Places
<1> HIDE DEF id, t
<1>4. PICK a \in Answers :
        /\ answer' = [answer EXCEPT ![r] = a]
        /\ a.kind # "unknown" /\ a.by = t
        /\ task[t] \in IF a.kind = "bundle" THEN Succeeded ELSE {"failed"}
  BY <1>1, <1>2, TakeResultAnswer
<1>5. /\ phase' = [phase EXCEPT ![r] = "answered"] /\ log' \in Seq(Calls)
      /\ task[t] \in Done
  BY <1>1, <1>2, TakeResultAnswer
<1>6. inflight' = IF phase[r] = "owner"
                  THEN [inflight EXCEPT ![id] = NoCall] ELSE inflight
  BY <1>1 DEF Unregister
<1>7. HotSound'
  <2>1. hot' \in Seq(GoodEntries)
    BY <1>1, <1>2, TakeResultHot DEF HotSound
  <2>2. GoodEntries' = GoodEntries
    BY <1>1 DEF GoodEntries
  <2> QED BY <2>1, <2>2 DEF HotSound
<1>8. TypeOK'
  <2>1. hot' \in Seq(HotEntry)
    BY <1>7, <1>1, SeqMonotonic DEF HotSound, GoodEntries
  <2>2. ready' \in Seq(Callback)
    BY <1>1, ReadySeq DEF TypeOK
  <2> QED BY <1>1, <1>2, <1>4, <1>5, <1>6, <2>1, <2>2 DEF TypeOK, Phases
<1>9. Places'
  BY <1>1, <1>2, <1>4, <1>5, NoEntryAssumption DEF Places, TypeOK
<1>10. Flight'
  <2>1. task[r] \notin Running
    <3>1. CASE phase[r] = "owner"
      BY <1>3, <1>5, <3>1 DEF Done, Succeeded, Running
    <3>2. CASE phase[r] # "owner"
      BY <3>2 DEF Flight
    <3> QED BY <3>1, <3>2
  <2>2. \A i \in Ids : inflight'[i] # NoCall =>
          /\ inflight'[i] = inflight[i] /\ inflight[i] # r
    BY <1>1, <1>2, <1>6 DEF Flight, TypeOK, id
  <2>3. \A i \in Ids : inflight'[i] # NoCall =>
          phase'[inflight'[i]] = "owner" /\ seen'[inflight'[i]].id = i
    BY <1>1, <1>5, <2>2 DEF Flight, TypeOK
  <2>4. ASSUME NEW u \in Calls, phase'[u] = "owner"
        PROVE  inflight'[seen'[u].id] = u
    <3>1. u # r /\ phase[u] = "owner" /\ inflight[seen[u].id] = u
            /\ seen[u].id \in Ids
      BY <1>5, <2>4 DEF Flight, TypeOK, Places
    <3>2. CASE phase[r] = "owner"
      <4>1. inflight[id] = r
        BY <3>2 DEF Flight, id
      <4> QED BY <1>1, <1>2, <1>6, <3>1, <4>1 DEF TypeOK
    <3>3. CASE phase[r] # "owner"
      BY <1>1, <1>6, <3>1, <3>3
    <3> QED BY <3>2, <3>3
  <2>5. \A u \in Calls : task'[u] \in Running => phase'[u] = "owner"
    BY <1>1, <1>5, <2>1 DEF Flight, TypeOK
  <2> QED BY <2>3, <2>4, <2>5 DEF Flight
<1>11. KeySound'
  BY <1>1 DEF KeySound
<1>12. AnswerSound'
  BY <1>1, <1>2, <1>4 DEF AnswerSound, TypeOK, id
<1> QED BY <1>7, <1>8, <1>9, <1>10, <1>11, <1>12

LEMMA EvictHotStep ==
  ASSUME IInv, NEW id \in Ids, EvictHot(id)
  PROVE  IInv'
<1> USE DEF IInv
<1>1. /\ hot' = WithoutHot(id)
      /\ UNCHANGED <<now, nextId, byKey, cold, inflight, ready, call, phase,
                     seen, awaits, task, query, awaiters, answer, log>>
  BY DEF EvictHot, tasks
<1>2. hot' \in Seq(HotEntry) /\ hot' \in Seq(GoodEntries)
  BY <1>1, WithoutHotSeq DEF TypeOK, HotSound
<1>3. TypeOK'
  BY <1>1, <1>2 DEF TypeOK
<1>4. HotSound'
  BY <1>1, <1>2 DEF HotSound, GoodEntries
<1> QED BY <1>1, <1>3, <1>4
        DEF Places, Flight, KeySound, AnswerSound

LEMMA TickStep ==
  ASSUME IInv, Tick
  PROVE  IInv'
<1>1. /\ now' = now + 1
      /\ UNCHANGED <<nextId, byKey, cold, hot, inflight, ready, call, phase,
                     seen, awaits, task, query, awaiters, answer, log>>
  BY DEF Tick, cache, tasks
<1> QED BY <1>1 DEF IInv, TypeOK, Places, Flight, HotSound, GoodEntries,
                    KeySound, AnswerSound

LEMMA StutterStep ==
  ASSUME IInv, UNCHANGED vars
  PROVE  IInv'
<1>1. UNCHANGED <<now, nextId, byKey, cold, hot, inflight, ready, call, phase,
                  seen, awaits, task, query, awaiters, answer, log>>
  BY DEF vars, cache, tasks
<1> QED BY <1>1 DEF IInv, TypeOK, Places, Flight, HotSound, GoodEntries,
                    KeySound, AnswerSound

------------------------------------------------------------------------------
(* The invariant and what it gives. *)

LEMMA InitIInv == Init => IInv
<1> SUFFICES ASSUME Init PROVE IInv
  OBVIOUS
<1> USE DEF Init
<1>1. TypeOK
  BY ConstantsAssumption, EmptySeq DEF TypeOK, Phases, TaskStates
<1>2. Places /\ AnswerSound
  BY DEF Places, AnswerSound
<1>3. Flight
  BY DEF Flight, Running
<1>4. HotSound
  BY EmptySeq DEF HotSound
<1>5. KeySound
  BY DEF KeySound
<1> QED BY <1>1, <1>2, <1>3, <1>4, <1>5 DEF IInv

LEMMA NextIInv == IInv /\ [Next]_vars => IInv'
<1> SUFFICES ASSUME IInv, [Next]_vars PROVE IInv'
  OBVIOUS
<1>1. ASSUME NEW r \in Calls, NEW q \in Requests, Arrive(r, q) PROVE IInv'
  BY <1>1, ArriveStep
<1>2. ASSUME NEW r \in Calls, Resolve(r) PROVE IInv'
  BY <1>2, ResolveStep
<1>3. ASSUME NEW r \in Calls, Get(r) PROVE IInv'
  BY <1>3, GetStep
<1>4. ASSUME NEW r \in Calls, Step(r) PROVE IInv'
  BY <1>4, StepStep
<1>5. ASSUME NEW r \in Calls, ScanReturns(r) PROVE IInv'
  BY <1>5, ScanReturnsStep
<1>6. ASSUME NEW r \in Calls, Wake(r) PROVE IInv'
  BY <1>6, WakeStep
<1>7. ASSUME NEW id \in Ids, EvictHot(id) PROVE IInv'
  BY <1>7, EvictHotStep
<1>8. CASE Tick
  BY <1>8, TickStep
<1>9. CASE Idle
  BY <1>9, StutterStep DEF Idle
<1>10. CASE UNCHANGED vars
  BY <1>10, StutterStep
<1> QED BY <1>1, <1>2, <1>3, <1>4, <1>5, <1>6, <1>7, <1>8, <1>9, <1>10 DEF Next

(* IInv is an invariant: places, registrations, hot entries, ids and       *)
(* answers stay consistent over every interleaving of calls and tasks.     *)
THEOREM Invariance == Spec => []IInv
<1>1. IInv /\ [Next]_vars => IInv'
  BY NextIInv
<1> QED BY InitIInv, <1>1, PTL DEF Spec

(* Every variable keeps its type. *)
THEOREM TypeCorrect == Spec => []TypeOK
<1>1. IInv => TypeOK
  BY DEF IInv
<1> QED BY <1>1, Invariance, PTL

(* _materialize_once never has two scans of one address in flight: a       *)
(* running task has an owner that awaits it, and an owner is registered.   *)
THEOREM OneScanPerAddress == Spec => []SingleFlight
<1>1. IInv => SingleFlight
  BY DEF IInv, Flight, SingleFlight
<1> QED BY <1>1, Invariance, PTL

(* No call is answered with the bundle of another address: hot entries,    *)
(* registrations and cold entries under an id all stem from its one key.   *)
THEOREM BundlesOfOwnAddress == Spec => []OwnAddress
<1>1. ASSUME IInv PROVE OwnAddress
  <2> SUFFICES ASSUME NEW r \in Calls, answer[r] # NoEntry,
                      answer[r].kind = "bundle"
               PROVE  /\ byKey[KeyOf[query[answer[r].by]]] = seen[r].id
                      /\ call[r].op = "resolve" =>
                           KeyOf[call[r].spelling] = KeyOf[query[answer[r].by]]
    BY DEF OwnAddress
  <2> DEFINE t == answer[r].by
  <2>1. t \in Calls /\ task[t] # "none" /\ seen[t].id = seen[r].id
    BY <1>1, AnswerBy DEF IInv, AnswerSound, Succeeded
  <2>2. seen[r] # NoEntry /\ seen[r].id \in Ids /\ call[r] \in Requests
    BY <1>1 DEF IInv, Places, TypeOK, Phases
  <2>3. query[t] \in Spellings /\ byKey[KeyOf[query[t]]] = seen[r].id
    BY <1>1, <2>1 DEF IInv, Places, KeySound
  <2>4. ASSUME call[r].op = "resolve"
        PROVE  KeyOf[call[r].spelling] = KeyOf[query[t]]
    <3>1. call[r].spelling \in Spellings
            /\ byKey[KeyOf[call[r].spelling]] = seen[r].id
      BY <1>1, <2>2, <2>4 DEF IInv, KeySound, Requests
    <3>2. KeyOf[call[r].spelling] \in Keys /\ KeyOf[query[t]] \in Keys
            /\ seen[r].id # NoEntry
      BY <2>2, <2>3, <3>1, ConstantsAssumption, NoEntryAssumption
    <3> QED BY <1>1, <2>3, <3>1, <3>2 DEF IInv, KeySound
  <2> QED BY <2>3, <2>4
<1> QED BY <1>1, Invariance, PTL

------------------------------------------------------------------------------
(* BundleCache implements AddressService: every step of the event loop is  *)
(* a step of the abstract service, or one it does not see.                 *)

(* The abstract values that a step's changes map to. *)

LEMMA AskMap ==
  ASSUME IInv, NEW r \in Calls, phase[r] = "queued", NEW id \in Ids,
         seen' = [seen EXCEPT ![r] = [id |-> id, at |-> now]]
  PROVE  AboutId[r] = NoEntry /\ AboutId' = [AboutId EXCEPT ![r] = id]
<1> DEFINE e == [id |-> id, at |-> now]
<1>1. seen[r] = NoEntry /\ AboutOf(NoEntry) = NoEntry
  BY DEF IInv, Places, AboutOf
<1>2. AboutOf(e) = id
  BY NoEntryAssumption DEF IInv, TypeOK, AboutOf
<1>3. seen' = [seen EXCEPT ![r] = e] /\ DOMAIN seen = Calls
  BY DEF IInv, TypeOK
<1> HIDE DEF e
<1> QED BY <1>1, <1>2, <1>3 DEF AboutId

LEMMA TellMap ==
  ASSUME IInv, NEW r \in Calls, answer[r] = NoEntry, NEW a \in Answers,
         answer' = [answer EXCEPT ![r] = a]
  PROVE  Reply[r] = NoEntry /\ Reply' = [Reply EXCEPT ![r] = ReplyOf(a)]
<1>1. DOMAIN answer = Calls /\ ReplyOf(NoEntry) = NoEntry
  BY DEF IInv, TypeOK, ReplyOf
<1> QED BY <1>1 DEF Reply

LEMMA ReplyValues ==
  ASSUME NEW a \in Answers
  PROVE  /\ a.kind = "unknown" => ReplyOf(a) = [kind |-> "unknown"]
         /\ a.kind # "unknown" => ReplyOf(a) = [kind |-> a.kind, by |-> a.by]
BY NoEntryAssumption DEF ReplyOf

LEMMA ScanValues ==
  ASSUME NEW s \in TaskStates
  PROVE  /\ s \in Running <=> ScanOf(s) = "running"
         /\ s \in Succeeded => ScanOf(s) = "bundle"
         /\ s = "failed" => ScanOf(s) = "failed"
BY DEF ScanOf, TaskStates, Running, Succeeded, Done

LEMMA ScanMap ==
  ASSUME IInv, NEW t \in Calls, NEW st \in TaskStates,
         task' = [task EXCEPT ![t] = st]
  PROVE  /\ ScanState' = [ScanState EXCEPT ![t] = ScanOf(st)]
         /\ ScanState[t] = ScanOf(task[t])
         /\ ScanOf(st) = ScanOf(task[t]) => ScanState' = ScanState
<1>1. DOMAIN task = Calls
  BY DEF IInv, TypeOK
<1> QED BY <1>1 DEF ScanState

LEMMA ScanKept ==
  ASSUME task' = task
  PROVE  ScanState' = ScanState
BY DEF ScanState

(* What each step of a call maps to. *)

LEMMA ServeHotAbstract ==
  ASSUME IInv, NEW r \in Calls, phase[r] = "queued", NEW id \in Ids,
         seen' = [seen EXCEPT ![r] = [id |-> id, at |-> now]],
         ServeHot(r, id)
  PROVE  Abstract!AskTold(r, id)
<1> DEFINE t == hot[HotIndex(id)].bundle
           a == BundleAnswer(t, "hot")
<1>1. t \in Calls /\ task[t] \in Succeeded /\ seen[t].id = id
  <2>1. hot[HotIndex(id)] \in GoodEntries /\ hot[HotIndex(id)].id = id
    BY FoundInHot DEF IInv, ServeHot, HotHit, HotSound
  <2> QED BY <2>1 DEF GoodEntries, HotEntry
<1>2. a \in Answers /\ a.kind = "bundle" /\ a.by = t
  BY <1>1 DEF BundleAnswer, Answers, IInv, TypeOK
<1>3. answer' = [answer EXCEPT ![r] = a] /\ task' = task
  BY DEF ServeHot, Answer, tasks
<1> HIDE DEF t, a
<1>4. answer[r] = NoEntry
  BY DEF IInv, Places
<1>5. Reply[r] = NoEntry
        /\ Reply' = [Reply EXCEPT ![r] = [kind |-> "bundle", by |-> t]]
  <2>1. Reply[r] = NoEntry /\ Reply' = [Reply EXCEPT ![r] = ReplyOf(a)]
    BY <1>2, <1>3, <1>4, TellMap
  <2>2. ReplyOf(a) = [kind |-> "bundle", by |-> t]
    BY <1>2, <1>3, <1>4, ReplyValues
  <2> QED BY <2>1, <2>2
<1>6. ScanState' = ScanState
  BY <1>3, ScanKept
<1>7. seen[t] # NoEntry /\ AboutId[t] = id
  BY <1>1 DEF IInv, Places, AboutId, AboutOf, Succeeded
<1>8. ScanState[t] = "bundle"
  BY <1>1, ScanValues DEF ScanState, IInv, TypeOK
<1> QED BY <1>1, <1>5, <1>6, <1>7, <1>8, AskMap
        DEF Abstract!AskTold, Abstract!Ask, Abstract!Tell

LEMMA UnknownAbstract ==
  ASSUME IInv, NEW r \in Calls, phase[r] = "queued", NEW id \in Ids,
         seen' = [seen EXCEPT ![r] = [id |-> id, at |-> now]],
         Unknown(r, id)
  PROVE  Abstract!AskTold(r, id)
<1> DEFINE a == [kind |-> "unknown", at |-> now]
<1>1. a \in Answers /\ a.kind = "unknown"
  BY DEF Answers, IInv, TypeOK
<1>2. answer' = [answer EXCEPT ![r] = a] /\ task' = task
  BY DEF Unknown, Answer, tasks
<1> HIDE DEF a
<1>3. answer[r] = NoEntry
  BY DEF IInv, Places
<1>4. Reply[r] = NoEntry
        /\ Reply' = [Reply EXCEPT ![r] = [kind |-> "unknown"]]
  <2>1. Reply[r] = NoEntry /\ Reply' = [Reply EXCEPT ![r] = ReplyOf(a)]
    BY <1>1, <1>2, <1>3, TellMap
  <2>2. ReplyOf(a) = [kind |-> "unknown"]
    BY <1>1, <1>2, <1>3, ReplyValues
  <2> QED BY <2>1, <2>2
<1>5. ScanState' = ScanState
  BY <1>2, ScanKept
<1> QED BY <1>4, <1>5, AskMap
        DEF Abstract!AskTold, Abstract!Ask, Abstract!Tell

LEMMA StartTaskAbstract ==
  ASSUME IInv, NEW r \in Calls, phase[r] = "queued", NEW id \in Ids,
         seen' = [seen EXCEPT ![r] = [id |-> id, at |-> now]],
         NEW s, StartTask(r, id, s)
  PROVE  Abstract!Begin(r, id)
<1>1. inflight[id] = NoCall /\ task' = [task EXCEPT ![r] = "created"]
        /\ answer' = answer
  BY DEF StartTask
<1>2. ASSUME NEW t \in Calls, AboutId[t] = id, ScanState[t] = "running"
      PROVE  FALSE
  <2>1. task[t] \in Running /\ seen[t].id = id
    BY <1>2, ScanValues, NoEntryAssumption
       DEF AboutId, AboutOf, ScanState, IInv, TypeOK
  <2> QED BY <1>1, <2>1, ConstantsAssumption DEF IInv, Flight
<1>3. ScanState' = [ScanState EXCEPT ![r] = "running"]
  <2>1. "created" \in TaskStates /\ "created" \in Running
    BY DEF TaskStates, Running
  <2>2. ScanState' = [ScanState EXCEPT ![r] = ScanOf("created")]
    BY <1>1, <2>1, ScanMap
  <2>3. ScanOf("created") = "running"
    BY <2>1, ScanValues
  <2> QED BY <2>2, <2>3
<1>4. Reply' = Reply
  BY <1>1 DEF Reply
<1> QED BY <1>2, <1>3, <1>4, AskMap
        DEF Abstract!Begin, Abstract!Ask, Abstract!Scanned

LEMMA JoinTaskAbstract ==
  ASSUME IInv, NEW r \in Calls, phase[r] = "queued", NEW id \in Ids,
         seen' = [seen EXCEPT ![r] = [id |-> id, at |-> now]],
         JoinTask(r, id)
  PROVE  Abstract!Join(r, id)
<1> DEFINE t == inflight[id]
<1>1. t \in Calls /\ seen[t].id = id /\ seen[t] # NoEntry
        /\ task[t] \in Running
  BY DEF JoinTask, IInv, Flight, Places, TypeOK, TaskStates
<1>2. AboutId[t] = id /\ ScanState[t] = "running"
  BY <1>1, ScanValues DEF AboutId, AboutOf, ScanState, IInv, TypeOK
<1>3. ScanState' = ScanState /\ Reply' = Reply
  BY DEF JoinTask, tasks, ScanState, Reply
<1> QED BY <1>1, <1>2, <1>3, AskMap
        DEF Abstract!Join, Abstract!Ask, Abstract!Scanned

LEMMA TakeDoneAbstract ==
  ASSUME IInv, NEW r \in Calls, phase[r] = "queued", NEW id \in Ids,
         seen' = [seen EXCEPT ![r] = [id |-> id, at |-> now]],
         TakeDone(r, id)
  PROVE  Abstract!AskTold(r, id)
<1> DEFINE t == inflight[id]
<1>1. t \in Calls /\ seen[t].id = id /\ seen[t] # NoEntry
        /\ answer[t] = NoEntry /\ answer[r] = NoEntry
  BY DEF TakeDone, IInv, Flight, Places, TypeOK
<1>2. task' = task /\ TakeResult(r, id, t, WithoutHot(id))
  BY DEF TakeDone, tasks
<1> HIDE DEF t
<1>3. PICK a \in Answers :
        /\ answer' = [answer EXCEPT ![r] = a]
        /\ a.kind # "unknown" /\ a.by = t
        /\ task[t] \in IF a.kind = "bundle" THEN Succeeded ELSE {"failed"}
  BY <1>1, <1>2, TakeResultAnswer DEF IInv
<1>4. Reply[r] = NoEntry
        /\ Reply' = [Reply EXCEPT ![r] = [kind |-> a.kind, by |-> t]]
  <2>1. Reply[r] = NoEntry /\ Reply' = [Reply EXCEPT ![r] = ReplyOf(a)]
    BY <1>1, <1>3, TellMap
  <2>2. ReplyOf(a) = [kind |-> a.kind, by |-> t]
    BY <1>1, <1>3, ReplyValues
  <2> QED BY <2>1, <2>2
<1>5. a.kind \in {"bundle", "error"}
  BY <1>3 DEF Answers
<1>6. ScanState' = ScanState /\ AboutId[t] = id /\ Reply[t] = NoEntry
  BY <1>1, <1>2 DEF ScanState, AboutId, AboutOf, Reply, ReplyOf
<1>7. ScanState[t] = IF a.kind = "bundle" THEN "bundle" ELSE "failed"
  BY <1>1, <1>3, ScanValues DEF ScanState, IInv, TypeOK
<1> QED BY <1>1, <1>4, <1>5, <1>6, <1>7, AskMap
        DEF Abstract!AskTold, Abstract!Ask, Abstract!Tell

LEMMA WakeAbstract ==
  ASSUME IInv, NEW r \in Calls, Wake(r)
  PROVE  Abstract!TellOutcome(r, awaits[r])
<1> DEFINE id == seen[r].id
           t  == awaits[r]
<1>1. /\ phase[r] \in {"owner", "waiter"} /\ TakeResult(r, id, t, hot)
      /\ task' = task /\ seen' = seen
  BY DEF Wake, tasks
<1>2. seen[r] # NoEntry /\ id \in Ids /\ t \in Calls /\ seen[t].id = id
        /\ seen[t] # NoEntry /\ answer[r] = NoEntry
  BY <1>1 DEF IInv, Places, TypeOK
<1> HIDE DEF id, t
<1>3. PICK a \in Answers :
        /\ answer' = [answer EXCEPT ![r] = a]
        /\ a.kind # "unknown" /\ a.by = t
        /\ task[t] \in IF a.kind = "bundle" THEN Succeeded ELSE {"failed"}
  BY <1>1, <1>2, TakeResultAnswer DEF IInv
<1>4. Reply[r] = NoEntry
        /\ Reply' = [Reply EXCEPT ![r] = [kind |-> a.kind, by |-> t]]
  <2>1. Reply[r] = NoEntry /\ Reply' = [Reply EXCEPT ![r] = ReplyOf(a)]
    BY <1>2, <1>3, TellMap
  <2>2. ReplyOf(a) = [kind |-> a.kind, by |-> t]
    BY <1>2, <1>3, ReplyValues
  <2> QED BY <2>1, <2>2
<1>5. a.kind \in {"bundle", "error"}
  BY <1>3 DEF Answers
<1>6. /\ ScanState' = ScanState /\ AboutId' = AboutId
      /\ AboutId[r] = id /\ AboutId[t] = id /\ id # NoEntry
  BY <1>1, <1>2, NoEntryAssumption DEF ScanState, AboutId, AboutOf, id
<1>7. ScanState[t] = IF a.kind = "bundle" THEN "bundle" ELSE "failed"
  BY <1>2, <1>3, ScanValues DEF ScanState, IInv, TypeOK
<1> QED BY <1>4, <1>5, <1>6, <1>7 DEF Abstract!TellOutcome, Abstract!Tell, t

LEMMA StepAbstract ==
  ASSUME IInv, NEW t \in Calls, Step(t)
  PROVE  (\E outcome \in {"bundle", "failed"} : Abstract!End(t, outcome))
           \/ UNCHANGED Abstract!vars
<1>1. AboutId' = AboutId /\ Reply' = Reply
  BY DEF Step, AboutId, Reply
<1>2. ASSUME NEW o \in Done, task[t] \in Running, Finish(t, o)
      PROVE  \E outcome \in {"bundle", "failed"} : Abstract!End(t, outcome)
  <2>1. task' = [task EXCEPT ![t] = o] /\ o \in TaskStates
    BY <1>2 DEF Finish, TaskStates
  <2>2. ScanState' = [ScanState EXCEPT ![t] = ScanOf(o)]
          /\ ScanState[t] = "running"
    BY <1>2, <2>1, ScanMap, ScanValues DEF IInv, TypeOK
  <2>3. ScanOf(o) \in {"bundle", "failed"}
    BY <2>1, ScanValues DEF Done
  <2> QED BY <1>1, <2>2, <2>3 DEF Abstract!End
<1>3. CASE task[t] = "created" /\ Finish(t, "full")
  BY <1>2, <1>3 DEF Running, Done, Succeeded
<1>4. CASE task[t] = "created" /\ task' = [task EXCEPT ![t] = "scanning"]
  <2>1. "scanning" \in TaskStates /\ ScanOf("scanning") = ScanOf("created")
    BY DEF TaskStates, Running, ScanOf
  <2>2. ScanState' = ScanState
    BY <1>4, <2>1, ScanMap
  <2> QED BY <1>1, <2>2 DEF Abstract!vars
<1>5. CASE task[t] = "resumed" /\ \E o \in Done : Finish(t, o)
  BY <1>2, <1>5 DEF Running
<1> QED BY <1>3, <1>4, <1>5 DEF Step

LEMMA CallAbstract ==
  ASSUME IInv, NEW r \in Calls, phase[r] = "queued", NEW id \in Ids,
         seen' = [seen EXCEPT ![r] = [id |-> id, at |-> now]], NEW s,
         ServeHot(r, id) \/ Unknown(r, id) \/ MaterializeOnce(r, id, s)
  PROVE  Abstract!Next
<1>1. Abstract!Begin(r, id) \/ Abstract!Join(r, id) \/ Abstract!AskTold(r, id)
  BY ServeHotAbstract, UnknownAbstract, StartTaskAbstract, JoinTaskAbstract,
     TakeDoneAbstract DEF MaterializeOnce
<1> QED BY <1>1 DEF Abstract!Next

LEMMA NextAbstract == IInv /\ [Next]_vars => [Abstract!Next]_(Abstract!vars)
<1> SUFFICES ASSUME IInv, [Next]_vars
             PROVE  Abstract!Next \/ UNCHANGED Abstract!vars
  OBVIOUS
<1>1. ASSUME seen' = seen, answer' = answer, task' = task
      PROVE  UNCHANGED Abstract!vars
  BY <1>1 DEF Abstract!vars, AboutId, Reply, ScanState
<1>2. ASSUME NEW r \in Calls, NEW q \in Requests, Arrive(r, q)
      PROVE  UNCHANGED Abstract!vars
  BY <1>1, <1>2 DEF Arrive, tasks
<1>3. ASSUME NEW r \in Calls, Resolve(r) PROVE Abstract!Next
  <2> DEFINE s  == call[r].spelling
             id == IdFor(KeyOf[s])
  <2>1. /\ phase[r] = "queued" /\ id \in Ids
        /\ seen' = [seen EXCEPT ![r] = [id |-> id, at |-> now]]
        /\ ServeHot(r, id) \/ MaterializeOnce(r, id, s)
    BY <1>3 DEF Resolve, Runs
  <2> HIDE DEF s, id
  <2> QED BY <2>1, CallAbstract
<1>4. ASSUME NEW r \in Calls, Get(r) PROVE Abstract!Next
  <2> DEFINE id == call[r].id
             s  == cold[id].spelling
  <2>1. /\ phase[r] = "queued" /\ call[r].op = "get"
        /\ seen' = [seen EXCEPT ![r] = [id |-> id, at |-> now]]
        /\ ServeHot(r, id) \/ Unknown(r, id) \/ MaterializeOnce(r, id, s)
    BY <1>4 DEF Get, Runs
  <2>2. id \in Ids
    BY <2>1 DEF IInv, Places, Requests
  <2> HIDE DEF s, id
  <2> QED BY <2>1, <2>2, CallAbstract
<1>5. ASSUME NEW r \in Calls, Step(r)
      PROVE  Abstract!Next \/ UNCHANGED Abstract!vars
  BY <1>5, StepAbstract DEF Abstract!Next
<1>6. ASSUME NEW r \in Calls, ScanReturns(r) PROVE UNCHANGED Abstract!vars
  <2>1. "resumed" \in TaskStates /\ ScanOf("resumed") = ScanOf("scanning")
    BY DEF TaskStates, Running, ScanOf
  <2>2. ScanState' = ScanState
    BY <1>6, <2>1, ScanMap DEF ScanReturns
  <2> QED BY <1>6, <2>2 DEF ScanReturns, Abstract!vars, AboutId, Reply
<1>7. ASSUME NEW r \in Calls, Wake(r) PROVE Abstract!Next
  <2>1. awaits[r] \in Calls
    BY <1>7 DEF Wake, IInv, Places
  <2> QED BY <1>7, <2>1, WakeAbstract DEF Abstract!Next
<1>8. ASSUME NEW id \in Ids, EvictHot(id) PROVE UNCHANGED Abstract!vars
  BY <1>1, <1>8 DEF EvictHot, tasks
<1>9. CASE Tick
  BY <1>1, <1>9 DEF Tick, tasks
<1>10. CASE Idle \/ UNCHANGED vars
  BY <1>1, <1>10 DEF Idle, vars, tasks
<1> QED BY <1>2, <1>3, <1>4, <1>5, <1>6, <1>7, <1>8, <1>9, <1>10 DEF Next

(* The cache keeps AddressService's promise: one scan per address at a     *)
(* time, and each call is told once, of its own address.                   *)
THEOREM Refinement == Spec => AddressServiceSpec
<1>1. Init => Abstract!Init
  BY DEF Init, Abstract!Init, AboutId, ScanState, Reply, AboutOf, ScanOf, ReplyOf, Running, Succeeded
<1>2. IInv /\ [Next]_vars => [Abstract!Next]_(Abstract!vars)
  BY NextAbstract
<1> QED BY <1>1, <1>2, Invariance, PTL
        DEF Spec, AddressServiceSpec, Abstract!Spec

------------------------------------------------------------------------------
(* The calls in the middle of their work, and the first step of a call.    *)

Pending(w) == phase[w] \in {"owner", "waiter"}

(* A pending call awaits a task of its own address. *)
LEMMA PendingAwaits ==
  ASSUME IInv, NEW w \in Calls, Pending(w)
  PROVE  /\ awaits[w] \in Calls /\ task[awaits[w]] \in Running \cup Done
         /\ seen[w] # NoEntry /\ seen[awaits[w]].id = seen[w].id
<1>1. awaits[w] \in Calls /\ task[awaits[w]] # "none"
        /\ seen[w] # NoEntry /\ seen[awaits[w]].id = seen[w].id
  BY DEF Pending, IInv, Places
<1>2. task[awaits[w]] \in TaskStates
  BY <1>1 DEF IInv, TypeOK
<1> QED BY <1>1, <1>2 DEF TaskStates

(* The lookup of a call in its first step, whatever its request: the call  *)
(* is answered, owns a new task or awaits one.                             *)
LookUp(r, id) ==
  \/ ServeHot(r, id)
  \/ /\ ~ HotHit(id)
     /\ \/ Unknown(r, id)
        \/ \E s \in Spellings : MaterializeOnce(r, id, s)

LEMMA FirstStepLooksUp ==
  ASSUME IInv, NEW r \in Calls, Resolve(r) \/ Get(r)
  PROVE  /\ ready # <<>> /\ Head(ready) = CallBack("call", r)
         /\ phase[r] = "queued" /\ now' = now
         /\ \E id \in Ids :
              /\ seen' = [seen EXCEPT ![r] = [id |-> id, at |-> now]]
              /\ LookUp(r, id)
<1>1. CASE Resolve(r)
  <2>1. call[r] \in Requests /\ call[r].op = "resolve"
    BY <1>1 DEF Resolve, Runs, IInv, Places
  <2>2. call[r].spelling \in Spellings
    BY <2>1 DEF Requests
  <2> QED BY <1>1, <2>2 DEF Resolve, Runs, LookUp
<1>2. CASE Get(r)
  <2>1. call[r] \in Requests /\ call[r].op = "get"
    BY <1>2 DEF Get, Runs, IInv, Places
  <2>2. call[r].id \in Ids
    BY <2>1 DEF Requests
  <2>3. ColdHit(call[r].id) => cold[call[r].id].spelling \in Spellings
    BY <2>2 DEF IInv, TypeOK, ColdHit, ColdEntry
  <2> QED BY <1>2, <2>2, <2>3 DEF Get, Runs, LookUp
<1> QED BY <1>1, <1>2

------------------------------------------------------------------------------
(* What a step does to the clock, the hot tier and the answers: it answers *)
(* no call and at most drops an entry, serves an entry it touches, stores  *)
(* and returns the bundle of a task, or answers with something else.       *)

Shrinks == hot' = hot \/ \E id \in Ids : hot' = WithoutHot(id)

GivesAnswer(r, a) ==
  /\ answer[r] = NoEntry
  /\ answer' = [answer EXCEPT ![r] = a]
  /\ log' = Append(log, r)
  /\ now' = now

Serves(r, id) ==
  /\ HotHit(id) /\ seen'[r].id = id
  /\ hot' = Touched(id)
  /\ GivesAnswer(r, BundleAnswer(hot[HotIndex(id)].bundle, "hot"))

Stores(r, id, t) ==
  /\ hot' = Stored(id, t) /\ seen'[r].id = id
  /\ GivesAnswer(r, BundleAnswer(t, "task"))

Declines(r, a) ==
  /\ a.kind # "bundle"
  /\ Shrinks
  /\ GivesAnswer(r, a)

Keeps ==
  /\ Shrinks
  /\ answer' = answer /\ log' = log
  /\ now' \in Nat /\ now <= now'

Moves ==
  \/ Keeps
  \/ \E r \in Calls, id \in Ids : Serves(r, id)
  \/ \E r \in Calls, id \in Ids, t \in Calls : Stores(r, id, t)
  \/ \E r \in Calls, a \in Answers : Declines(r, a)

LEMMA TakeResultMoves ==
  ASSUME IInv, NEW r \in Calls, NEW id \in Ids, NEW t \in Calls, NEW h,
         TakeResult(r, id, t, h), answer[r] = NoEntry, now' = now,
         seen'[r].id = id,
         h = hot \/ h = WithoutHot(id)
  PROVE  Moves
<1>1. CASE hot' = Stored(id, t) /\ Answer(r, BundleAnswer(t, "task"))
  BY <1>1 DEF Answer, Moves, Stores, GivesAnswer
<1>2. ASSUME hot' = h,
             Answer(r, [kind |-> "error", by |-> t, via |-> "task", at |-> now])
      PROVE  Moves
  <2> DEFINE a == [kind |-> "error", by |-> t, via |-> "task", at |-> now]
  <2>1. a \in Answers /\ a.kind # "bundle"
    BY DEF Answers, IInv, TypeOK
  <2>2. GivesAnswer(r, a)
    BY <1>2 DEF Answer, GivesAnswer
  <2>3. Shrinks
    BY <1>2 DEF Shrinks
  <2> HIDE DEF a
  <2>4. Declines(r, a)
    BY <2>1, <2>2, <2>3 DEF Declines
  <2> QED BY <2>1, <2>4 DEF Moves
<1> QED BY <1>1, <1>2 DEF TakeResult

LEMMA LookUpMoves ==
  ASSUME IInv, NEW r \in Calls, phase[r] = "queued", NEW id \in Ids,
         seen' = [seen EXCEPT ![r] = [id |-> id, at |-> now]],
         now' = now, LookUp(r, id)
  PROVE  Moves
<1> USE DEF IInv
<1>1. answer[r] = NoEntry /\ seen'[r].id = id
  BY DEF Places, TypeOK
<1>2. CASE ServeHot(r, id)
  BY <1>1, <1>2 DEF ServeHot, Answer, Moves, Serves, GivesAnswer
<1>3. CASE Unknown(r, id)
  <2> DEFINE a == [kind |-> "unknown", at |-> now]
  <2>1. a \in Answers /\ a.kind # "bundle"
    BY DEF Answers, TypeOK
  <2>2. GivesAnswer(r, a) /\ Shrinks
    BY <1>1, <1>3 DEF Unknown, Answer, GivesAnswer, Shrinks
  <2> HIDE DEF a
  <2>3. Declines(r, a)
    BY <2>1, <2>2 DEF Declines
  <2> QED BY <2>1, <2>3 DEF Moves
<1>4. ASSUME NEW s \in Spellings, StartTask(r, id, s) \/ JoinTask(r, id)
      PROVE  Moves
  BY <1>4 DEF StartTask, JoinTask, Moves, Keeps, Shrinks, TypeOK
<1>5. CASE TakeDone(r, id)
  <2>1. inflight[id] \in Calls /\ TakeResult(r, id, inflight[id], WithoutHot(id))
    BY <1>5 DEF TakeDone, TypeOK
  <2> QED BY <1>1, <2>1, TakeResultMoves
<1> QED BY <1>2, <1>3, <1>4, <1>5 DEF LookUp, MaterializeOnce

LEMMA StepMoves == IInv /\ [Next]_vars => Moves
<1> SUFFICES ASSUME IInv, [Next]_vars PROVE Moves
  OBVIOUS
<1> USE DEF IInv
<1>1. ASSUME UNCHANGED <<now, hot, answer, log>> PROVE Moves
  BY <1>1 DEF Moves, Keeps, Shrinks, TypeOK
<1>2. ASSUME NEW r \in Calls, NEW q \in Requests, Arrive(r, q) PROVE Moves
  BY <1>1, <1>2 DEF Arrive, cache
<1>3. ASSUME NEW r \in Calls, Resolve(r) \/ Get(r) PROVE Moves
  BY <1>3, FirstStepLooksUp, LookUpMoves
<1>4. ASSUME NEW r \in Calls, Step(r) \/ ScanReturns(r) PROVE Moves
  BY <1>1, <1>4 DEF Step, ScanReturns, cache
<1>5. ASSUME NEW r \in Calls, Wake(r) PROVE Moves
  <2>1. /\ TakeResult(r, seen[r].id, awaits[r], hot)
        /\ now' = now /\ seen' = seen
        /\ phase[r] \in {"owner", "waiter"}
    BY <1>5 DEF Wake
  <2>2. seen[r].id \in Ids /\ awaits[r] \in Calls /\ answer[r] = NoEntry
    BY <2>1 DEF Places, TypeOK
  <2> QED BY <2>1, <2>2, TakeResultMoves
<1>6. ASSUME NEW id \in Ids, EvictHot(id) PROVE Moves
  BY <1>6 DEF EvictHot, Moves, Keeps, Shrinks, TypeOK
<1>7. CASE Tick
  BY <1>7 DEF Tick, cache, Moves, Keeps, Shrinks, TypeOK
<1>8. CASE UNCHANGED vars
  BY <1>1, <1>8 DEF vars, cache
<1> QED BY <1>2, <1>3, <1>4, <1>5, <1>6, <1>7, <1>8 DEF Next, Idle

------------------------------------------------------------------------------
(* The age of the hot entries: each was stored, with a full time-to-live,  *)
(* by a call that returned the bundle of its task at that moment.          *)

TaskAnswered(w, t, at) ==
  /\ answer[w] # NoEntry
  /\ answer[w].kind = "bundle" /\ answer[w].via = "task"
  /\ answer[w].by = t /\ answer[w].at = at

AgedEntries ==
  {e \in HotEntry : \E w \in Calls, at \in 0..now :
     TaskAnswered(w, e.bundle, at) /\ e.expires = at + HotTTL}

Aged == hot \in Seq(AgedEntries)

AgeInv == Aged /\ HotAge

LEMMA AgedEntriesKept ==
  ASSUME TypeOK, now' \in Nat, now <= now',
         \A w \in Calls : answer[w] # NoEntry => answer'[w] = answer[w]
  PROVE  AgedEntries \subseteq AgedEntries'
<1> SUFFICES ASSUME NEW e \in AgedEntries PROVE e \in AgedEntries'
  OBVIOUS
<1>1. PICK w \in Calls, at \in 0..now :
        TaskAnswered(w, e.bundle, at) /\ e.expires = at + HotTTL
  BY DEF AgedEntries
<1>2. at \in 0..now' /\ TaskAnswered(w, e.bundle, at)'
  BY <1>1 DEF TaskAnswered, TypeOK
<1>3. e \in HotEntry' /\ HotEntry' = HotEntry
  BY DEF AgedEntries, HotEntry
<1> QED BY <1>1, <1>2, <1>3 DEF AgedEntries

(* HotAge for one call. *)
FreshFor(r) ==
  answer[r].kind = "bundle" /\ answer[r].via = "hot" =>
    \E w \in Calls :
      /\ answer[w] # NoEntry
      /\ answer[w].kind = "bundle" /\ answer[w].via = "task"
      /\ answer[w].by = answer[r].by
      /\ answer[w].at <= answer[r].at
      /\ answer[r].at <= answer[w].at + HotTTL

LEMMA FreshKept ==
  ASSUME NEW r \in Calls, FreshFor(r), answer'[r] = answer[r],
         \A w \in Calls : answer[w] # NoEntry => answer'[w] = answer[w]
  PROVE  FreshFor(r)'
<1> SUFFICES ASSUME answer[r].kind = "bundle", answer[r].via = "hot"
             PROVE  FreshFor(r)'
  BY DEF FreshFor
<1>1. PICK w \in Calls :
        /\ answer[w] # NoEntry
        /\ answer[w].kind = "bundle" /\ answer[w].via = "task"
        /\ answer[w].by = answer[r].by
        /\ answer[w].at <= answer[r].at
        /\ answer[r].at <= answer[w].at + HotTTL
  BY DEF FreshFor
<1>2. answer'[w] = answer[w]
  BY <1>1
<1> QED BY <1>1, <1>2 DEF FreshFor

LEMMA ShrinkSeq ==
  ASSUME NEW S, hot \in Seq(S), Shrinks
  PROVE  hot' \in Seq(S)
BY WithoutHotSeq DEF Shrinks

LEMMA MoveKeepsAge ==
  ASSUME TypeOK, TypeOK', AgeInv, Moves
  PROVE  AgeInv'
<1>1. now \in Nat /\ now' \in Nat /\ HotTTL \in Nat
  BY ConstantsAssumption DEF TypeOK
<1>2. ASSUME NEW r \in Calls, NEW a, GivesAnswer(r, a), FreshFor(r)',
             hot' \in Seq(AgedEntries')
      PROVE  AgeInv'
  <2>1. /\ \A w \in Calls \ {r} : answer'[w] = answer[w]
        /\ \A w \in Calls : answer[w] # NoEntry => answer'[w] = answer[w]
    BY <1>2 DEF GivesAnswer, TypeOK
  <2>2. ASSUME NEW u \in Calls \ {r}, answer'[u] # NoEntry
        PROVE  FreshFor(u)'
    <3>1. FreshFor(u)
      BY <2>1, <2>2 DEF AgeInv, HotAge, FreshFor
    <3> QED BY <2>1, <3>1, FreshKept
  <2>3. HotAge'
    BY <1>2, <2>2 DEF HotAge, FreshFor
  <2> QED BY <1>2, <2>3 DEF AgeInv, Aged
<1>3. ASSUME NEW r \in Calls, NEW a, GivesAnswer(r, a)
      PROVE  AgedEntries \subseteq AgedEntries'
  <2>1. /\ \A w \in Calls : answer[w] # NoEntry => answer'[w] = answer[w]
        /\ now' = now
    BY <1>3 DEF GivesAnswer, TypeOK
  <2> QED BY <1>1, <2>1, AgedEntriesKept
<1>4. CASE Keeps
  <2>1. AgedEntries \subseteq AgedEntries'
    BY <1>1, <1>4, AgedEntriesKept DEF Keeps
  <2>2. hot' \in Seq(AgedEntries)
    BY <1>4, ShrinkSeq DEF AgeInv, Aged, Keeps
  <2>3. hot' \in Seq(AgedEntries')
    BY <2>1, <2>2, SeqMonotonic
  <2> QED BY <1>4, <2>3 DEF AgeInv, Aged, HotAge, Keeps
<1>5. ASSUME NEW r \in Calls, NEW id \in Ids, Serves(r, id) PROVE AgeInv'
  <2> DEFINE e == hot[HotIndex(id)]
  <2>1. id \in HotIds /\ ~(e.expires < now) /\ hot' = Touched(id)
          /\ GivesAnswer(r, BundleAnswer(e.bundle, "hot"))
    BY <1>5 DEF Serves, HotHit
  <2>2. e \in AgedEntries /\ e \in HotEntry
    BY <2>1, FoundInHot DEF AgeInv, Aged, TypeOK
  <2> HIDE DEF e
  <2>3. PICK w \in Calls, at \in 0..now :
          TaskAnswered(w, e.bundle, at) /\ e.expires = at + HotTTL
    BY <2>2 DEF AgedEntries
  <2>4. answer'[r] = BundleAnswer(e.bundle, "hot") /\ answer'[w] = answer[w]
    BY <2>1, <2>3 DEF GivesAnswer, TaskAnswered, TypeOK
  <2>5. at <= now /\ now <= at + HotTTL
    BY <1>1, <2>1, <2>3
  <2>6. FreshFor(r)'
    BY <2>3, <2>4, <2>5 DEF FreshFor, BundleAnswer, TaskAnswered
  <2>7. hot' \in Seq(AgedEntries)
    BY <2>1, TouchedSeq DEF AgeInv, Aged
  <2> QED BY <1>2, <1>3, <2>1, <2>6, <2>7, SeqMonotonic
<1>6. ASSUME NEW r \in Calls, NEW id \in Ids, NEW t \in Calls,
             Stores(r, id, t)
      PROVE  AgeInv'
  <2> DEFINE e == [id |-> id, bundle |-> t, expires |-> now + HotTTL]
  <2>1. hot' = Stored(id, t) /\ GivesAnswer(r, BundleAnswer(t, "task"))
    BY <1>6 DEF Stores
  <2>2. answer'[r] = BundleAnswer(t, "task") /\ now' = now
    BY <2>1 DEF GivesAnswer, TypeOK
  <2>3. BundleAnswer(t, "task") # NoEntry
    <3>1. BundleAnswer(t, "task") \in Answers
      BY <1>1 DEF BundleAnswer, Answers
    <3> QED BY <3>1, NoEntryAssumption
  <2>4. TaskAnswered(r, t, now)'
    BY <2>2, <2>3 DEF TaskAnswered, BundleAnswer
  <2>5. e \in HotEntry
    BY <1>1 DEF HotEntry
  <2>6. e \in AgedEntries'
    <3>1. now \in 0..now' /\ HotEntry' = HotEntry
      BY <1>1, <2>2 DEF HotEntry
    <3> QED BY <2>2, <2>4, <2>5, <3>1 DEF AgedEntries
  <2>7. hot \in Seq(AgedEntries')
    BY <1>3, <2>1, SeqMonotonic DEF AgeInv, Aged
  <2>8. hot' \in Seq(AgedEntries')
    BY <2>1, <2>6, <2>7, StoredSeq
  <2>9. FreshFor(r)'
    BY <2>2 DEF FreshFor, BundleAnswer
  <2> QED BY <1>2, <2>1, <2>8, <2>9
<1>7. ASSUME NEW r \in Calls, NEW a \in Answers, Declines(r, a)
      PROVE  AgeInv'
  <2>1. a.kind # "bundle" /\ Shrinks /\ GivesAnswer(r, a) /\ answer'[r] = a
    BY <1>7 DEF Declines, GivesAnswer, TypeOK
  <2>2. hot' \in Seq(AgedEntries')
    BY <1>3, <2>1, ShrinkSeq, SeqMonotonic DEF AgeInv, Aged
  <2>3. FreshFor(r)'
    BY <2>1 DEF FreshFor
  <2> QED BY <1>2, <2>1, <2>2, <2>3
<1> QED BY <1>4, <1>5, <1>6, <1>7 DEF Moves

(* A hit serves a bundle stored at most HOT_TTL_SECONDS ago: every entry   *)
(* carries the expiry of the store of a task's bundle, and neither a touch *)
(* nor a failed or unknown lookup ever moves it.                           *)
THEOREM HitsAreFresh == Spec => []HotAge
<1>1. Init => AgeInv
  BY EmptySeq DEF Init, AgeInv, Aged, HotAge
<1>2. IInv /\ AgeInv /\ [Next]_vars /\ IInv' => AgeInv'
  BY StepMoves, MoveKeepsAge DEF IInv
<1>3. AgeInv => HotAge
  BY DEF AgeInv
<1> QED BY <1>1, <1>2, <1>3, Invariance, PTL DEF Spec

------------------------------------------------------------------------------
(* The order of the hot entries, of which every id has a last use.         *)

Uses(id) ==
  {n \in DOMAIN log : seen[log[n]].id = id /\ answer[log[n]].kind = "bundle"}

LastUseIsLast ==
  \A id : /\ LastUse(id) \in 0..Len(log)
          /\ \A n \in Uses(id) : n <= LastUse(id)

LEMMA LastUses == TypeOK => LastUseIsLast
<1> SUFFICES ASSUME TypeOK, NEW id
             PROVE  /\ LastUse(id) \in 0..Len(log)
                    /\ \A n \in Uses(id) : n <= LastUse(id)
  BY DEF LastUseIsLast
<1>1. Len(log) \in Nat /\ DOMAIN log = 1..Len(log)
  BY LenProperties DEF TypeOK
<1>2. Uses(id) \cup {0} \subseteq 0..Len(log)
  BY <1>1 DEF Uses
<1>3. LastUse(id) = Max(Uses(id) \cup {0})
  BY DEF LastUse, Uses
<1> QED BY <1>1, <1>2, <1>3, GreatestNatural

(* LeastRecentFirst over an explicit dating of the ids. *)
Dates == [id \in Ids |-> LastUse(id)]

Dated(h, use) ==
  \A i, j \in 1..Len(h) : i < j => use[h[i].id] < use[h[j].id]

DatesBounded ==
  /\ Dates \in [Ids -> Nat]
  /\ \A id \in Ids : Dates[id] <= Len(log)

LEMMA DatesType == TypeOK => DatesBounded
<1> SUFFICES ASSUME TypeOK PROVE DatesBounded
  OBVIOUS
<1>1. Len(log) \in Nat
  BY LenProperties DEF TypeOK
<1> QED BY <1>1, LastUses DEF LastUseIsLast, Dates, DatesBounded

InOrder == Len(hot) <= MaxHot /\ Dated(hot, Dates)

LEMMA OrderIsDated == TypeOK => (LeastRecentFirst <=> InOrder)
<1> SUFFICES ASSUME TypeOK
             PROVE  LeastRecentFirst <=> InOrder
  OBVIOUS
<1>1. hot \in Seq(HotEntry)
  BY DEF TypeOK
<1>2. DOMAIN hot = 1..Len(hot) /\ \A i \in 1..Len(hot) : hot[i] \in HotEntry
  BY <1>1, LenProperties, ElementOfSeq
<1>3. \A i \in 1..Len(hot) : hot[i].id \in Ids
  BY <1>2 DEF HotEntry
<1> QED BY <1>2, <1>3 DEF LeastRecentFirst, InOrder, Dated, Dates

LEMMA RemovedEntry ==
  ASSUME hot \in Seq(HotEntry), NEW id, id \in HotIds
  PROVE  /\ Len(WithoutHot(id)) = Len(hot) - 1
         /\ \A i \in 1..(Len(hot) - 1) :
              WithoutHot(id)[i] =
                IF i < HotIndex(id) THEN hot[i] ELSE hot[i + 1]
<1> DEFINE n == Len(hot)
           k == HotIndex(id)
           w == WithoutHot(id)
           p == SubSeq(hot, 1, k - 1)
           q == SubSeq(hot, k + 1, n)
<1>1. n \in Nat /\ \A i \in 1..n : hot[i] \in HotEntry
  BY LenProperties, ElementOfSeq
<1>2. k \in 1..n
  BY FoundInHot
<1>3. w = p \o q
  BY DEF WithoutHot, RemoveAt
<1>4. /\ p \in Seq(HotEntry) /\ Len(p) = k - 1
      /\ \A i \in 1..(k - 1) : p[i] = hot[i]
  BY <1>1, <1>2, SubSeqProperties
<1>5. /\ q \in Seq(HotEntry) /\ Len(q) = n - k
      /\ \A i \in 1..(n - k) : q[i] = hot[k + i]
  BY <1>1, <1>2, SubSeqProperties
<1> HIDE DEF n, k, w, p, q
<1>6. /\ Len(p \o q) = Len(p) + Len(q)
      /\ \A i \in 1..(Len(p) + Len(q)) :
           (p \o q)[i] = IF i <= Len(p) THEN p[i] ELSE q[i - Len(p)]
  BY <1>4, <1>5, ConcatProperties
<1>7. /\ Len(w) = (k - 1) + (n - k)
      /\ \A i \in 1..((k - 1) + (n - k)) :
           w[i] = IF i <= k - 1 THEN p[i] ELSE q[i - (k - 1)]
  BY <1>3, <1>4, <1>5, <1>6
<1>8. ASSUME NEW i \in 1..(n - 1)
      PROVE  w[i] = IF i < k THEN hot[i] ELSE hot[i + 1]
  <2>1. w[i] = IF i <= k - 1 THEN p[i] ELSE q[i - (k - 1)]
    BY <1>1, <1>2, <1>7
  <2>2. CASE i < k
    BY <1>1, <1>2, <1>4, <2>1, <2>2
  <2>3. CASE ~(i < k)
    <3>1. i - (k - 1) \in 1..(n - k) /\ k + (i - (k - 1)) = i + 1
            /\ ~(i <= k - 1)
      BY <1>1, <1>2, <2>3
    <3> QED BY <1>5, <2>1, <2>3, <3>1
  <2> QED BY <2>2, <2>3
<1> QED BY <1>1, <1>2, <1>7, <1>8 DEF n, k, w

(* What WithoutHot leaves was in the tier, and it leaves every other id. *)
LEMMA RemovedOnly ==
  ASSUME hot \in Seq(HotEntry), NEW id
  PROVE  /\ \A j \in 1..Len(WithoutHot(id)) : \E i \in 1..Len(hot) :
              WithoutHot(id)[j] = hot[i]
         /\ \A i \in 1..Len(hot) : hot[i].id # id =>
              \E j \in 1..Len(WithoutHot(id)) : WithoutHot(id)[j] = hot[i]
<1>1. CASE id \notin HotIds
  BY <1>1 DEF WithoutHot
<1>2. CASE id \in HotIds
  <2> DEFINE n == Len(hot)
             k == HotIndex(id)
             w == WithoutHot(id)
  <2>1. n \in Nat /\ k \in 1..n /\ hot[k].id = id /\ Len(w) = n - 1
          /\ \A i \in 1..(n - 1) : w[i] = IF i < k THEN hot[i] ELSE hot[i + 1]
    BY <1>2, FoundInHot, RemovedEntry, LenProperties
  <2> HIDE DEF n, k, w
  <2>2. ASSUME NEW j \in 1..Len(w) PROVE \E i \in 1..n : w[j] = hot[i]
    <3>1. j \in 1..n /\ j + 1 \in 1..n
      BY <2>1
    <3> QED BY <2>1, <3>1
  <2>3. ASSUME NEW i \in 1..n, hot[i].id # id
        PROVE  \E j \in 1..Len(w) : w[j] = hot[i]
    <3>1. i # k
      BY <2>1, <2>3
    <3>2. CASE i < k
      <4>1. i \in 1..Len(w)
        BY <2>1, <3>2
      <4> QED BY <2>1, <3>2, <4>1
    <3>3. CASE k < i
      <4>1. i - 1 \in 1..Len(w) /\ ~(i - 1 < k) /\ (i - 1) + 1 = i
        BY <2>1, <3>3
      <4> QED BY <2>1, <4>1
    <3>4. i < k \/ k < i
      BY <2>1, <3>1
    <3> QED BY <3>2, <3>3, <3>4
  <2> QED BY <2>2, <2>3 DEF n, w
<1> QED BY <1>1, <1>2

LEMMA RemovedDated ==
  ASSUME hot \in Seq(HotEntry), NEW use \in [Ids -> Nat], Dated(hot, use),
         NEW id
  PROVE  /\ Len(WithoutHot(id)) <= Len(hot)
         /\ id \in HotIds => Len(WithoutHot(id)) < Len(hot)
         /\ Dated(WithoutHot(id), use)
         /\ \A i \in 1..Len(WithoutHot(id)) : WithoutHot(id)[i].id # id
<1> DEFINE n == Len(hot)
           k == HotIndex(id)
           w == WithoutHot(id)
<1>1. n \in Nat /\ DOMAIN hot = 1..n /\ \A i \in 1..n : hot[i] \in HotEntry
  BY LenProperties, ElementOfSeq
<1>2. CASE id \notin HotIds
  BY <1>1, <1>2 DEF WithoutHot, HotIds
<1>3. CASE id \in HotIds
  <2>1. k \in 1..n /\ hot[k].id = id
    BY <1>3, FoundInHot
  <2>2. /\ Len(w) = n - 1
        /\ \A i \in 1..(n - 1) : w[i] = IF i < k THEN hot[i] ELSE hot[i + 1]
    BY <1>3, RemovedEntry
  <2> HIDE DEF n, k, w
  <2>3. Dated(w, use)
    <3> SUFFICES ASSUME NEW i \in 1..(n - 1), NEW j \in 1..(n - 1), i < j
                 PROVE  use[w[i].id] < use[w[j].id]
      BY <2>2 DEF Dated
    <3> DEFINE f(x) == IF x < k THEN x ELSE x + 1
    <3>1. w[i] = hot[f(i)] /\ w[j] = hot[f(j)]
      BY <2>2
    <3>2. f(i) \in 1..n /\ f(j) \in 1..n /\ f(i) < f(j)
      BY <1>1, <2>1
    <3> HIDE DEF f
    <3> QED BY <3>1, <3>2 DEF Dated, n
  <2>4. \A i \in 1..(n - 1) : w[i].id # id
    <3> SUFFICES ASSUME NEW i \in 1..(n - 1) PROVE w[i].id # id
      OBVIOUS
    <3> DEFINE m == IF i < k THEN i ELSE i + 1
    <3>1. w[i] = hot[m]
      BY <2>2
    <3>2. m \in 1..n /\ (m < k \/ k < m)
      BY <1>1, <2>1
    <3> HIDE DEF m
    <3>3. use[hot[m].id] # use[hot[k].id]
      <4>1. use[hot[m].id] \in Nat /\ use[hot[k].id] \in Nat
        BY <1>1, <2>1, <3>2 DEF HotEntry
      <4>2. \/ use[hot[m].id] < use[hot[k].id]
            \/ use[hot[k].id] < use[hot[m].id]
        BY <2>1, <3>2 DEF Dated, n
      <4> QED BY <4>1, <4>2
    <3> QED BY <2>1, <3>1, <3>3
  <2> QED BY <1>1, <2>2, <2>3, <2>4 DEF n, w
<1> QED BY <1>2, <1>3

LEMMA AppendedDated ==
  ASSUME NEW w \in Seq(HotEntry), NEW use, Dated(w, use), NEW e \in HotEntry,
         \A i \in 1..Len(w) : use[w[i].id] < use[e.id]
  PROVE  Dated(Append(w, e), use) /\ Len(Append(w, e)) = Len(w) + 1
<1>1. /\ Len(w) \in Nat /\ Len(Append(w, e)) = Len(w) + 1
      /\ Append(w, e)[Len(w) + 1] = e
      /\ \A i \in 1..Len(w) : Append(w, e)[i] = w[i]
  BY LenProperties, AppendProperties
<1>2. ASSUME NEW i \in 1..(Len(w) + 1), NEW j \in 1..(Len(w) + 1), i < j
      PROVE  use[Append(w, e)[i].id] < use[Append(w, e)[j].id]
  <2>1. i \in 1..Len(w) /\ (j \in 1..Len(w) \/ j = Len(w) + 1)
    BY <1>1, <1>2
  <2> QED BY <1>1, <1>2, <2>1 DEF Dated
<1> QED BY <1>1, <1>2 DEF Dated

LEMMA SuffixDated ==
  ASSUME NEW h \in Seq(HotEntry), NEW use, Dated(h, use), Len(h) > MaxHot
  PROVE  LET s == SubSeq(h, Len(h) - MaxHot + 1, Len(h))
         IN  Len(s) = MaxHot /\ Dated(s, use)
<1> DEFINE n == Len(h)
           s == SubSeq(h, n - MaxHot + 1, n)
<1>1. n \in Nat /\ MaxHot \in Nat \ {0} /\ n > MaxHot
  BY LenProperties, ConstantsAssumption
<1>2. n - MaxHot + 1 \in 1..n
  BY <1>1
<1>3. /\ Len(s) = n - (n - MaxHot + 1) + 1
      /\ \A i \in 1..(n - (n - MaxHot + 1) + 1) :
           s[i] = h[(n - MaxHot + 1) + i - 1]
  BY <1>1, <1>2, SubSeqProperties
<1> HIDE DEF n, s
<1>4. /\ Len(s) = MaxHot
      /\ \A i \in 1..MaxHot : s[i] = h[n - MaxHot + i]
  BY <1>1, <1>3
<1>5. \A i \in 1..MaxHot : n - MaxHot + i \in 1..n
  BY <1>1
<1>6. Dated(s, use)
  <2> SUFFICES ASSUME NEW i \in 1..MaxHot, NEW j \in 1..MaxHot, i < j
               PROVE  use[s[i].id] < use[s[j].id]
    BY <1>4 DEF Dated
  <2>1. n - MaxHot + i < n - MaxHot + j
    BY <1>1
  <2> QED BY <1>4, <1>5, <2>1 DEF Dated, n
<1> QED BY <1>4, <1>6 DEF n, s

LEMMA DatedKept ==
  ASSUME NEW h \in Seq(HotEntry), NEW use, NEW later, Dated(h, use),
         \A i \in 1..Len(h) : later[h[i].id] = use[h[i].id]
  PROVE  Dated(h, later)
BY DEF Dated

(* The calls of the log have their answers, so what they looked up and     *)
(* were given never changes.                                               *)
LogSound == \A n \in DOMAIN log : answer[log[n]] # NoEntry

OrderInv == LogSound /\ LeastRecentFirst

Settled ==
  \A u \in Calls : answer[u] # NoEntry => seen'[u] = seen[u]

LEMMA StepSettles == IInv /\ [Next]_vars => Settled
<1> SUFFICES ASSUME IInv, [Next]_vars, NEW u \in Calls, answer[u] # NoEntry
             PROVE  seen'[u] = seen[u]
  BY DEF Settled
<1> USE DEF IInv
<1>1. CASE seen' = seen
  BY <1>1
<1>2. ASSUME NEW r \in Calls, Resolve(r) \/ Get(r) PROVE seen'[u] = seen[u]
  <2>1. PICK id \in Ids : /\ phase[r] = "queued"
                          /\ seen' = [seen EXCEPT ![r] = [id |-> id, at |-> now]]
    BY <1>2, FirstStepLooksUp
  <2>2. u # r
    BY <2>1 DEF Places
  <2> QED BY <2>1, <2>2 DEF TypeOK
<1>3. ASSUME NEW r \in Calls, NEW q \in Requests, Arrive(r, q)
      PROVE  seen' = seen
  BY <1>3 DEF Arrive
<1>4. ASSUME NEW r \in Calls, Step(r) \/ ScanReturns(r) \/ Wake(r)
      PROVE  seen' = seen
  BY <1>4 DEF Step, ScanReturns, Wake
<1>5. ASSUME NEW id \in Ids, EvictHot(id) PROVE seen' = seen
  BY <1>5 DEF EvictHot
<1>6. CASE Tick \/ UNCHANGED vars
  BY <1>1, <1>6 DEF Tick, vars
<1> QED BY <1>1, <1>2, <1>3, <1>4, <1>5, <1>6 DEF Next, Idle

(* The answer of r is logged last: it dates the id of a bundle that r got, *)
(* and no other id.                                                        *)
LEMMA AnswerDates ==
  ASSUME TypeOK, TypeOK', LogSound, Settled, NEW r \in Calls, NEW a,
         a # NoEntry, GivesAnswer(r, a)
  PROVE  /\ LogSound'
         /\ Len(log') = Len(log) + 1
         /\ \A id : seen'[r].id # id \/ a.kind # "bundle" =>
              LastUse(id)' = LastUse(id)
         /\ \A id : seen'[r].id = id /\ a.kind = "bundle" =>
              LastUse(id)' = Len(log) + 1
<1> DEFINE n == Len(log)
<1>1. /\ n \in Nat /\ DOMAIN log = 1..n
      /\ \A i \in 1..n : log[i] \in Calls /\ answer[log[i]] # NoEntry
  BY SMTT(30), LenProperties, ElementOfSeq DEF TypeOK, LogSound
<1>2. /\ Len(log') = n + 1 /\ DOMAIN log' = 1..(n + 1)
      /\ log'[n + 1] = r /\ \A i \in 1..n : log'[i] = log[i]
  BY AppendProperties, LenProperties DEF GivesAnswer, TypeOK
<1>3. answer'[r] = a /\ \A u \in Calls \ {r} : answer'[u] = answer[u]
  BY DEF GivesAnswer, TypeOK
<1>4. \A i \in 1..n : /\ answer'[log'[i]] = answer[log[i]]
                      /\ seen'[log'[i]] = seen[log[i]]
  BY <1>1, <1>2, <1>3 DEF GivesAnswer, Settled
<1> HIDE DEF n
<1>5. LogSound'
  BY <1>1, <1>2, <1>3, <1>4 DEF LogSound
<1>6. ASSUME NEW id, seen'[r].id # id \/ a.kind # "bundle"
      PROVE  LastUse(id)' = LastUse(id)
  <2>1. Uses(id)' = Uses(id)
    BY <1>1, <1>2, <1>3, <1>4, <1>6 DEF Uses
  <2> QED BY <2>1 DEF LastUse, Uses
<1>7. ASSUME NEW id, seen'[r].id = id, a.kind = "bundle"
      PROVE  LastUse(id)' = n + 1
  <2>1. n + 1 \in Uses(id)'
    BY <1>1, <1>2, <1>3, <1>7 DEF Uses
  <2>2. (TypeOK => LastUseIsLast)'
    BY LastUses, PTL
  <2>3. LastUse(id)' \in 0..Len(log')
          /\ \A m \in Uses(id)' : m <= LastUse(id)'
    BY <2>2 DEF LastUseIsLast
  <2> QED BY <1>1, <1>2, <2>1, <2>3
<1> QED BY <1>2, <1>5, <1>6, <1>7 DEF n

(* An entry dated last, put behind the others. *)
LEMMA LastPut ==
  ASSUME TypeOK, LeastRecentFirst, NEW id \in Ids, NEW e \in HotEntry,
         e.id = id, NEW later \in [Ids -> Nat], later[id] = Len(log) + 1,
         \A x \in Ids \ {id} : later[x] = Dates[x]
  PROVE  LET h == Append(WithoutHot(id), e)
         IN  /\ h \in Seq(HotEntry)
             /\ Len(h) = Len(WithoutHot(id)) + 1
             /\ Dated(h, later)
<1> DEFINE w == WithoutHot(id)
<1>1. w \in Seq(HotEntry)
  BY WithoutHotSeq DEF TypeOK
<1>2. Dates \in [Ids -> Nat] /\ \A x \in Ids : Dates[x] <= Len(log)
        /\ Len(log) \in Nat
  BY DatesType, LenProperties DEF TypeOK, DatesBounded
<1>3. Dated(w, Dates) /\ \A i \in 1..Len(w) : w[i].id # id
  BY <1>2, OrderIsDated, RemovedDated DEF TypeOK, InOrder
<1> HIDE DEF w
<1>4. \A i \in 1..Len(w) : w[i].id \in Ids \ {id}
  <2>1. \A i \in 1..Len(w) : w[i] \in HotEntry
    BY <1>1, ElementOfSeq
  <2> QED BY <1>3, <2>1 DEF HotEntry
<1>5. Dated(w, later)
  BY <1>1, <1>3, <1>4, DatedKept
<1>6. \A i \in 1..Len(w) : later[w[i].id] < later[e.id]
  BY <1>2, <1>4
<1> QED BY <1>1, <1>5, <1>6, AppendedDated, AppendProperties DEF w

LEMMA MoveKeepsOrder ==
  ASSUME IInv, IInv', OrderInv, Settled, Moves
  PROVE  OrderInv'
<1> USE DEF IInv
<1>1. /\ hot \in Seq(HotEntry) /\ Len(hot) \in Nat /\ MaxHot \in Nat \ {0}
      /\ Len(hot) <= MaxHot /\ Dated(hot, Dates) /\ Dates \in [Ids -> Nat]
  BY OrderIsDated, DatesType, LenProperties, ConstantsAssumption
     DEF TypeOK, OrderInv, InOrder, DatesBounded
<1>2. ASSUME Len(hot') <= MaxHot, Dated(hot', Dates') PROVE LeastRecentFirst'
  <2>1. (TypeOK => (LeastRecentFirst <=> InOrder))'
    BY OrderIsDated, PTL
  <2> QED BY <1>2, <2>1 DEF InOrder, Dated
<1>3. ASSUME Shrinks PROVE Len(hot') <= MaxHot /\ Dated(hot', Dates)
  <2>1. CASE hot' = hot
    BY <1>1, <2>1
  <2>2. ASSUME NEW id \in Ids, hot' = WithoutHot(id)
        PROVE  Len(hot') <= MaxHot /\ Dated(hot', Dates)
    <3>1. Len(hot') <= Len(hot) /\ Dated(hot', Dates)
      BY <1>1, <2>2, RemovedDated
    <3>2. Len(hot') \in Nat
      BY LenProperties DEF TypeOK
    <3> QED BY <1>1, <3>1, <3>2
  <2> QED BY <1>3, <2>1, <2>2 DEF Shrinks
<1>4. ASSUME \A id \in Ids : LastUse(id)' = LastUse(id) PROVE Dates' = Dates
  <2>1. Ids' = Ids
    BY DEF Ids
  <2> QED BY <1>4, <2>1 DEF Dates
<1>5. CASE Keeps
  <2>1. /\ Shrinks /\ answer' = answer /\ log' = log
        /\ \A n \in DOMAIN log :
             log[n] \in Calls /\ answer[log[n]] # NoEntry
    BY <1>5, LenProperties, ElementOfSeq DEF Keeps, TypeOK, OrderInv, LogSound
  <2>2. \A n \in DOMAIN log : seen'[log[n]] = seen[log[n]]
    BY <2>1 DEF Settled
  <2>3. ASSUME NEW id \in Ids PROVE LastUse(id)' = LastUse(id)
    <3>1. Uses(id)' = Uses(id)
      BY <2>1, <2>2 DEF Uses
    <3> QED BY <3>1 DEF LastUse, Uses
  <2>4. LogSound'
    BY <2>1 DEF LogSound
  <2> QED BY <1>2, <1>3, <1>4, <2>1, <2>3, <2>4 DEF OrderInv
<1>6. ASSUME NEW r \in Calls, NEW a \in Answers, Declines(r, a)
      PROVE  OrderInv'
  <2>1. a # NoEntry /\ a.kind # "bundle" /\ Shrinks /\ GivesAnswer(r, a)
    BY <1>6, NoEntryAssumption DEF Declines
  <2>2. LogSound' /\ \A id \in Ids : LastUse(id)' = LastUse(id)
    BY <2>1, AnswerDates DEF OrderInv
  <2> QED BY <1>2, <1>3, <1>4, <2>1, <2>2 DEF OrderInv
<1>7. ASSUME NEW r \in Calls, NEW id \in Ids, NEW t \in Calls,
             NEW how \in {"hot", "task"},
             GivesAnswer(r, BundleAnswer(t, how)), seen'[r].id = id
      PROVE  /\ LogSound' /\ Dates' \in [Ids -> Nat]
             /\ Dates'[id] = Len(log) + 1
             /\ \A x \in Ids \ {id} : Dates'[x] = Dates[x]
  <2>1. BundleAnswer(t, how) # NoEntry /\ BundleAnswer(t, how).kind = "bundle"
    <3>1. BundleAnswer(t, how) \in Answers
      BY DEF BundleAnswer, Answers, TypeOK
    <3> QED BY <3>1, NoEntryAssumption DEF BundleAnswer
  <2>2. /\ LogSound' /\ LastUse(id)' = Len(log) + 1
        /\ \A x \in Ids \ {id} : LastUse(x)' = LastUse(x)
    <3> DEFINE a == BundleAnswer(t, how)
    <3>1. a # NoEntry /\ a.kind = "bundle" /\ GivesAnswer(r, a)
      BY <1>7, <2>1
    <3> HIDE DEF a
    <3> QED BY <1>7, <3>1, AnswerDates DEF OrderInv
  <2>3. Dates' \in [Ids -> Nat]
    <3>1. (TypeOK => DatesBounded)'
      BY DatesType, PTL
    <3> QED BY <3>1 DEF Ids, DatesBounded
  <2>4. Dates' = [x \in Ids |-> LastUse(x)']
    BY DEF Dates, Ids
  <2> QED BY <2>2, <2>3, <2>4 DEF Dates
<1>8. ASSUME NEW r \in Calls, NEW id \in Ids, Serves(r, id) PROVE OrderInv'
  <2> DEFINE e == hot[HotIndex(id)]
  <2>1. id \in HotIds /\ hot' = Append(WithoutHot(id), e) /\ seen'[r].id = id
          /\ GivesAnswer(r, BundleAnswer(e.bundle, "hot"))
    BY <1>8 DEF Serves, HotHit, Touched
  <2>2. e \in HotEntry /\ e.id = id
    BY <1>1, <2>1, FoundInHot
  <2> HIDE DEF e
  <2>3. e.bundle \in Calls
    BY <2>2 DEF HotEntry
  <2>4. /\ LogSound' /\ Dates' \in [Ids -> Nat]
        /\ Dates'[id] = Len(log) + 1
        /\ \A x \in Ids \ {id} : Dates'[x] = Dates[x]
    BY <1>7, <2>1, <2>3
  <2>5. Dated(hot', Dates') /\ Len(hot') = Len(WithoutHot(id)) + 1
    BY <2>1, <2>2, <2>4, LastPut DEF OrderInv
  <2>6. Len(WithoutHot(id)) < Len(hot)
    BY <1>1, <2>1, RemovedDated
  <2>7. Len(WithoutHot(id)) \in Nat
    BY <1>1, WithoutHotSeq, LenProperties
  <2>8. Len(hot') <= MaxHot
    BY <1>1, <2>5, <2>6, <2>7
  <2> QED BY <1>2, <2>4, <2>5, <2>8 DEF OrderInv
<1>9. ASSUME NEW r \in Calls, NEW id \in Ids, NEW t \in Calls,
             Stores(r, id, t)
      PROVE  OrderInv'
  <2> DEFINE e == [id |-> id, bundle |-> t, expires |-> now + HotTTL]
             h == Append(WithoutHot(id), e)
  <2>1. hot' = (IF Len(h) > MaxHot
                THEN SubSeq(h, Len(h) - MaxHot + 1, Len(h)) ELSE h)
          /\ seen'[r].id = id /\ GivesAnswer(r, BundleAnswer(t, "task"))
    BY <1>9 DEF Stores, Stored
  <2>2. e \in HotEntry /\ e.id = id
    BY ConstantsAssumption DEF HotEntry, TypeOK
  <2>3. /\ LogSound' /\ Dates' \in [Ids -> Nat]
        /\ Dates'[id] = Len(log) + 1
        /\ \A x \in Ids \ {id} : Dates'[x] = Dates[x]
    BY <1>7, <2>1
  <2> HIDE DEF e
  <2>4. h \in Seq(HotEntry) /\ Dated(h, Dates')
    BY <2>2, <2>3, LastPut DEF OrderInv
  <2> HIDE DEF h
  <2>5. CASE Len(h) > MaxHot
    <3>1. Len(hot') = MaxHot /\ Dated(hot', Dates')
      BY <2>1, <2>4, <2>5, SuffixDated
    <3> QED BY <1>1, <1>2, <2>3, <3>1 DEF OrderInv
  <2>6. CASE ~(Len(h) > MaxHot)
    <3>1. Len(hot') <= MaxHot /\ Dated(hot', Dates')
      <4>1. Len(h) \in Nat
        BY <2>4, LenProperties
      <4> QED BY <1>1, <2>1, <2>4, <2>6, <4>1
    <3> QED BY <1>2, <2>3, <3>1 DEF OrderInv
  <2> QED BY <2>5, <2>6
<1> QED BY <1>5, <1>6, <1>8, <1>9 DEF Moves

(* The hot tier is within MAX_HOT_BUNDLES and ordered by last use: a hit   *)
(* and a store move their entry behind all others as they log their        *)
(* answer, and nothing else reorders the entries or dates an id.           *)
THEOREM LeastRecentlyUsedFirst == Spec => []LeastRecentFirst
<1>1. Init => OrderInv
  BY ConstantsAssumption DEF Init, OrderInv, LogSound, LeastRecentFirst
<1>2. IInv /\ OrderInv /\ [Next]_vars /\ IInv' => OrderInv'
  BY StepMoves, StepSettles, MoveKeepsOrder
<1>3. OrderInv => LeastRecentFirst
  BY DEF OrderInv
<1> QED BY <1>1, <1>2, <1>3, Invariance, PTL DEF Spec

------------------------------------------------------------------------------
(* What a step may drop. An id has one hot entry, because the entries are  *)
(* strictly ordered.                                                       *)
LEMMA OneEntryPerId ==
  ASSUME TypeOK, LeastRecentFirst, NEW i \in 1..Len(hot),
         NEW j \in 1..Len(hot), hot[i].id = hot[j].id
  PROVE  i = j
<1>1. Dated(hot, Dates) /\ Dates \in [Ids -> Nat]
  BY OrderIsDated, DatesType DEF InOrder, DatesBounded
<1>2. Len(hot) \in Nat /\ hot[i] \in HotEntry
  BY LenProperties, ElementOfSeq DEF TypeOK
<1>3. Dates[hot[i].id] \in Nat
  BY <1>1, <1>2 DEF HotEntry
<1> QED BY <1>1, <1>2, <1>3 DEF Dated

Retains(i) ==
  \/ hot[i].expires < now
  \/ \E j \in DOMAIN hot' : hot'[j].id = hot[i].id
  \/ Len(hot') = MaxHot

LEMMA MissRetains ==
  ASSUME TypeOK, LeastRecentFirst, NEW id, ~ HotHit(id),
         hot' = WithoutHot(id), NEW i \in 1..Len(hot)
  PROVE  Retains(i)
<1>1. hot \in Seq(HotEntry) /\ hot' \in Seq(HotEntry)
  BY WithoutHotSeq DEF TypeOK
<1>2. DOMAIN hot = 1..Len(hot) /\ DOMAIN hot' = 1..Len(hot')
  BY <1>1, LenProperties
<1>3. CASE hot[i].id # id
  BY <1>1, <1>2, <1>3, RemovedOnly DEF Retains
<1>4. CASE hot[i].id = id
  <2>1. id \in HotIds
    BY <1>2, <1>4 DEF HotIds
  <2>2. HotIndex(id) \in 1..Len(hot) /\ hot[HotIndex(id)].id = id
    BY <1>1, <2>1, FoundInHot
  <2>3. HotIndex(id) = i
    BY <1>4, <2>2, OneEntryPerId
  <2> QED BY <2>1, <2>3 DEF HotHit, Retains
<1> QED BY <1>3, <1>4

LEMMA PutRetains ==
  ASSUME TypeOK, NEW id, NEW e \in HotEntry, e.id = id,
         hot' = Append(WithoutHot(id), e), NEW i \in 1..Len(hot)
  PROVE  Retains(i)
<1> DEFINE w == WithoutHot(id)
<1>1. hot \in Seq(HotEntry) /\ w \in Seq(HotEntry)
  BY WithoutHotSeq DEF TypeOK
<1>2. \A j \in 1..Len(w) : w[j] \in HotEntry
  BY <1>1, ElementOfSeq
<1>3. \A x \in 1..Len(hot) : hot[x].id # id => \E j \in 1..Len(w) : w[j] = hot[x]
  BY <1>1, RemovedOnly
<1> HIDE DEF w
<1>4. /\ Len(w) \in Nat /\ hot' \in Seq(HotEntry) /\ Len(hot') = Len(w) + 1
      /\ hot'[Len(w) + 1] = e
      /\ \A j \in 1..Len(w) : hot'[j] = w[j]
  BY <1>1, LenProperties, AppendProperties DEF w
<1>5. DOMAIN hot' = 1..(Len(w) + 1)
  BY <1>4, LenProperties
<1>6. CASE hot[i].id = id
  BY <1>4, <1>5, <1>6 DEF Retains
<1>7. CASE hot[i].id # id
  <2>1. PICK j \in 1..Len(w) : w[j] = hot[i]
    BY <1>3, <1>7
  <2> QED BY <1>4, <1>5, <2>1 DEF Retains
<1> QED BY <1>6, <1>7

LEMMA StoreRetains ==
  ASSUME TypeOK, NEW id \in Ids, NEW t \in Calls, hot' = Stored(id, t),
         NEW i \in 1..Len(hot)
  PROVE  Retains(i)
<1> DEFINE e == [id |-> id, bundle |-> t, expires |-> now + HotTTL]
           h == Append(WithoutHot(id), e)
<1>1. e \in HotEntry /\ e.id = id
  BY ConstantsAssumption DEF HotEntry, TypeOK
<1>2. hot' = IF Len(h) > MaxHot
             THEN SubSeq(h, Len(h) - MaxHot + 1, Len(h)) ELSE h
  BY DEF Stored
<1> HIDE DEF e
<1>3. h \in Seq(HotEntry)
  BY <1>1, WithoutHotSeq, AppendProperties DEF TypeOK
<1>4. CASE Len(h) > MaxHot
  <2> HIDE DEF h
  <2>1. Len(h) \in Nat /\ MaxHot \in Nat \ {0}
    BY <1>3, LenProperties, ConstantsAssumption
  <2>2. \A m \in (Len(h) - MaxHot + 1)..Len(h) : h[m] \in HotEntry
    BY <1>3, <1>4, <2>1, ElementOfSeq
  <2>3. Len(hot') = MaxHot
    <3>1. Len(SubSeq(h, Len(h) - MaxHot + 1, Len(h)))
            = Len(h) - (Len(h) - MaxHot + 1) + 1
      BY <1>4, <2>1, <2>2, SubSeqProperties
    <3> QED BY <1>2, <1>4, <2>1, <3>1
  <2> QED BY <2>3 DEF Retains
<1>5. CASE ~(Len(h) > MaxHot)
  BY <1>1, <1>2, <1>5, PutRetains
<1> QED BY <1>4, <1>5

LEMMA LookUpRetains ==
  ASSUME IInv, LeastRecentFirst, NEW r \in Calls, NEW id \in Ids,
         LookUp(r, id), NEW i \in 1..Len(hot)
  PROVE  Retains(i)
<1> USE DEF IInv
<1>1. CASE ServeHot(r, id)
  <2>1. hot[HotIndex(id)] \in HotEntry /\ hot[HotIndex(id)].id = id
    BY <1>1, FoundInHot DEF ServeHot, HotHit, TypeOK
  <2> QED BY <1>1, <2>1, PutRetains DEF ServeHot, Touched
<1>2. ASSUME NEW s \in Spellings, ~ HotHit(id), TakeDone(r, id)
      PROVE  Retains(i)
  <2>1. inflight[id] \in Calls /\ TakeResult(r, id, inflight[id], WithoutHot(id))
    BY <1>2 DEF TakeDone, TypeOK
  <2>2. hot' = Stored(id, inflight[id]) \/ hot' = WithoutHot(id)
    BY <2>1 DEF TakeResult
  <2> QED BY <1>2, <2>1, <2>2, StoreRetains, MissRetains
<1>3. ASSUME NEW s \in Spellings, ~ HotHit(id),
             Unknown(r, id) \/ StartTask(r, id, s) \/ JoinTask(r, id)
      PROVE  Retains(i)
  BY <1>3, MissRetains DEF Unknown, StartTask, JoinTask
<1>4. CASE ~ HotHit(id) /\ Unknown(r, id)
  BY <1>4, MissRetains DEF Unknown
<1> QED BY <1>1, <1>2, <1>3, <1>4 DEF LookUp, MaterializeOnce

LEMMA StepRetains ==
  ASSUME IInv, LeastRecentFirst, [Next]_vars, phase' # phase,
         NEW i \in 1..Len(hot)
  PROVE  Retains(i)
<1> USE DEF IInv
<1>1. ASSUME hot' = hot PROVE Retains(i)
  <2>1. DOMAIN hot = 1..Len(hot)
    BY LenProperties DEF TypeOK
  <2> QED BY <1>1, <2>1 DEF Retains
<1>2. ASSUME NEW r \in Calls, NEW q \in Requests, Arrive(r, q)
      PROVE  hot' = hot
  BY <1>2 DEF Arrive, cache
<1>3. ASSUME NEW r \in Calls, Resolve(r) \/ Get(r) PROVE Retains(i)
  BY <1>3, FirstStepLooksUp, LookUpRetains
<1>4. ASSUME NEW r \in Calls, Step(r) \/ ScanReturns(r) PROVE phase' = phase
  BY <1>4 DEF Step, ScanReturns
<1>5. ASSUME NEW r \in Calls, Wake(r) PROVE Retains(i)
  <2>1. TakeResult(r, seen[r].id, awaits[r], hot) /\ Pending(r)
    BY <1>5 DEF Wake, Pending
  <2>2. seen[r].id \in Ids /\ awaits[r] \in Calls
    BY <2>1, PendingAwaits DEF TypeOK
  <2>3. hot' = hot \/ hot' = Stored(seen[r].id, awaits[r])
    BY <2>1 DEF TakeResult
  <2> QED BY <1>1, <2>2, <2>3, StoreRetains
<1>6. ASSUME NEW id \in Ids, EvictHot(id) PROVE phase' = phase
  BY <1>6 DEF EvictHot
<1>7. CASE Tick \/ UNCHANGED vars
  BY <1>7 DEF Tick, vars
<1> QED BY <1>1, <1>2, <1>3, <1>4, <1>5, <1>6, <1>7 DEF Next, Idle

(* Serving calls drops a bundle that is still valid only when the hot tier *)
(* is full: a lookup drops nothing but its own id's expired entry, and a   *)
(* store nothing below the cap.                                            *)
THEOREM EvictsOnlyWhenFull == Spec => EvictedOnlyWhenFull
<1>1. IInv /\ LeastRecentFirst /\ [Next]_vars =>
        [phase' # phase =>
           \A i \in DOMAIN hot :
             \/ hot[i].expires < now
             \/ \E j \in DOMAIN hot' : hot'[j].id = hot[i].id
             \/ Len(hot') = MaxHot]_vars
  <2> SUFFICES ASSUME IInv, LeastRecentFirst, [Next]_vars, phase' # phase,
                      NEW i \in DOMAIN hot
               PROVE  Retains(i)
    BY DEF Retains
  <2>1. DOMAIN hot = 1..Len(hot)
    BY LenProperties DEF IInv, TypeOK
  <2> QED BY <2>1, StepRetains
<1> QED BY <1>1, Invariance, LeastRecentlyUsedFirst, PTL
        DEF Spec, EvictedOnlyWhenFull

------------------------------------------------------------------------------
(* The cold tier. An id that a resolve has looked up stays recoverable for *)
(* COLD_TTL_SECONDS: every later resolve of it prolongs its entry, and a   *)
(* lookup drops only an entry past its expiry.                             *)

PastLookUps ==
  \A r \in Calls : seen[r] # NoEntry => seen[r].at <= now

Remembered(r) ==
  \/ now > seen[r].at + ColdTTL
  \/ /\ cold[seen[r].id] # NoEntry
     /\ cold[seen[r].id].expires >= seen[r].at + ColdTTL

AllRemembered ==
  \A r \in Calls : seen[r] # NoEntry /\ call[r].op = "resolve" => Remembered(r)

ColdInv == PastLookUps /\ AllRemembered

(* Time passes and calls come, without a lookup. *)
LEMMA IdleRemembers ==
  ASSUME TypeOK, ColdInv, now' \in Nat, now <= now', seen' = seen,
         cold' = cold, \A r \in Calls : seen[r] # NoEntry => call'[r] = call[r]
  PROVE  ColdInv'
<1>1. \A r \in Calls : seen[r] # NoEntry => seen[r].at \in Nat
  BY DEF TypeOK
<1>2. now \in Nat /\ ColdTTL \in Nat
  BY ConstantsAssumption DEF TypeOK
<1> QED BY <1>1, <1>2 DEF ColdInv, PastLookUps, AllRemembered, Remembered

LEMMA ResolveRemembers ==
  ASSUME IInv, ColdInv, NEW r \in Calls, Resolve(r)
  PROVE  ColdInv'
<1> USE DEF IInv
<1> DEFINE s  == call[r].spelling
           id == IdFor(KeyOf[s])
           e  == [spelling |-> s, expires |-> now + ColdTTL]
<1>1. /\ id \in Ids /\ cold' = [cold EXCEPT ![id] = e]
      /\ seen' = [seen EXCEPT ![r] = [id |-> id, at |-> now]]
      /\ now' = now /\ call' = call
  BY DEF Resolve
<1>2. s \in Spellings
  BY DEF Resolve, Runs, Places, Requests
<1>3. now \in Nat /\ ColdTTL \in Nat
  BY ConstantsAssumption DEF TypeOK
<1> HIDE DEF s, id
<1>4. e \in ColdEntry /\ e # NoEntry /\ e.expires = now + ColdTTL
  BY <1>2, <1>3, NoEntryAssumption DEF ColdEntry
<1> HIDE DEF e
<1>5. \A u \in Calls : seen[u] # NoEntry =>
        seen[u].at \in Nat /\ seen[u].id \in Ids /\ seen[u].at <= now
  BY DEF TypeOK, ColdInv, PastLookUps
<1>6. seen'[r].id = id /\ seen'[r].at = now
        /\ \A u \in Calls \ {r} : seen'[u] = seen[u]
  BY <1>1 DEF TypeOK
<1>7. cold'[id] = e /\ \A i \in Ids \ {id} : cold'[i] = cold[i]
  BY <1>1 DEF TypeOK
<1>8. ASSUME NEW u \in Calls, seen'[u] # NoEntry, call'[u].op = "resolve"
      PROVE  Remembered(u)'
  <2>1. CASE u = r
    BY <1>1, <1>3, <1>4, <1>6, <1>7, <2>1 DEF Remembered
  <2>2. CASE u # r /\ seen[u].id = id
    BY <1>1, <1>3, <1>4, <1>5, <1>6, <1>7, <1>8, <2>2 DEF Remembered
  <2>3. CASE u # r /\ seen[u].id # id
    BY <1>1, <1>5, <1>6, <1>7, <1>8, <2>3
       DEF Remembered, ColdInv, AllRemembered
  <2> QED BY <2>1, <2>2, <2>3
<1>9. PastLookUps'
  BY <1>1, <1>3, <1>5, <1>6 DEF PastLookUps
<1> QED BY <1>8, <1>9 DEF ColdInv, AllRemembered

LEMMA GetRemembers ==
  ASSUME IInv, ColdInv, NEW r \in Calls, Get(r)
  PROVE  ColdInv'
<1> USE DEF IInv
<1> DEFINE id == call[r].id
<1>1. /\ seen' = [seen EXCEPT ![r] = [id |-> id, at |-> now]]
      /\ now' = now /\ call' = call /\ call[r].op = "get"
      /\ \/ cold' = cold
         \/ ~ ColdHit(id) /\ cold' = [cold EXCEPT ![id] = NoEntry]
  BY DEF Get, Runs, Unknown
<1>2. id \in Ids
  BY DEF Get, Runs, Places, Requests
<1>3. now \in Nat /\ ColdTTL \in Nat
  BY ConstantsAssumption DEF TypeOK
<1> HIDE DEF id
<1>4. \A u \in Calls : seen[u] # NoEntry =>
        seen[u].at \in Nat /\ seen[u].id \in Ids /\ seen[u].at <= now
  BY DEF TypeOK, ColdInv, PastLookUps
<1>5. seen'[r].at = now /\ \A u \in Calls \ {r} : seen'[u] = seen[u]
  BY <1>1 DEF TypeOK
<1>6. ASSUME NEW u \in Calls, seen'[u] # NoEntry, call'[u].op = "resolve"
      PROVE  Remembered(u)'
  <2>1. u # r /\ seen'[u] = seen[u] /\ Remembered(u)
    BY <1>1, <1>5, <1>6 DEF ColdInv, AllRemembered
  <2>2. CASE cold'[seen[u].id] = cold[seen[u].id]
    BY <1>1, <2>1, <2>2 DEF Remembered
  <2>3. CASE cold'[seen[u].id] # cold[seen[u].id]
    <3>1. seen[u].id = id /\ ~ ColdHit(id)
      BY <1>1, <1>4, <1>6, <2>1, <2>3 DEF TypeOK
    <3>2. cold[id] # NoEntry => cold[id].expires \in Nat
      BY <1>2 DEF TypeOK, ColdEntry
    <3>3. now > seen[u].at + ColdTTL
      BY <1>3, <1>4, <1>6, <2>1, <3>1, <3>2 DEF Remembered, ColdHit
    <3> QED BY <1>1, <2>1, <3>3 DEF Remembered
  <2> QED BY <2>2, <2>3
<1>7. PastLookUps'
  BY <1>1, <1>3, <1>4, <1>5 DEF PastLookUps
<1> QED BY <1>6, <1>7 DEF ColdInv, AllRemembered

LEMMA NextRemembers == IInv /\ ColdInv /\ [Next]_vars => ColdInv'
<1> SUFFICES ASSUME IInv, ColdInv, [Next]_vars PROVE ColdInv'
  OBVIOUS
<1> USE DEF IInv
<1>1. ASSUME UNCHANGED <<now, seen, cold, call>> PROVE ColdInv'
  BY <1>1, IdleRemembers DEF TypeOK
<1>2. ASSUME NEW r \in Calls, NEW q \in Requests, Arrive(r, q) PROVE ColdInv'
  <2>1. seen[r] = NoEntry /\ call' = [call EXCEPT ![r] = q] /\ now' = now
          /\ seen' = seen /\ cold' = cold
    BY <1>2 DEF Arrive, Places, cache
  <2>2. \A u \in Calls : seen[u] # NoEntry => call'[u] = call[u]
    BY <2>1 DEF TypeOK
  <2> QED BY <2>1, <2>2, IdleRemembers DEF TypeOK
<1>3. ASSUME NEW r \in Calls, Step(r) \/ ScanReturns(r) \/ Wake(r)
      PROVE  ColdInv'
  BY <1>1, <1>3 DEF Step, ScanReturns, Wake, cache
<1>4. ASSUME NEW id \in Ids, EvictHot(id) PROVE ColdInv'
  BY <1>1, <1>4 DEF EvictHot
<1>5. CASE Tick
  BY <1>5, IdleRemembers DEF Tick, cache, TypeOK
<1>6. CASE UNCHANGED vars
  BY <1>1, <1>6 DEF vars, cache
<1> QED BY <1>2, <1>3, <1>4, <1>5, <1>6, ResolveRemembers, GetRemembers
        DEF Next, Idle

(* A call told that its id is unknown is a get that missed the cold tier. *)
LEMMA OnlyGetUnknown ==
  ASSUME IInv, [Next]_vars, NEW g \in Calls, answer[g] = NoEntry,
         answer'[g] # NoEntry, answer'[g].kind = "unknown"
  PROVE  call[g] \in Requests /\ call[g].op = "get" /\ ~ ColdHit(call[g].id)
<1> USE DEF IInv
<1>1. answer' # answer
  OBVIOUS
<1>2. ASSUME NEW r \in Calls, NEW a, Answer(r, a), a.kind # "unknown"
      PROVE  FALSE
  BY <1>2 DEF Answer, TypeOK
<1>3. ASSUME NEW r \in Calls, NEW id, NEW t, NEW h, TakeResult(r, id, t, h)
      PROVE  FALSE
  <2>1. PICK a : Answer(r, a) /\ a.kind # "unknown"
    BY <1>3 DEF TakeResult, BundleAnswer
  <2> QED BY <1>2, <2>1
<1>4. ASSUME NEW r \in Calls, NEW id, ServeHot(r, id) PROVE FALSE
  <2>1. PICK a : Answer(r, a) /\ a.kind # "unknown"
    BY <1>4 DEF ServeHot, BundleAnswer
  <2> QED BY <1>2, <2>1
<1>5. ASSUME NEW r \in Calls, NEW id, NEW s, MaterializeOnce(r, id, s)
      PROVE  FALSE
  BY <1>1, <1>3, <1>5 DEF MaterializeOnce, StartTask, JoinTask, TakeDone
<1>6. ASSUME NEW r \in Calls, Resolve(r) PROVE FALSE
  BY <1>4, <1>5, <1>6 DEF Resolve
<1>7. ASSUME NEW r \in Calls, Get(r)
      PROVE  call[g] \in Requests /\ call[g].op = "get" /\ ~ ColdHit(call[g].id)
  <2>1. ~ ColdHit(call[r].id) /\ Unknown(r, call[r].id)
    BY <1>4, <1>5, <1>7 DEF Get
  <2>2. g = r
    BY <1>1, <2>1 DEF Unknown, Answer, TypeOK
  <2> QED BY <1>7, <2>1, <2>2 DEF Get, Runs, Places
<1>8. ASSUME NEW r \in Calls, Wake(r) PROVE FALSE
  BY <1>3, <1>8 DEF Wake
<1>9. ASSUME NEW r \in Calls, NEW q, Arrive(r, q) PROVE FALSE
  BY <1>1, <1>9 DEF Arrive
<1>10. ASSUME NEW r \in Calls, Step(r) \/ ScanReturns(r) PROVE FALSE
  BY <1>1, <1>10 DEF Step, ScanReturns
<1>11. ASSUME NEW id, EvictHot(id) PROVE FALSE
  BY <1>1, <1>11 DEF EvictHot
<1>12. ~ Tick /\ ~ UNCHANGED vars
  BY <1>1 DEF Tick, vars
<1> QED BY <1>6, <1>7, <1>8, <1>9, <1>10, <1>11, <1>12 DEF Next, Idle

(* get returns None only for an id that no resolve was called for in the   *)
(* last COLD_TTL_SECONDS, whatever became of its hot entry and its scans.  *)
THEOREM EvictionIsRecoverable == Spec => Recoverable
<1>1. Init => ColdInv
  BY DEF Init, ColdInv, PastLookUps, AllRemembered
<1>2. IInv /\ ColdInv /\ [Next]_vars => ColdInv'
  BY NextRemembers
<1>3. IInv /\ ColdInv /\ [Next]_vars =>
        [\A g \in Calls :
           (answer[g] = NoEntry /\ answer'[g] # NoEntry
              /\ answer'[g].kind = "unknown") =>
             \A r \in Calls \ {g} :
               (seen[r] # NoEntry /\ call[r].op = "resolve"
                  /\ seen[r].id = call[g].id)
                 => now > seen[r].at + ColdTTL]_vars
  <2> SUFFICES ASSUME IInv, ColdInv, [Next]_vars, NEW g \in Calls,
                      answer[g] = NoEntry, answer'[g] # NoEntry,
                      answer'[g].kind = "unknown",
                      NEW r \in Calls, seen[r] # NoEntry,
                      call[r].op = "resolve", seen[r].id = call[g].id
               PROVE  now > seen[r].at + ColdTTL
    OBVIOUS
  <2>1. Remembered(r) /\ ~ ColdHit(seen[r].id)
    BY OnlyGetUnknown DEF ColdInv, AllRemembered
  <2>2. /\ now \in Nat /\ ColdTTL \in Nat /\ seen[r].at \in Nat
        /\ cold[seen[r].id] # NoEntry => cold[seen[r].id].expires \in Nat
    <3>1. seen[r].at \in Nat /\ seen[r].id \in Ids
      BY DEF IInv, TypeOK
    <3> QED BY <3>1, ConstantsAssumption DEF IInv, TypeOK, ColdEntry
  <2> QED BY <2>1, <2>2 DEF Remembered, ColdHit
<1> QED BY <1>1, <1>2, <1>3, Invariance, PTL DEF Spec, Recoverable

------------------------------------------------------------------------------
(* The wakeups. A call that awaits a task, its own or another's, is among  *)
(* the done-callbacks of the task while that runs, and once it has ended   *)
(* the call's wakeup is in the loop's queue.                               *)

In(x, s) == \E i \in 1..Len(s) : s[i] = x

AwaitsRunning ==
  \A w \in Calls : Pending(w) /\ task[awaits[w]] \in Running =>
    In(w, awaiters[awaits[w]])

WakesWhenDone ==
  \A w \in Calls : Pending(w) /\ task[awaits[w]] \in Done =>
    In(CallBack("wake", w), ready)

WakeInv == AwaitsRunning /\ WakesWhenDone

LEMMA InTail ==
  ASSUME NEW S, NEW s \in Seq(S), s # <<>>, NEW x, In(x, s), x # Head(s)
  PROVE  In(x, Tail(s))
<1>1. PICK i \in 1..Len(s) : s[i] = x
  BY DEF In
<1>2. Len(s) \in Nat /\ Len(s) > 0 /\ i # 1 /\ Len(Tail(s)) = Len(s) - 1
  BY <1>1, LenProperties, HeadTailProperties, EmptySeq
<1>3. i - 1 \in 1..Len(Tail(s)) /\ Tail(s)[i - 1] = s[i]
  BY <1>2, HeadTailProperties
<1> QED BY <1>1, <1>3 DEF In

LEMMA InAppend ==
  ASSUME NEW S, NEW s \in Seq(S), NEW y \in S, NEW x, In(x, s) \/ x = y
  PROVE  In(x, Append(s, y))
<1>1. /\ Len(s) \in Nat /\ Len(Append(s, y)) = Len(s) + 1
      /\ Append(s, y)[Len(s) + 1] = y
      /\ \A i \in 1..Len(s) : Append(s, y)[i] = s[i]
  BY LenProperties, AppendProperties
<1> QED BY <1>1 DEF In

LEMMA InConcat ==
  ASSUME NEW S, NEW s \in Seq(S), NEW u \in Seq(S), NEW x,
         In(x, s) \/ In(x, u)
  PROVE  In(x, s \o u)
<1>1. /\ Len(s) \in Nat /\ Len(u) \in Nat /\ Len(s \o u) = Len(s) + Len(u)
      /\ \A i \in 1..(Len(s) + Len(u)) :
           (s \o u)[i] = IF i <= Len(s) THEN s[i] ELSE u[i - Len(s)]
  BY LenProperties, ConcatProperties
<1>2. CASE In(x, s)
  <2>1. PICK i \in 1..Len(s) : s[i] = x
    BY <1>2 DEF In
  <2> QED BY <1>1, <2>1 DEF In
<1>3. CASE In(x, u)
  <2>1. PICK i \in 1..Len(u) : u[i] = x
    BY <1>3 DEF In
  <2>2. Len(s) + i \in 1..(Len(s) + Len(u)) /\ ~(Len(s) + i <= Len(s))
          /\ (Len(s) + i) - Len(s) = i
    BY <1>1
  <2>3. (s \o u)[Len(s) + i] = x
    BY <1>1, <2>1, <2>2
  <2> QED BY <1>1, <2>2, <2>3 DEF In
<1> QED BY <1>2, <1>3

LEMMA WakeupsHold ==
  ASSUME awaiters \in [Calls -> Seq(Calls)], NEW t \in Calls
  PROVE  /\ Wakeups(t) \in Seq(Callback)
         /\ \A w : In(w, awaiters[t]) => In(CallBack("wake", w), Wakeups(t))
<1> DEFINE n == Len(awaiters[t])
<1>1. n \in Nat /\ \A i \in 1..n : awaiters[t][i] \in Calls
  BY LenProperties, ElementOfSeq
<1>2. \A i \in 1..n : CallBack("wake", awaiters[t][i]) \in Callback
  BY <1>1, CallBackType
<1>3. Wakeups(t) = [i \in 1..n |-> CallBack("wake", awaiters[t][i])]
  BY DEF Wakeups
<1> HIDE DEF n
<1>4. Wakeups(t) \in Seq(Callback) /\ Len(Wakeups(t)) = n
  BY <1>1, <1>2, <1>3
<1>5. ASSUME NEW w, In(w, awaiters[t])
      PROVE  In(CallBack("wake", w), Wakeups(t))
  <2>1. PICK i \in 1..n : awaiters[t][i] = w
    BY <1>5 DEF In, n
  <2>2. Wakeups(t)[i] = CallBack("wake", w)
    BY <1>3, <2>1
  <2> QED BY <1>4, <2>1, <2>2 DEF In
<1> QED BY <1>4, <1>5

(* Popping a callback that is not a wakeup keeps every wakeup. *)
LEMMA PopKeepsWakeups ==
  ASSUME TypeOK, ready # <<>>, NEW k \in {"call", "step"}, NEW r,
         Head(ready) = CallBack(k, r), NEW t, In(CallBack("wake", t), ready)
  PROVE  In(CallBack("wake", t), Tail(ready))
<1>1. CallBack("wake", t) # Head(ready)
  BY DEF CallBack
<1> QED BY <1>1, InTail DEF TypeOK

LEMMA LookUpKeepsWakeups ==
  ASSUME IInv, WakeInv, NEW r \in Calls, phase[r] = "queued", NEW id \in Ids,
         ready # <<>>, Head(ready) = CallBack("call", r), LookUp(r, id)
  PROVE  WakeInv'
<1> USE DEF IInv
<1>1. \A w \in Calls : In(CallBack("wake", w), ready) =>
        In(CallBack("wake", w), Tail(ready))
  BY PopKeepsWakeups
<1>2. task[r] = "none" /\ ~ Pending(r)
  BY DEF Places, Pending
<1>3. ASSUME NEW h, Answer(r, h), task' = task, awaiters' = awaiters,
             ready' = Tail(ready),
             \A w \in Calls \ {r} : awaits'[w] = awaits[w]
      PROVE  WakeInv'
  <2>1. \A w \in Calls : Pending(w)' => Pending(w) /\ w # r
    BY <1>3 DEF Answer, Pending, TypeOK
  <2> QED BY <1>1, <1>3, <2>1 DEF WakeInv, AwaitsRunning, WakesWhenDone
<1>4. CASE ServeHot(r, id) \/ Unknown(r, id)
  BY <1>3, <1>4 DEF ServeHot, Unknown, tasks
<1>5. ASSUME NEW s \in Spellings, StartTask(r, id, s)
      PROVE  WakeInv'
  <2>1. /\ task' = [task EXCEPT ![r] = "created"]
        /\ awaiters' = [awaiters EXCEPT ![r] = <<r>>]
        /\ awaits' = [awaits EXCEPT ![r] = r]
        /\ phase' = [phase EXCEPT ![r] = "owner"]
        /\ ready' = Append(Tail(ready), CallBack("step", r))
    BY <1>5 DEF StartTask
  <2>2. \A w \in Calls : In(CallBack("wake", w), Tail(ready)) =>
          In(CallBack("wake", w), ready')
    <3>1. Tail(ready) \in Seq(Callback) /\ CallBack("step", r) \in Callback
      BY ReadySeq, CallBackType DEF TypeOK
    <3> QED BY <2>1, <3>1, InAppend
  <2>3. In(r, <<r>>)
    BY DEF In
  <2>4. awaits'[r] = r /\ task'[r] \notin Done /\ In(r, awaiters'[r])
    BY <2>1, <2>3 DEF TypeOK, Done, Succeeded
  <2>5. ASSUME NEW w \in Calls \ {r}, Pending(w)'
        PROVE  /\ Pending(w) /\ awaits'[w] = awaits[w]
               /\ task'[awaits[w]] = task[awaits[w]]
               /\ awaiters'[awaits[w]] = awaiters[awaits[w]]
    <3>1. Pending(w) /\ awaits'[w] = awaits[w]
      BY <2>1, <2>5 DEF TypeOK, Pending
    <3>2. awaits[w] \in Calls /\ awaits[w] # r
      BY <1>2, <3>1, PendingAwaits DEF Running, Done, Succeeded
    <3> QED BY <2>1, <3>1, <3>2 DEF TypeOK
  <2> QED BY <1>1, <2>2, <2>4, <2>5 DEF WakeInv, AwaitsRunning, WakesWhenDone
<1>6. CASE JoinTask(r, id)
  <2> DEFINE o == inflight[id]
  <2>1. /\ o # NoCall /\ o \in Calls /\ task' = task /\ task[o] \notin Done
        /\ awaiters' = [awaiters EXCEPT ![o] = Append(@, r)]
        /\ awaits' = [awaits EXCEPT ![r] = o]
        /\ phase' = [phase EXCEPT ![r] = "waiter"]
        /\ ready' = Tail(ready)
    BY <1>6 DEF JoinTask, tasks, TypeOK
  <2> HIDE DEF o
  <2>2. In(r, awaiters'[o])
          /\ \A t \in Calls : \A w : In(w, awaiters[t]) => In(w, awaiters'[t])
    <3>1. \A w : In(w, awaiters[o]) \/ w = r => In(w, Append(awaiters[o], r))
      BY <2>1, InAppend DEF TypeOK
    <3> QED BY <2>1, <3>1 DEF TypeOK
  <2>3. ASSUME NEW w \in Calls \ {r}, Pending(w)'
        PROVE  Pending(w) /\ awaits'[w] = awaits[w] /\ awaits[w] \in Calls
    <3>1. Pending(w) /\ awaits'[w] = awaits[w]
      BY <2>1, <2>3 DEF TypeOK, Pending
    <3> QED BY <3>1, PendingAwaits
  <2>4. awaits'[r] = o
    BY <2>1 DEF TypeOK
  <2> QED BY <1>1, <2>1, <2>2, <2>3, <2>4
          DEF WakeInv, AwaitsRunning, WakesWhenDone
<1>7. CASE TakeDone(r, id)
  <2>1. /\ task' = task /\ awaiters' = awaiters /\ ready' = Tail(ready)
        /\ awaits' = [awaits EXCEPT ![r] = inflight[id]]
        /\ \E h : Answer(r, h)
    BY <1>7 DEF TakeDone, TakeResult, tasks
  <2> QED BY <1>3, <2>1 DEF TypeOK
<1> QED BY <1>4, <1>5, <1>6, <1>7 DEF LookUp, MaterializeOnce

LEMMA StepKeepsWakeups ==
  ASSUME IInv, WakeInv, NEW t \in Calls, Step(t)
  PROVE  WakeInv'
<1> USE DEF IInv
<1>1. /\ ready # <<>> /\ Head(ready) = CallBack("step", t) /\ phase' = phase
      /\ awaits' = awaits /\ Tail(ready) \in Seq(Callback)
  BY ReadySeq DEF Step, TypeOK
<1>2. \A w \in Calls : In(CallBack("wake", w), ready) =>
        In(CallBack("wake", w), Tail(ready))
  BY <1>1, PopKeepsWakeups
<1>3. \A w \in Calls : Pending(w)' => Pending(w) /\ awaits[w] \in Calls
  BY <1>1, PendingAwaits DEF Pending
<1>4. ASSUME NEW outcome \in Done, task[t] \in Running, Finish(t, outcome)
      PROVE  WakeInv'
  <2>1. /\ task' = [task EXCEPT ![t] = outcome]
        /\ awaiters' = [awaiters EXCEPT ![t] = <<>>]
        /\ ready' = Tail(ready) \o Wakeups(t)
    BY <1>4 DEF Finish
  <2>2. \A w \in Calls : Pending(w) /\ awaits[w] = t =>
          In(CallBack("wake", w), Wakeups(t))
    BY <1>4, WakeupsHold DEF TypeOK, WakeInv, AwaitsRunning
  <2>3. \A w \in Calls : In(CallBack("wake", w), Tail(ready))
                           \/ In(CallBack("wake", w), Wakeups(t)) =>
          In(CallBack("wake", w), ready')
    BY <1>1, <2>1, WakeupsHold, InConcat DEF TypeOK
  <2>4. task'[t] \notin Running
    BY <2>1 DEF TypeOK, Done, Succeeded, Running
  <2>5. \A u \in Calls \ {t} :
          task'[u] = task[u] /\ awaiters'[u] = awaiters[u]
    BY <2>1 DEF TypeOK
  <2> QED BY <1>1, <1>2, <1>3, <2>2, <2>3, <2>4, <2>5
          DEF WakeInv, AwaitsRunning, WakesWhenDone
<1>5. CASE task[t] = "created" /\ Finish(t, "full")
  BY <1>4, <1>5 DEF Running, Done, Succeeded
<1>6. CASE /\ task[t] = "created" /\ task' = [task EXCEPT ![t] = "scanning"]
           /\ ready' = Tail(ready) /\ awaiters' = awaiters
  BY <1>1, <1>2, <1>3, <1>6
     DEF WakeInv, AwaitsRunning, WakesWhenDone, TypeOK, Running, Done, Succeeded
<1>7. CASE task[t] = "resumed" /\ \E outcome \in Done : Finish(t, outcome)
  BY <1>4, <1>7 DEF Running
<1> QED BY <1>5, <1>6, <1>7 DEF Step

LEMMA NextKeepsWakeups ==
  IInv /\ WakeInv /\ [Next]_vars => WakeInv'
<1> SUFFICES ASSUME IInv, WakeInv, [Next]_vars PROVE WakeInv'
  OBVIOUS
<1> USE DEF IInv
<1>1. \A w \in Calls : Pending(w) => awaits[w] \in Calls
  BY PendingAwaits
<1>2. ASSUME NEW k \in {"call", "step"}, NEW r \in Calls,
             ready' = Append(ready, CallBack(k, r)), awaiters' = awaiters,
             awaits' = awaits, \A w \in Calls : Pending(w)' => Pending(w),
             \A t \in Calls : /\ task'[t] \in Running <=> task[t] \in Running
                              /\ task'[t] \in Done <=> task[t] \in Done
      PROVE  WakeInv'
  <2>1. \A w \in Calls : In(CallBack("wake", w), ready) =>
          In(CallBack("wake", w), ready')
    BY <1>2, InAppend, CallBackType DEF TypeOK
  <2> QED BY <1>1, <1>2, <2>1 DEF WakeInv, AwaitsRunning, WakesWhenDone
<1>3. ASSUME NEW r \in Calls, NEW q \in Requests, Arrive(r, q) PROVE WakeInv'
  <2>1. phase' = [phase EXCEPT ![r] = "queued"] /\ task' = task
          /\ awaiters' = awaiters /\ awaits' = awaits
          /\ ready' = Append(ready, CallBack("call", r))
    BY <1>3 DEF Arrive, tasks
  <2> QED BY <1>2, <2>1 DEF TypeOK, Pending
<1>4. ASSUME NEW r \in Calls, Resolve(r) \/ Get(r) PROVE WakeInv'
  BY <1>4, FirstStepLooksUp, LookUpKeepsWakeups
<1>5. ASSUME NEW r \in Calls, Step(r) PROVE WakeInv'
  BY <1>5, StepKeepsWakeups
<1>6. ASSUME NEW r \in Calls, ScanReturns(r) PROVE WakeInv'
  <2>1. phase' = phase /\ task[r] = "scanning" /\ awaiters' = awaiters
          /\ task' = [task EXCEPT ![r] = "resumed"] /\ awaits' = awaits
          /\ ready' = Append(ready, CallBack("step", r))
    BY <1>6 DEF ScanReturns
  <2> QED BY <1>2, <2>1 DEF TypeOK, Running, Done, Succeeded, Pending
<1>7. ASSUME NEW r \in Calls, Wake(r) PROVE WakeInv'
  <2>1. /\ ready # <<>> /\ Head(ready) = CallBack("wake", r)
        /\ phase' = [phase EXCEPT ![r] = "answered"] /\ ready' = Tail(ready)
        /\ task' = task /\ awaiters' = awaiters /\ awaits' = awaits
    BY <1>7 DEF Wake, TakeResult, Answer, tasks
  <2>2. \A w \in Calls \ {r} : CallBack("wake", w) # Head(ready)
    BY <2>1 DEF CallBack
  <2>3. \A w \in Calls \ {r} : In(CallBack("wake", w), ready) =>
          In(CallBack("wake", w), ready')
    BY <2>1, <2>2, InTail DEF TypeOK
  <2>4. \A w \in Calls : Pending(w)' => Pending(w) /\ w # r
    BY <2>1 DEF TypeOK, Pending
  <2> QED BY <2>1, <2>3, <2>4 DEF WakeInv, AwaitsRunning, WakesWhenDone
<1>8. ASSUME UNCHANGED <<ready, phase, awaits, tasks, awaiters>> PROVE WakeInv'
  BY <1>8 DEF WakeInv, AwaitsRunning, WakesWhenDone, Pending, tasks
<1>9. ASSUME NEW id \in Ids, EvictHot(id) PROVE WakeInv'
  BY <1>8, <1>9 DEF EvictHot
<1>10. CASE Tick
  BY <1>8, <1>10 DEF Tick
<1>11. CASE UNCHANGED vars
  BY <1>8, <1>11 DEF vars
<1> QED BY <1>3, <1>4, <1>5, <1>6, <1>7, <1>9, <1>10, <1>11 DEF Next, Idle

LEMMA WakeInvariance == Spec => []WakeInv
<1>1. Init => WakeInv
  BY DEF Init, WakeInv, AwaitsRunning, WakesWhenDone, Pending
<1>2. IInv /\ WakeInv /\ [Next]_vars => WakeInv'
  BY NextKeepsWakeups
<1> QED BY <1>1, <1>2, Invariance, PTL DEF Spec

(* An idle loop leaves no registration of a dead task in _inflight: as     *)
(* long as the owner of an ended task has not run its finally clause, its  *)
(* wakeup is queued.                                                       *)
THEOREM NoRegistrationOfTheDead == Spec => []NoDeadTask
<1>1. ASSUME IInv, WakeInv PROVE NoDeadTask
  <2> SUFFICES ASSUME ready = <<>>, NEW id \in Ids, inflight[id] # NoCall
               PROVE  task[inflight[id]] \in Running
    BY DEF NoDeadTask
  <2> DEFINE t == inflight[id]
  <2>1. t \in Calls /\ phase[t] = "owner" /\ task[t] # "none"
          /\ task[t] \in TaskStates
    BY <1>1 DEF IInv, TypeOK, Flight, Places
  <2>2. ~ In(CallBack("wake", t), ready)
    BY DEF In
  <2>3. task[t] \notin Done
    BY <1>1, <2>1, <2>2 DEF WakeInv, WakesWhenDone, Pending, IInv, Places
  <2> QED BY <2>1, <2>3 DEF TaskStates
<1> QED BY <1>1, Invariance, WakeInvariance, PTL

------------------------------------------------------------------------------
(* The order of the stores. A late waiter stores the bundle of a task that *)
(* is no longer registered; no newer scan of its address has ended by      *)
(* then, because the loop's queue is FIFO: the wakeups of a finished task  *)
(* stand before the first step of any task started after it.               *)

(* The bundles of id at hand are no newer than that of t. *)
NewestOf(t) ==
  \A u \in Calls : task[u] \in Succeeded /\ seen[u].id = seen[t].id =>
    seen[u].at <= seen[t].at

RegisteredNewest ==
  \A t, u \in Calls :
    (/\ task[t] # "none" /\ inflight[seen[t].id] = t
     /\ task[u] # "none" /\ seen[u].id = seen[t].id)
      => seen[u].at <= seen[t].at

AwaitedNewest ==
  \A w \in Calls : Pending(w) /\ task[awaits[w]] \in Done => NewestOf(awaits[w])

(* A step is queued for tasks only. *)
StepsOfTasks ==
  \A t \in Calls : In(CallBack("step", t), ready) => task[t] # "none"

(* Callback a stands in q before every b. *)
Before(a, b, q) ==
  \E i \in 1..Len(q) : q[i] = a /\ \A j \in 1..Len(q) : q[j] = b => i < j

WakesBeforeSteps ==
  \A w, u \in Calls :
    (/\ Pending(w) /\ task[awaits[w]] \in Done
     /\ task[u] \in Running /\ seen[u].id = seen[awaits[w]].id)
      => /\ task[u] = "created"
         /\ Before(CallBack("wake", w), CallBack("step", u), ready)

OrderOfScans ==
  PastLookUps /\ RegisteredNewest /\ AwaitedNewest
    /\ StepsOfTasks /\ WakesBeforeSteps

LEMMA BeforeTail ==
  ASSUME NEW S, NEW q \in Seq(S), q # <<>>, NEW a, NEW b, Before(a, b, q),
         a # Head(q)
  PROVE  Before(a, b, Tail(q))
<1>1. PICK i \in 1..Len(q) : q[i] = a /\ \A j \in 1..Len(q) : q[j] = b => i < j
  BY DEF Before
<1>2. Len(q) \in Nat /\ Len(q) > 0 /\ i # 1 /\ Len(Tail(q)) = Len(q) - 1
        /\ \A j \in 1..(Len(q) - 1) : Tail(q)[j] = q[j + 1]
  BY <1>1, LenProperties, HeadTailProperties, EmptySeq
<1>3. i - 1 \in 1..Len(Tail(q)) /\ Tail(q)[i - 1] = a
  BY <1>1, <1>2
<1>4. ASSUME NEW j \in 1..Len(Tail(q)), Tail(q)[j] = b PROVE i - 1 < j
  <2>1. j + 1 \in 1..Len(q) /\ q[j + 1] = b
    BY <1>2, <1>4
  <2> QED BY <1>1, <1>2, <2>1
<1> QED BY <1>3, <1>4 DEF Before

LEMMA BeforeHead ==
  ASSUME NEW S, NEW q \in Seq(S), q # <<>>, NEW a, NEW b, Head(q) = b
  PROVE  ~ Before(a, b, q)
<1>1. Len(q) \in Nat /\ 1 \in 1..Len(q) /\ q[1] = b
  BY LenProperties, HeadTailProperties, EmptySeq
<1> QED BY <1>1 DEF Before

(* What is put behind q stands behind what is in q. *)
LEMMA BeforeConcat ==
  ASSUME NEW S, NEW q \in Seq(S), NEW p \in Seq(S), NEW a, NEW b,
         Before(a, b, q) \/ (In(a, q) /\ ~ In(b, q))
  PROVE  Before(a, b, q \o p)
<1>1. /\ Len(q) \in Nat /\ Len(p) \in Nat /\ Len(q \o p) = Len(q) + Len(p)
      /\ \A i \in 1..(Len(q) + Len(p)) :
           (q \o p)[i] = IF i <= Len(q) THEN q[i] ELSE p[i - Len(q)]
  BY LenProperties, ConcatProperties
<1>2. PICK i \in 1..Len(q) : q[i] = a /\ \A j \in 1..Len(q) : q[j] = b => i < j
  BY DEF Before, In
<1>3. i \in 1..(Len(q) + Len(p)) /\ (q \o p)[i] = a
  BY <1>1, <1>2
<1>4. ASSUME NEW j \in 1..(Len(q) + Len(p)), (q \o p)[j] = b PROVE i < j
  <2>1. CASE j <= Len(q)
    BY <1>1, <1>2, <1>4, <2>1
  <2>2. CASE ~(j <= Len(q))
    BY <1>1, <1>2, <2>2
  <2> QED BY <2>1, <2>2
<1> QED BY <1>1, <1>3, <1>4 DEF Before

LEMMA BeforeAppend ==
  ASSUME NEW S, NEW q \in Seq(S), NEW e \in S, NEW a, NEW b,
         Before(a, b, q) \/ (In(a, q) /\ ~ In(b, q))
  PROVE  Before(a, b, Append(q, e))
<1>1. /\ Len(q) \in Nat /\ Len(Append(q, e)) = Len(q) + 1
      /\ \A i \in 1..Len(q) : Append(q, e)[i] = q[i]
  BY LenProperties, AppendProperties
<1>2. PICK i \in 1..Len(q) : q[i] = a /\ \A j \in 1..Len(q) : q[j] = b => i < j
  BY DEF Before, In
<1>3. i \in 1..(Len(q) + 1) /\ Append(q, e)[i] = a
  BY <1>1, <1>2
<1>4. ASSUME NEW j \in 1..(Len(q) + 1), Append(q, e)[j] = b PROVE i < j
  <2>1. CASE j \in 1..Len(q)
    BY <1>1, <1>2, <1>4, <2>1
  <2>2. CASE j \notin 1..Len(q)
    BY <1>1, <1>2, <2>2
  <2> QED BY <2>1, <2>2
<1> QED BY <1>1, <1>3, <1>4 DEF Before

(* What is in a tail, or in the queue but not put there, was in the queue. *)
LEMMA InOfTail ==
  ASSUME NEW S, NEW q \in Seq(S), q # <<>>, NEW x, In(x, Tail(q))
  PROVE  In(x, q)
<1>1. PICK i \in 1..Len(Tail(q)) : Tail(q)[i] = x
  BY DEF In
<1>2. Len(q) \in Nat /\ Len(Tail(q)) = Len(q) - 1
        /\ \A j \in 1..(Len(q) - 1) : Tail(q)[j] = q[j + 1]
  BY LenProperties, HeadTailProperties
<1>3. i + 1 \in 1..Len(q) /\ q[i + 1] = x
  BY <1>1, <1>2
<1> QED BY <1>3 DEF In

LEMMA InOfAppend ==
  ASSUME NEW S, NEW q \in Seq(S), NEW e \in S, NEW x, In(x, Append(q, e))
  PROVE  In(x, q) \/ x = e
<1>1. /\ Len(q) \in Nat /\ Len(Append(q, e)) = Len(q) + 1
      /\ Append(q, e)[Len(q) + 1] = e
      /\ \A i \in 1..Len(q) : Append(q, e)[i] = q[i]
  BY LenProperties, AppendProperties
<1>2. PICK i \in 1..(Len(q) + 1) : Append(q, e)[i] = x
  BY <1>1 DEF In
<1> QED BY <1>1, <1>2 DEF In

LEMMA InOfWakeups ==
  ASSUME NEW q \in Seq(Callback), awaiters \in [Calls -> Seq(Calls)],
         NEW t \in Calls, NEW u, In(CallBack("step", u), q \o Wakeups(t))
  PROVE  In(CallBack("step", u), q)
<1> DEFINE n == Len(awaiters[t])
           p == Wakeups(t)
<1>1. n \in Nat /\ p = [i \in 1..n |-> CallBack("wake", awaiters[t][i])]
  BY LenProperties DEF Wakeups
<1>2. p \in Seq(Callback)
  BY WakeupsHold
<1>3. Len(p) = n
  BY <1>1
<1>4. \A i \in 1..n : p[i] # CallBack("step", u)
  BY <1>1 DEF CallBack
<1> HIDE DEF n, p
<1>5. /\ Len(q) \in Nat /\ Len(q \o p) = Len(q) + n
      /\ \A i \in 1..(Len(q) + n) :
           (q \o p)[i] = IF i <= Len(q) THEN q[i] ELSE p[i - Len(q)]
  BY <1>1, <1>2, <1>3, LenProperties, ConcatProperties
<1>6. PICK i \in 1..(Len(q) + n) : (q \o p)[i] = CallBack("step", u)
  BY <1>5 DEF In, p
<1>7. CASE i <= Len(q)
  BY <1>5, <1>6, <1>7 DEF In
<1>8. CASE ~(i <= Len(q))
  <2>1. i - Len(q) \in 1..n
    BY <1>1, <1>5, <1>8
  <2> QED BY <1>4, <1>5, <1>6, <1>8, <2>1
<1> QED BY <1>7, <1>8

(* The tail of a queue whose head is no wakeup keeps the order. *)
LEMMA PopKeepsBefore ==
  ASSUME TypeOK, ready # <<>>, NEW k \in {"call", "step"}, NEW r,
         Head(ready) = CallBack(k, r), NEW w, NEW u,
         Before(CallBack("wake", w), CallBack("step", u), ready)
  PROVE  Before(CallBack("wake", w), CallBack("step", u), Tail(ready))
<1>1. CallBack("wake", w) # Head(ready)
  BY DEF CallBack
<1> QED BY <1>1, BeforeTail DEF TypeOK

(* A lookup that starts no task. *)
LEMMA LookUpOrder ==
  ASSUME IInv, OrderOfScans, NEW r \in Calls, phase[r] = "queued",
         NEW id \in Ids, ready # <<>>, Head(ready) = CallBack("call", r),
         seen' = [seen EXCEPT ![r] = [id |-> id, at |-> now]], now' = now,
         task' = task, inflight' = inflight, ready' = Tail(ready),
         \A w \in Calls : Pending(w)' =>
           \/ w # r /\ Pending(w) /\ awaits'[w] = awaits[w]
           \/ w = r /\ awaits'[r] \in Calls /\ task[awaits'[r]] \notin Done
  PROVE  OrderOfScans'
<1> USE DEF IInv
<1>1. task[r] = "none" /\ "none" \notin Running \cup Done
        /\ "none" \notin Succeeded /\ now \in Nat
  BY DEF Places, Running, Done, Succeeded, TypeOK
<1>2. seen'[r].at = now /\ \A u \in Calls \ {r} : seen'[u] = seen[u]
  BY DEF TypeOK
<1>3. ASSUME NEW w \in Calls, Pending(w)', task'[awaits'[w]] \in Done
      PROVE  /\ Pending(w) /\ awaits'[w] = awaits[w] /\ awaits[w] \in Calls
             /\ task[awaits[w]] \in Done /\ awaits[w] # r
  <2>1. Pending(w) /\ awaits'[w] = awaits[w]
    BY <1>3
  <2> QED BY <1>1, <1>3, <2>1, PendingAwaits
<1>4. PastLookUps'
  BY <1>1, <1>2 DEF OrderOfScans, PastLookUps
<1>5. RegisteredNewest'
  BY <1>1, <1>2 DEF OrderOfScans, RegisteredNewest
<1>6. AwaitedNewest'
  BY <1>1, <1>2, <1>3 DEF OrderOfScans, AwaitedNewest, NewestOf
<1>7. StepsOfTasks'
  BY InOfTail DEF OrderOfScans, StepsOfTasks, TypeOK
<1>8. WakesBeforeSteps'
  <2> SUFFICES ASSUME NEW w \in Calls, NEW u \in Calls,
                      Pending(w)', task'[awaits'[w]] \in Done,
                      task'[u] \in Running,
                      seen'[u].id = seen'[awaits'[w]].id
               PROVE  /\ task'[u] = "created"
                      /\ Before(CallBack("wake", w), CallBack("step", u), ready')
    BY DEF WakesBeforeSteps
  <2>1. seen[u].id = seen[awaits[w]].id
    BY <1>1, <1>2, <1>3
  <2>2. task[u] = "created"
          /\ Before(CallBack("wake", w), CallBack("step", u), ready)
    BY <1>3, <2>1 DEF OrderOfScans, WakesBeforeSteps
  <2> QED BY <2>2, PopKeepsBefore
<1> QED BY <1>4, <1>5, <1>6, <1>7, <1>8 DEF OrderOfScans

LEMMA StartOrder ==
  ASSUME IInv, WakeInv, OrderOfScans, NEW r \in Calls, phase[r] = "queued",
         NEW id \in Ids, ready # <<>>, Head(ready) = CallBack("call", r),
         seen' = [seen EXCEPT ![r] = [id |-> id, at |-> now]], now' = now,
         NEW s, StartTask(r, id, s)
  PROVE  OrderOfScans'
<1> USE DEF IInv
<1>1. /\ task[r] = "none" /\ "none" \notin Running \cup Done
      /\ "none" \notin Succeeded /\ now \in Nat /\ ~ Pending(r)
      /\ "created" \notin Done
  BY DEF Places, Running, Done, Succeeded, TypeOK, Pending
<1>2. seen'[r] = [id |-> id, at |-> now]
        /\ \A u \in Calls \ {r} : seen'[u] = seen[u]
  BY DEF TypeOK
<1>3. /\ task'[r] = "created" /\ \A u \in Calls \ {r} : task'[u] = task[u]
      /\ awaits'[r] = r /\ \A u \in Calls \ {r} : awaits'[u] = awaits[u]
      /\ inflight' = [inflight EXCEPT ![id] = r]
      /\ \A w \in Calls \ {r} : Pending(w)' = Pending(w)
      /\ ready' = Append(Tail(ready), CallBack("step", r))
  BY DEF StartTask, TypeOK, Pending
<1>4. ASSUME NEW w \in Calls, Pending(w)', task'[awaits'[w]] \in Done
      PROVE  /\ Pending(w) /\ awaits'[w] = awaits[w] /\ awaits[w] \in Calls
             /\ task[awaits[w]] \in Done /\ awaits[w] # r
  <2>1. w # r
    BY <1>1, <1>3, <1>4
  <2>2. Pending(w) /\ awaits'[w] = awaits[w]
    BY <1>3, <1>4, <2>1
  <2>3. awaits[w] \in Calls /\ awaits[w] # r
    BY <1>1, <2>2, PendingAwaits
  <2> QED BY <1>3, <1>4, <2>2, <2>3
<1>5. Tail(ready) \in Seq(Callback) /\ CallBack("step", r) \in Callback
  BY ReadySeq, CallBackType DEF TypeOK
<1>6. PastLookUps'
  BY <1>1, <1>2 DEF OrderOfScans, PastLookUps
<1>7. RegisteredNewest'
  <2> SUFFICES ASSUME NEW t \in Calls, NEW u \in Calls, task'[t] # "none",
                      inflight'[seen'[t].id] = t, task'[u] # "none",
                      seen'[u].id = seen'[t].id
               PROVE  seen'[u].at <= seen'[t].at
    BY DEF RegisteredNewest
  <2>1. CASE t = r
    <3>1. CASE u = r
      BY <1>1, <1>2, <2>1, <3>1
    <3>2. CASE u # r
      <4>1. seen'[u] = seen[u] /\ seen[u] # NoEntry
        BY <1>2, <1>3, <3>2 DEF Places
      <4> QED BY <1>2, <2>1, <4>1 DEF OrderOfScans, PastLookUps
    <3> QED BY <3>1, <3>2
  <2>2. CASE t # r
    <3>1. seen[t] # NoEntry /\ seen[t].id \in Ids /\ seen'[t] = seen[t]
      BY <1>2, <1>3, <2>2 DEF Places, TypeOK
    <3>2. seen[t].id # id /\ inflight[seen[t].id] = t
      BY <1>3, <2>2, <3>1 DEF TypeOK
    <3>3. u # r
      BY <1>2, <3>1, <3>2
    <3> QED BY <1>2, <1>3, <2>2, <3>2, <3>3 DEF OrderOfScans, RegisteredNewest
  <2> QED BY <2>1, <2>2
<1>8. AwaitedNewest'
  <2> SUFFICES ASSUME NEW w \in Calls, Pending(w)', task'[awaits'[w]] \in Done,
                      NEW u \in Calls, task'[u] \in Succeeded,
                      seen'[u].id = seen'[awaits'[w]].id
               PROVE  seen'[u].at <= seen'[awaits'[w]].at
    BY DEF AwaitedNewest, NewestOf
  <2>1. u # r /\ seen'[u] = seen[u] /\ task[u] \in Succeeded
    BY <1>1, <1>2, <1>3 DEF Done
  <2>2. seen'[awaits'[w]] = seen[awaits[w]]
    BY <1>2, <1>4
  <2> QED BY <1>4, <2>1, <2>2 DEF OrderOfScans, AwaitedNewest, NewestOf
<1>9. StepsOfTasks'
  <2> SUFFICES ASSUME NEW t \in Calls, t # r, In(CallBack("step", t), ready')
               PROVE  task'[t] # "none"
    BY <1>3 DEF StepsOfTasks
  <2>1. CallBack("step", t) # CallBack("step", r)
    BY DEF CallBack
  <2>2. In(CallBack("step", t), ready)
    BY <1>3, <1>5, <2>1, InOfAppend, InOfTail DEF TypeOK
  <2> QED BY <1>3, <2>2 DEF OrderOfScans, StepsOfTasks
<1>10. WakesBeforeSteps'
  <2> SUFFICES ASSUME NEW w \in Calls, NEW u \in Calls,
                      Pending(w)', task'[awaits'[w]] \in Done,
                      task'[u] \in Running,
                      seen'[u].id = seen'[awaits'[w]].id
               PROVE  /\ task'[u] = "created"
                      /\ Before(CallBack("wake", w), CallBack("step", u), ready')
    BY DEF WakesBeforeSteps
  <2>1. seen'[awaits'[w]] = seen[awaits[w]]
    BY <1>2, <1>4
  <2>2. CASE u = r
    <3>1. In(CallBack("wake", w), Tail(ready))
      BY <1>4, PopKeepsWakeups DEF WakeInv, WakesWhenDone
    <3>2. ~ In(CallBack("step", r), Tail(ready))
      BY <1>1, InOfTail DEF OrderOfScans, StepsOfTasks, TypeOK
    <3> QED BY <1>3, <1>5, <2>2, <3>1, <3>2, BeforeAppend
  <2>3. CASE u # r
    <3>1. task[u] = "created"
            /\ Before(CallBack("wake", w), CallBack("step", u), ready)
      BY <1>2, <1>3, <1>4, <2>1, <2>3 DEF OrderOfScans, WakesBeforeSteps
    <3>2. Before(CallBack("wake", w), CallBack("step", u), Tail(ready))
      BY <3>1, PopKeepsBefore
    <3> QED BY <1>3, <1>5, <2>3, <3>1, <3>2, BeforeAppend
  <2> QED BY <2>2, <2>3
<1> QED BY <1>6, <1>7, <1>8, <1>9, <1>10 DEF OrderOfScans

LEMMA FirstStepOrder ==
  ASSUME IInv, WakeInv, OrderOfScans, NEW r \in Calls, Resolve(r) \/ Get(r)
  PROVE  OrderOfScans'
<1> USE DEF IInv
<1>1. PICK id \in Ids :
        /\ ready # <<>> /\ Head(ready) = CallBack("call", r)
        /\ phase[r] = "queued" /\ now' = now
        /\ seen' = [seen EXCEPT ![r] = [id |-> id, at |-> now]]
        /\ LookUp(r, id)
  BY FirstStepLooksUp
<1>2. ASSUME NEW a, Answer(r, a), task' = task, inflight' = inflight,
             ready' = Tail(ready),
             \A w \in Calls \ {r} : awaits'[w] = awaits[w]
      PROVE  OrderOfScans'
  <2>1. \A w \in Calls : Pending(w)' =>
          w # r /\ Pending(w) /\ awaits'[w] = awaits[w]
    BY <1>2 DEF Answer, Pending, TypeOK
  <2> QED BY <1>1, <1>2, <2>1, LookUpOrder
<1>3. CASE ServeHot(r, id) \/ Unknown(r, id)
  BY <1>2, <1>3 DEF ServeHot, Unknown, tasks
<1>4. ASSUME NEW s, StartTask(r, id, s) PROVE OrderOfScans'
  BY <1>1, <1>4, StartOrder
<1>5. CASE JoinTask(r, id)
  <2>1. /\ task' = task /\ inflight' = inflight /\ ready' = Tail(ready)
        /\ awaits'[r] \in Calls /\ task[awaits'[r]] \notin Done
        /\ \A w \in Calls \ {r} :
             awaits'[w] = awaits[w] /\ Pending(w)' = Pending(w)
    BY <1>5 DEF JoinTask, tasks, TypeOK, Pending
  <2> QED BY <1>1, <2>1, LookUpOrder
<1>6. CASE TakeDone(r, id)
  <2>1. /\ task' = task /\ inflight' = inflight /\ ready' = Tail(ready)
        /\ \A w \in Calls \ {r} : awaits'[w] = awaits[w]
        /\ \E a : Answer(r, a)
    BY <1>6 DEF TakeDone, TakeResult, tasks, TypeOK
  <2> QED BY <1>2, <2>1
<1> QED BY <1>1, <1>3, <1>4, <1>5, <1>6 DEF LookUp, MaterializeOnce

LEMMA StepOrder ==
  ASSUME IInv, WakeInv, OrderOfScans, NEW t \in Calls, Step(t)
  PROVE  OrderOfScans'
<1> USE DEF IInv
<1>1. /\ ready # <<>> /\ Head(ready) = CallBack("step", t)
      /\ Tail(ready) \in Seq(Callback) /\ task[t] \in Running
      /\ UNCHANGED <<now, inflight, phase, seen, awaits>>
  BY ReadySeq DEF Step, cache, TypeOK, Running
<1>2. \A w \in Calls : Pending(w)' = Pending(w)
  BY <1>1 DEF Pending
<1>3. ASSUME NEW w \in Calls, Pending(w), task[awaits[w]] \in Done
      PROVE  seen[t].id # seen[awaits[w]].id
  <2>1. ~ Before(CallBack("wake", w), CallBack("step", t), ready)
    BY <1>1, BeforeHead DEF TypeOK
  <2> QED BY <1>1, <1>3, <2>1 DEF OrderOfScans, WakesBeforeSteps
<1>4. \A u \in Calls :
        In(CallBack("step", u), Tail(ready)) => task[u] # "none"
  BY <1>1, InOfTail DEF OrderOfScans, StepsOfTasks, TypeOK
<1>5. PastLookUps'
  BY <1>1 DEF OrderOfScans, PastLookUps
<1>6. \A w \in Calls : Pending(w) => awaits[w] \in Calls
  BY PendingAwaits
<1>7. ASSUME NEW st \in Running \cup Done, task' = [task EXCEPT ![t] = st]
      PROVE  RegisteredNewest'
  <2>1. \A u \in Calls : task'[u] # "none" => task[u] # "none"
    BY <1>1, <1>7 DEF TypeOK, Running
  <2> QED BY <1>1, <2>1 DEF OrderOfScans, RegisteredNewest
<1>8. ASSUME NEW outcome \in Done, Finish(t, outcome) PROVE OrderOfScans'
  <2>1. /\ task' = [task EXCEPT ![t] = outcome]
        /\ ready' = Tail(ready) \o Wakeups(t)
        /\ Wakeups(t) \in Seq(Callback)
    BY <1>8, WakeupsHold DEF Finish, TypeOK
  <2>2. /\ task'[t] = outcome /\ outcome \notin Running /\ outcome # "none"
        /\ \A u \in Calls \ {t} : task'[u] = task[u]
    BY <2>1 DEF TypeOK, Done, Succeeded, Running
  <2>3. AwaitedNewest'
    <3> SUFFICES ASSUME NEW w \in Calls, Pending(w), task'[awaits[w]] \in Done,
                        NEW u \in Calls, task'[u] \in Succeeded,
                        seen[u].id = seen[awaits[w]].id
                 PROVE  seen[u].at <= seen[awaits[w]].at
      BY <1>1, <1>2 DEF AwaitedNewest, NewestOf
    <3>1. CASE awaits[w] = t
      <4>1. inflight[seen[t].id] = t /\ task[t] # "none"
        BY <1>1 DEF Flight, Running
      <4>2. task[u] # "none"
        BY <1>1, <2>2 DEF Running, Succeeded
      <4> QED BY <3>1, <4>1, <4>2 DEF OrderOfScans, RegisteredNewest
    <3>2. CASE awaits[w] # t
      <4>1. task[awaits[w]] \in Done
        BY <1>6, <2>2, <3>2
      <4>2. u # t /\ task[u] \in Succeeded
        BY <1>3, <2>2, <4>1
      <4> QED BY <4>1, <4>2 DEF OrderOfScans, AwaitedNewest, NewestOf
    <3> QED BY <3>1, <3>2
  <2>4. StepsOfTasks'
    <3>1. \A u \in Calls : In(CallBack("step", u), ready') =>
            In(CallBack("step", u), Tail(ready))
      BY <1>1, <2>1, InOfWakeups DEF TypeOK
    <3> QED BY <1>4, <2>2, <3>1 DEF StepsOfTasks
  <2>5. WakesBeforeSteps'
    <3> SUFFICES ASSUME NEW w \in Calls, NEW u \in Calls, Pending(w),
                        task'[awaits[w]] \in Done, task'[u] \in Running,
                        seen[u].id = seen[awaits[w]].id
                 PROVE  /\ task'[u] = "created"
                        /\ Before(CallBack("wake", w), CallBack("step", u),
                                  ready')
      BY <1>1, <1>2 DEF WakesBeforeSteps
    <3>1. u # t /\ task[u] \in Running
      BY <2>2
    <3>2. awaits[w] # t
      BY <1>1, <3>1 DEF Flight
    <3>3. task[awaits[w]] \in Done
      BY <1>6, <2>2, <3>2
    <3>4. task[u] = "created"
            /\ Before(CallBack("wake", w), CallBack("step", u), ready)
      BY <3>1, <3>3 DEF OrderOfScans, WakesBeforeSteps
    <3>5. Before(CallBack("wake", w), CallBack("step", u), Tail(ready))
      BY <1>1, <3>4, PopKeepsBefore
    <3> QED BY <1>1, <2>1, <2>2, <3>1, <3>4, <3>5, BeforeConcat
  <2> QED BY <1>5, <1>7, <2>1, <2>3, <2>4, <2>5 DEF OrderOfScans
<1>9. CASE /\ task[t] = "created" /\ task' = [task EXCEPT ![t] = "scanning"]
           /\ ready' = Tail(ready)
  <2>1. /\ task'[t] = "scanning" /\ "scanning" \in Running
        /\ "scanning" \notin Done
        /\ \A u \in Calls \ {t} : task'[u] = task[u]
    BY <1>9 DEF TypeOK, Running, Done, Succeeded
  <2>2. \A w \in Calls : Pending(w) /\ task'[awaits[w]] \in Done =>
          task[awaits[w]] \in Done
    BY <1>6, <2>1
  <2>3. AwaitedNewest'
    BY <1>1, <1>2, <2>1, <2>2 DEF OrderOfScans, AwaitedNewest, NewestOf, Done
  <2>4. StepsOfTasks'
    BY <1>4, <1>9, <2>1 DEF StepsOfTasks
  <2>5. WakesBeforeSteps'
    <3> SUFFICES ASSUME NEW w \in Calls, NEW u \in Calls, Pending(w),
                        task'[awaits[w]] \in Done, task'[u] \in Running,
                        seen[u].id = seen[awaits[w]].id
                 PROVE  /\ task'[u] = "created"
                        /\ Before(CallBack("wake", w), CallBack("step", u),
                                  ready')
      BY <1>1, <1>2 DEF WakesBeforeSteps
    <3>1. task[awaits[w]] \in Done /\ u # t
      BY <1>3, <2>2
    <3>2. task[u] = "created" /\ task'[u] = task[u]
            /\ Before(CallBack("wake", w), CallBack("step", u), ready)
      BY <2>1, <3>1 DEF OrderOfScans, WakesBeforeSteps
    <3> QED BY <1>1, <1>9, <3>2, PopKeepsBefore
  <2> QED BY <1>5, <1>7, <1>9, <2>1, <2>3, <2>4, <2>5 DEF OrderOfScans
<1> QED BY <1>8, <1>9 DEF Step, Done, Succeeded

LEMMA ScanReturnsOrder ==
  ASSUME IInv, OrderOfScans, NEW t \in Calls, ScanReturns(t)
  PROVE  OrderOfScans'
<1> USE DEF IInv
<1>1. /\ task[t] = "scanning" /\ task[t] \in Running
      /\ ready' = Append(ready, CallBack("step", t))
      /\ CallBack("step", t) \in Callback
      /\ UNCHANGED <<now, inflight, phase, seen, awaits>>
  BY CallBackType DEF ScanReturns, cache, Running
<1>2. task'[t] = "resumed" /\ \A u \in Calls \ {t} : task'[u] = task[u]
  BY DEF ScanReturns, TypeOK
<1>3. \A w \in Calls : Pending(w)' = Pending(w)
                         /\ (Pending(w) => awaits[w] \in Calls)
  BY <1>1, PendingAwaits DEF Pending
<1>4. \A w \in Calls : Pending(w) /\ task'[awaits[w]] \in Done =>
        task[awaits[w]] \in Done
  BY <1>2, <1>3 DEF Done, Succeeded
<1>5. PastLookUps'
  BY <1>1 DEF OrderOfScans, PastLookUps
<1>6. RegisteredNewest'
  BY <1>1, <1>2 DEF OrderOfScans, RegisteredNewest
<1>7. AwaitedNewest'
  BY <1>1, <1>2, <1>3, <1>4
     DEF OrderOfScans, AwaitedNewest, NewestOf, Done, Succeeded
<1>8. StepsOfTasks'
  <2> SUFFICES ASSUME NEW u \in Calls, u # t, In(CallBack("step", u), ready')
               PROVE  task'[u] # "none"
    BY <1>2 DEF StepsOfTasks
  <2>1. CallBack("step", u) # CallBack("step", t)
    BY DEF CallBack
  <2>2. In(CallBack("step", u), ready)
    BY <1>1, <2>1, InOfAppend DEF TypeOK
  <2> QED BY <1>2, <2>2 DEF OrderOfScans, StepsOfTasks
<1>9. WakesBeforeSteps'
  <2> SUFFICES ASSUME NEW w \in Calls, NEW u \in Calls, Pending(w),
                      task'[awaits[w]] \in Done, task'[u] \in Running,
                      seen[u].id = seen[awaits[w]].id
               PROVE  /\ task'[u] = "created"
                      /\ Before(CallBack("wake", w), CallBack("step", u), ready')
    BY <1>1, <1>3 DEF WakesBeforeSteps
  <2>1. task[u] \in Running
    BY <1>1, <1>2
  <2>2. task[u] = "created"
          /\ Before(CallBack("wake", w), CallBack("step", u), ready)
    BY <1>4, <2>1 DEF OrderOfScans, WakesBeforeSteps
  <2>3. u # t
    BY <1>1, <2>2
  <2> QED BY <1>1, <1>2, <2>2, <2>3, BeforeAppend DEF TypeOK
<1> QED BY <1>5, <1>6, <1>7, <1>8, <1>9 DEF OrderOfScans

LEMMA WakeOrder ==
  ASSUME IInv, OrderOfScans, NEW r \in Calls, Wake(r)
  PROVE  OrderOfScans'
<1> USE DEF IInv
<1>1. /\ ready # <<>> /\ Head(ready) = CallBack("wake", r)
      /\ ready' = Tail(ready) /\ phase' = [phase EXCEPT ![r] = "answered"]
      /\ UNCHANGED <<now, seen, awaits, task>>
      /\ Unregister(r, seen[r].id)
  BY DEF Wake, TakeResult, Answer, tasks
<1>2. \A w \in Calls : Pending(w)' => Pending(w) /\ w # r
  BY <1>1 DEF Pending, TypeOK
<1>3. \A i \in Ids : inflight'[i] \in Calls => inflight'[i] = inflight[i]
  BY <1>1, ConstantsAssumption DEF Unregister, TypeOK
<1>4. PastLookUps'
  BY <1>1 DEF OrderOfScans, PastLookUps
<1>5. RegisteredNewest'
  <2>1. \A t \in Calls : task[t] # "none" => seen[t].id \in Ids
    BY DEF Places, TypeOK
  <2> QED BY <1>1, <1>3, <2>1 DEF OrderOfScans, RegisteredNewest
<1>6. AwaitedNewest'
  BY <1>1, <1>2 DEF OrderOfScans, AwaitedNewest, NewestOf
<1>7. StepsOfTasks'
  BY <1>1, InOfTail DEF OrderOfScans, StepsOfTasks, TypeOK
<1>8. WakesBeforeSteps'
  <2> SUFFICES ASSUME NEW w \in Calls, NEW u \in Calls, Pending(w), w # r,
                      task[awaits[w]] \in Done, task[u] \in Running,
                      seen[u].id = seen[awaits[w]].id
               PROVE  /\ task[u] = "created"
                      /\ Before(CallBack("wake", w), CallBack("step", u), ready')
    BY <1>1, <1>2 DEF WakesBeforeSteps
  <2>1. task[u] = "created"
          /\ Before(CallBack("wake", w), CallBack("step", u), ready)
    BY DEF OrderOfScans, WakesBeforeSteps
  <2>2. CallBack("wake", w) # Head(ready)
    BY <1>1 DEF CallBack
  <2> QED BY <1>1, <2>1, <2>2, BeforeTail DEF TypeOK
<1> QED BY <1>4, <1>5, <1>6, <1>7, <1>8 DEF OrderOfScans

LEMMA ArriveOrder ==
  ASSUME IInv, OrderOfScans, NEW r \in Calls, NEW q, Arrive(r, q)
  PROVE  OrderOfScans'
<1> USE DEF IInv
<1>1. /\ ready' = Append(ready, CallBack("call", r))
      /\ CallBack("call", r) \in Callback
      /\ UNCHANGED <<now, inflight, seen, awaits, task>>
      /\ phase' = [phase EXCEPT ![r] = "queued"]
  BY CallBackType DEF Arrive, cache, tasks
<1>2. \A w \in Calls : Pending(w)' => Pending(w)
  BY <1>1 DEF Pending, TypeOK
<1>3. PastLookUps' /\ RegisteredNewest' /\ AwaitedNewest'
  BY <1>1, <1>2 DEF OrderOfScans, PastLookUps, RegisteredNewest, AwaitedNewest,
                    NewestOf
<1>4. StepsOfTasks'
  <2>1. \A u : CallBack("step", u) # CallBack("call", r)
    BY DEF CallBack
  <2> QED BY <1>1, <2>1, InOfAppend DEF OrderOfScans, StepsOfTasks, TypeOK
<1>5. WakesBeforeSteps'
  <2>1. \A w, u : Before(CallBack("wake", w), CallBack("step", u), ready) =>
          Before(CallBack("wake", w), CallBack("step", u), ready')
    BY <1>1, BeforeAppend DEF TypeOK
  <2> QED BY <1>1, <1>2, <2>1 DEF OrderOfScans, WakesBeforeSteps
<1> QED BY <1>3, <1>4, <1>5 DEF OrderOfScans

LEMMA NextOrder == IInv /\ WakeInv /\ OrderOfScans /\ [Next]_vars => OrderOfScans'
<1> SUFFICES ASSUME IInv, WakeInv, OrderOfScans, [Next]_vars
             PROVE  OrderOfScans'
  OBVIOUS
<1>1. ASSUME UNCHANGED <<inflight, seen, awaits, task, phase, ready>>,
             now' \in Nat, now <= now'
      PROVE  OrderOfScans'
  <2>1. \A u \in Calls : seen[u] # NoEntry => seen[u].at \in Nat
    BY DEF IInv, TypeOK
  <2>2. PastLookUps'
    BY <1>1, <2>1 DEF IInv, TypeOK, OrderOfScans, PastLookUps
  <2>3. \A w \in Calls : Pending(w)' = Pending(w)
    BY <1>1 DEF Pending
  <2> QED BY <1>1, <2>2, <2>3
          DEF OrderOfScans, RegisteredNewest, AwaitedNewest, NewestOf,
              StepsOfTasks, WakesBeforeSteps
<1>2. now \in Nat
  BY DEF IInv, TypeOK
<1>3. ASSUME NEW id \in Ids, EvictHot(id) PROVE OrderOfScans'
  BY <1>1, <1>2, <1>3 DEF EvictHot, tasks
<1>4. CASE Tick
  BY <1>1, <1>2, <1>4 DEF Tick, cache, tasks
<1>5. CASE UNCHANGED vars
  BY <1>1, <1>2, <1>5 DEF vars, cache, tasks
<1> QED BY <1>3, <1>4, <1>5, FirstStepOrder, StepOrder, ScanReturnsOrder,
           WakeOrder, ArriveOrder DEF Next, Idle

------------------------------------------------------------------------------
(* What a store puts in the place of what. *)

LEMMA StoredOnly ==
  ASSUME TypeOK, NEW id \in Ids, NEW t \in Calls, NEW j \in DOMAIN Stored(id, t)
  PROVE  \/ Stored(id, t)[j].id = id /\ Stored(id, t)[j].bundle = t
         \/ \E i \in 1..Len(hot) : Stored(id, t)[j] = hot[i]
<1> DEFINE e == [id |-> id, bundle |-> t, expires |-> now + HotTTL]
           w == WithoutHot(id)
           h == Append(w, e)
           s == Stored(id, t)
<1>1. e \in HotEntry /\ e.id = id /\ e.bundle = t
  BY ConstantsAssumption DEF HotEntry, TypeOK
<1>2. s = IF Len(h) > MaxHot
          THEN SubSeq(h, Len(h) - MaxHot + 1, Len(h)) ELSE h
  BY DEF Stored
<1>3. w \in Seq(HotEntry) /\ s \in Seq(HotEntry)
        /\ \A m \in 1..Len(w) : \E i \in 1..Len(hot) : w[m] = hot[i]
  <2>1. hot \in Seq(HotEntry)
    BY DEF TypeOK
  <2> QED BY <1>1, <2>1, WithoutHotSeq, StoredSeq, RemovedOnly
<1> HIDE DEF e, w, s
<1>4. /\ Len(w) \in Nat /\ h \in Seq(HotEntry) /\ Len(h) = Len(w) + 1
      /\ h[Len(w) + 1] = e /\ \A m \in 1..Len(w) : h[m] = w[m]
  BY <1>1, <1>3, LenProperties, AppendProperties
<1>5. \A m \in 1..Len(h) : h[m] = e \/ \E i \in 1..Len(hot) : h[m] = hot[i]
  <2> HIDE DEF h
  <2> SUFFICES ASSUME NEW m \in 1..Len(h)
               PROVE  h[m] = e \/ \E i \in 1..Len(hot) : h[m] = hot[i]
    OBVIOUS
  <2>1. CASE m = Len(w) + 1
    BY <1>4, <2>1
  <2>2. CASE m # Len(w) + 1
    <3>1. m \in 1..Len(w)
      BY <1>4, <2>2
    <3> QED BY <1>3, <1>4, <3>1
  <2> QED BY <2>1, <2>2
<1> HIDE DEF h
<1>6. \E m \in 1..Len(h) : s[j] = h[m]
  <2>0. j \in DOMAIN s /\ DOMAIN s = 1..Len(s)
    BY <1>3, LenProperties DEF s
  <2>1. CASE Len(h) > MaxHot
    <3>1. Len(h) \in Nat /\ MaxHot \in Nat \ {0}
      BY <1>4, LenProperties, ConstantsAssumption
    <3> DEFINE a == Len(h) - MaxHot + 1
    <3>2. a \in 1..Len(h)
      BY <2>1, <3>1
    <3>3. s = SubSeq(h, a, Len(h))
      BY <1>2, <2>1
    <3> HIDE DEF a
    <3>4. /\ Len(s) = Len(h) - a + 1
          /\ \A x \in 1..(Len(h) - a + 1) : s[x] = h[a + x - 1]
      BY <1>4, <3>1, <3>2, <3>3, SubSeqProperties
    <3>5. j \in 1..(Len(h) - a + 1) /\ a + j - 1 \in 1..Len(h)
      BY <2>0, <3>1, <3>2, <3>4
    <3> QED BY <3>4, <3>5
  <2>2. CASE ~(Len(h) > MaxHot)
    BY <1>2, <2>0, <2>2
  <2> QED BY <2>1, <2>2
<1> QED BY <1>1, <1>5, <1>6 DEF s

Newer(i, j) ==
  hot[i].id = hot'[j].id =>
    seen[hot[i].bundle].at <= seen[hot'[j].bundle].at

LEMMA HotBundle ==
  ASSUME IInv, NEW i \in 1..Len(hot)
  PROVE  /\ hot[i].bundle \in Calls /\ task[hot[i].bundle] \in Succeeded
         /\ seen[hot[i].bundle].id = hot[i].id
         /\ seen[hot[i].bundle].at \in Nat
<1>1. hot[i] \in GoodEntries
  BY ElementOfSeq DEF IInv, HotSound
<1>2. /\ hot[i].bundle \in Calls /\ task[hot[i].bundle] \in Succeeded
      /\ seen[hot[i].bundle].id = hot[i].id
  BY <1>1 DEF GoodEntries, HotEntry
<1> QED BY <1>2 DEF IInv, Places, TypeOK, Succeeded

(* An entry kept as it was is no newer than itself. *)
LEMMA SameNewer ==
  ASSUME IInv, LeastRecentFirst, NEW i \in 1..Len(hot), NEW j,
         NEW k \in 1..Len(hot), hot'[j] = hot[k]
  PROVE  Newer(i, j)
<1> SUFFICES ASSUME hot[i].id = hot[k].id
             PROVE  seen[hot[i].bundle].at <= seen[hot[k].bundle].at
  BY DEF Newer
<1>1. i = k
  BY OneEntryPerId DEF IInv
<1> QED BY <1>1, HotBundle

LEMMA StoreNewer ==
  ASSUME IInv, LeastRecentFirst, NEW id \in Ids, NEW t \in Calls,
         seen[t].id = id, NewestOf(t), hot' = Stored(id, t),
         NEW i \in 1..Len(hot), NEW j \in DOMAIN hot'
  PROVE  Newer(i, j)
<1>1. CASE hot'[j].id = id /\ hot'[j].bundle = t
  BY <1>1, HotBundle DEF Newer, NewestOf
<1>2. CASE \E k \in 1..Len(hot) : hot'[j] = hot[k]
  BY <1>2, SameNewer
<1> QED BY <1>1, <1>2, StoredOnly DEF IInv

LEMMA KeepNewer ==
  ASSUME IInv, LeastRecentFirst, NEW id,
         hot' = hot \/ hot' = WithoutHot(id)
           \/ (id \in HotIds /\ hot' = Touched(id)),
         NEW i \in 1..Len(hot), NEW j \in DOMAIN hot'
  PROVE  Newer(i, j)
<1> DEFINE w == WithoutHot(id)
<1>1. hot \in Seq(HotEntry) /\ w \in Seq(HotEntry)
        /\ \A m \in 1..Len(w) : \E k \in 1..Len(hot) : w[m] = hot[k]
  BY WithoutHotSeq, RemovedOnly DEF IInv, TypeOK
<1>2. DOMAIN hot = 1..Len(hot) /\ DOMAIN w = 1..Len(w) /\ Len(w) \in Nat
  BY <1>1, LenProperties
<1>3. \E k \in 1..Len(hot) : hot'[j] = hot[k]
  <2>1. CASE hot' = hot \/ hot' = w
    BY <1>1, <1>2, <2>1
  <2>2. ASSUME id \in HotIds, hot' = Touched(id)
        PROVE  \E k \in 1..Len(hot) : hot'[j] = hot[k]
    <3> DEFINE e == hot[HotIndex(id)]
    <3>1. HotIndex(id) \in 1..Len(hot) /\ e \in HotEntry
      BY <1>1, <2>2, FoundInHot
    <3>2. hot' = Append(w, e)
      BY <2>2 DEF Touched
    <3> HIDE DEF e, w
    <3>3. /\ hot' \in Seq(HotEntry) /\ Len(hot') = Len(w) + 1
          /\ hot'[Len(w) + 1] = e /\ \A m \in 1..Len(w) : hot'[m] = w[m]
      BY <1>1, <3>1, <3>2, AppendProperties
    <3>4. j \in 1..(Len(w) + 1)
      BY <3>3, LenProperties
    <3>5. CASE j = Len(w) + 1
      BY <3>1, <3>3, <3>5 DEF e
    <3>6. CASE j # Len(w) + 1
      <4>1. j \in 1..Len(w)
        BY <1>2, <3>4, <3>6
      <4> QED BY <1>1, <3>3, <4>1
    <3> QED BY <3>5, <3>6
  <2> QED BY <2>1, <2>2
<1> QED BY <1>3, SameNewer

LEMMA StepNewer ==
  ASSUME IInv, LeastRecentFirst, OrderOfScans, [Next]_vars,
         NEW i \in 1..Len(hot), NEW j \in DOMAIN hot'
  PROVE  Newer(i, j)
<1> USE DEF IInv
<1>1. ASSUME NEW id \in Ids, NEW t \in Calls, NEW r, NEW h,
             TakeResult(r, id, t, h), h = hot \/ h = WithoutHot(id),
             seen[t].id = id, task[t] \in Done => NewestOf(t)
      PROVE  Newer(i, j)
  <2>1. CASE task[t] \in Succeeded /\ hot' = Stored(id, t)
    BY <1>1, <2>1, StoreNewer DEF Done
  <2>2. CASE hot' = h
    BY <1>1, <2>2, KeepNewer
  <2> QED BY <1>1, <2>1, <2>2 DEF TakeResult
<1>2. ASSUME NEW r \in Calls, NEW id \in Ids, TakeDone(r, id)
      PROVE  Newer(i, j)
  <2> DEFINE t == inflight[id]
  <2>1. t \in Calls /\ task[t] \in Done /\ seen[t].id = id
          /\ TakeResult(r, id, t, WithoutHot(id))
    BY <1>2 DEF TakeDone, TypeOK, Flight
  <2>2. NewestOf(t)
    BY <2>1 DEF OrderOfScans, RegisteredNewest, NewestOf, Done, Succeeded
  <2> HIDE DEF t
  <2> QED BY <1>1, <2>1, <2>2
<1>3. ASSUME NEW r \in Calls, NEW id \in Ids, LookUp(r, id)
      PROVE  Newer(i, j)
  <2>1. CASE ServeHot(r, id)
    BY <2>1, KeepNewer DEF ServeHot, HotHit
  <2>2. ASSUME NEW s, StartTask(r, id, s) \/ JoinTask(r, id)
        PROVE  Newer(i, j)
    BY <2>2, KeepNewer DEF StartTask, JoinTask
  <2>3. CASE Unknown(r, id)
    BY <2>3, KeepNewer DEF Unknown
  <2> QED BY <1>2, <1>3, <2>1, <2>2, <2>3 DEF LookUp, MaterializeOnce
<1>4. ASSUME NEW r \in Calls, Resolve(r) \/ Get(r) PROVE Newer(i, j)
  BY <1>3, <1>4, FirstStepLooksUp
<1>5. ASSUME NEW r \in Calls, Wake(r) PROVE Newer(i, j)
  <2>1. Pending(r) /\ TakeResult(r, seen[r].id, awaits[r], hot)
    BY <1>5 DEF Wake, Pending
  <2>2. awaits[r] \in Calls /\ seen[r].id \in Ids
          /\ seen[awaits[r]].id = seen[r].id
    BY <2>1, PendingAwaits DEF TypeOK
  <2>3. task[awaits[r]] \in Done => NewestOf(awaits[r])
    BY <2>1 DEF OrderOfScans, AwaitedNewest
  <2> QED BY <1>1, <2>1, <2>2, <2>3
<1>6. ASSUME hot' = hot PROVE Newer(i, j)
  BY <1>6, KeepNewer
<1>7. ASSUME NEW r \in Calls, NEW q, Arrive(r, q) PROVE hot' = hot
  BY <1>7 DEF Arrive, cache
<1>8. ASSUME NEW r \in Calls, Step(r) \/ ScanReturns(r) PROVE hot' = hot
  BY <1>8 DEF Step, ScanReturns, cache
<1>9. ASSUME NEW id \in Ids, EvictHot(id) PROVE Newer(i, j)
  BY <1>9, KeepNewer DEF EvictHot
<1>10. CASE Tick \/ UNCHANGED vars
  BY <1>6, <1>10 DEF Tick, vars, cache
<1> QED BY <1>4, <1>5, <1>6, <1>7, <1>8, <1>9, <1>10 DEF Next, Idle

(* A stored bundle is never replaced by one whose scan began earlier: an   *)
(* owner and its late waiters store what they awaited before any newer     *)
(* scan of the address can end.                                            *)
THEOREM StoresInOrder == Spec => NoStaleOverwrite
<1>1. Init => OrderOfScans
  <2> SUFFICES ASSUME Init PROVE OrderOfScans
    OBVIOUS
  <2>1. \A w \in Calls : ~ Pending(w) /\ seen[w] = NoEntry /\ task[w] = "none"
    BY DEF Init, Pending
  <2>2. \A x : ~ In(x, ready)
    BY EmptySeq DEF Init, In
  <2> QED BY <2>1, <2>2 DEF OrderOfScans, PastLookUps, RegisteredNewest,
             AwaitedNewest, StepsOfTasks, WakesBeforeSteps
<1>2. IInv /\ WakeInv /\ OrderOfScans /\ [Next]_vars => OrderOfScans'
  BY NextOrder
<1>3. IInv /\ LeastRecentFirst /\ OrderOfScans /\ [Next]_vars =>
        [\A i \in DOMAIN hot, j \in DOMAIN hot' :
           hot[i].id = hot'[j].id =>
             seen[hot[i].bundle].at <= seen[hot'[j].bundle].at]_vars
  <2> SUFFICES ASSUME IInv, LeastRecentFirst, OrderOfScans, [Next]_vars,
                      NEW i \in DOMAIN hot, NEW j \in DOMAIN hot'
               PROVE  Newer(i, j)
    BY DEF Newer
  <2>1. DOMAIN hot = 1..Len(hot)
    BY LenProperties DEF IInv, TypeOK
  <2> QED BY <2>1, StepNewer
<1> QED BY <1>1, <1>2, <1>3, Invariance, WakeInvariance,
           LeastRecentlyUsedFirst, PTL DEF Spec, NoStaleOverwrite

==============================================================================
