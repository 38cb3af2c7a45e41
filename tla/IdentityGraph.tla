---------------------------- MODULE IdentityGraph ----------------------------
(***************************************************************************)
(* The paths through the partner's identity graph (source/search.py and    *)
(* the handlers people_search and _hal_person_records): a name search, and *)
(* the records of a person, which an engine reads page by page. Nothing is *)
(* kept between two requests: each page traverses the graph anew, from the *)
(* person over the links to the rows of each table, in queries of which    *)
(* each may be cancelled and returns its rows in any order it does not     *)
(* state.                                                                  *)
(*                                                                         *)
(* Entities, words of names and record ids are numbers; a forename, a      *)
(* record_count or a confidence of 0 is a missing one. A name as it is     *)
(* typed is its words and how many of them come before its comma.          *)
(***************************************************************************)
EXTENDS Naturals, Sequences, FiniteSets, SequencesExt

CONSTANTS
  Graphs,    \* what the partner's tables may hold
  Names,     \* the names that are searched, as [words, comma]
  Handles,   \* the hal: handles an engine holds, also old ones
  Limits,    \* the values of the limit parameter
  KeyLimit,  \* NAME_KEY_CANDIDATE_LIMIT
  MaxLinks,  \* MAX_LINKS
  None       \* no walk, no page, no answer, no comma

(* PHYSICAL_TABLES: what the names in entity_links.source_table, in their  *)
(* order, read: records_legacy, records_new and records_partitioned. Any   *)
(* other name has the number 4.                                            *)
Family   == <<"legacy", "partitioned", "partitioned">>
Shapes   == {"base", "loan", "tax"}
Rows     == [family : ToSet(Family), id : Nat, shapes : SUBSET Shapes,
             usable : BOOLEAN]
Links    == [hal : Nat, source : 1..4, id : Nat, confidence : Nat]
Entities == [hal : Nat, merged : BOOLEAN, count : Nat]
Ends     == {"open", "whole", "flagged", "unknown", "failed"}
Walks    == [hal : Handles, shape : Shapes, limit : Limits, read : Seq(Rows), end : Ends]
NameKeys == [at : Nat, last : Seq(Nat \ {0}), first : Nat, hal : Nat]

ASSUME GraphAssumption ==
  /\ {KeyLimit, MaxLinks} \subseteq Nat \ {0} /\ Limits \subseteq Nat /\ None \notin Walks
  /\ \A n \in Names : /\ n.words \in Seq(Nat \ {0})
                      /\ n.comma = None => n.words # <<>>
                      /\ n.comma # None => n.comma \in 0..Len(n.words)
  /\ \A g \in Graphs :
       /\ \A table \in {g.rows, g.links, g.people, g.keys} : IsFiniteSet(table)
       /\ g.rows \subseteq Rows /\ g.links \subseteq Links
       /\ g.people \subseteq Entities /\ g.keys \subseteq NameKeys
       /\ \A r, q \in g.rows : r.family = q.family /\ r.id = q.id => r = q
       /\ \A e, f \in g.people : e.hal = f.hal => e = f
       /\ \A k, l \in g.keys : k.at = l.at => k = l

VARIABLES
  graph,    \* the partner's tables, which do not change meanwhile
  answer,   \* what the last name search answered, None once it was used
  walk,     \* the engine's reading of one person's records of one shape
  stage,    \* "idle", "person", "links" or "rows": the query it awaits
  todo,     \* rows_for_links: the tables left to query, each with its ids
  fetched,  \* rows_for_links: the rows so far
  page      \* the last page: its total_count and records_timed_out

vars == <<graph, answer, walk, stage, todo, fetched, page>>

------------------------------------------------------------------------------
(* The name search *)

(* A faulty NameParts, for which the surname comes last, comma or not.     *)
LastWordIsSurname(name) ==
  LET n == Len(name.words)
  IN  [last |-> SubSeq(name.words, n, n), first |-> IF n > 1 THEN name.words[1] ELSE 0]

(* _name_parts: "FIRST MIDDLE LAST", or "LAST, FIRST MIDDLE" with any      *)
(* number of words before the comma.                                       *)
NameParts(name) ==
  LET n == Len(name.words)
  IN  IF name.comma = None
      THEN [last |-> <<name.words[n]>>, first |-> IF n > 1 THEN name.words[1] ELSE 0]
      ELSE [last |-> SubSeq(name.words, 1, name.comma),
            first |-> IF n > name.comma THEN name.words[name.comma + 1] ELSE 0]

(* The keys of a name: a range of unique_keys_name_dob, not asked for      *)
(* without a surname.                                                      *)
KeysOf(name) ==
  LET parts == NameParts(name)
  IN  {k \in graph.keys : /\ parts.last # <<>> /\ k.last = parts.last
                          /\ parts.first \in {0, k.first}
                          /\ k.hal # 0}

(* The scan of the range, in the order of its keys, up to the limit. *)
Scanned(name) ==
  {k \in KeysOf(name) :
     Cardinality({l \in KeysOf(name) : l.at <= k.at}) <= KeyLimit}

Named(keys) == {e \in graph.people : \E k \in keys : k.hal = e.hal}

Candidates(name) == {e \in Named(Scanned(name)) : ~e.merged}

(* A faulty Ranked, without the tie-break.                                 *)
ByCountAlone(e, f) == e.count >= f.count

(* ORDER BY record_count DESC NULLS LAST, hal_id *)
Ranked(e, f) == e.count > f.count \/ (e.count = f.count /\ e.hal < f.hal)

(* A faulty PageLimit, which takes the parameter as it is.                 *)
AsAsked(limit) == limit

(* page_params: a page holds at least one. *)
PageLimit(limit) == IF limit = 0 THEN 1 ELSE limit

Window(s, offset, limit) ==
  SubSeq(s, offset + 1, Min({offset + PageLimit(limit), Len(s)}))

Search(name, limit) ==
  /\ walk = None
  /\ \E order \in SetToSeqs(Candidates(name)) :
       /\ \A i, j \in DOMAIN order : i < j => Ranked(order[i], order[j])
       /\ answer' = [name |-> name, cancelled |-> FALSE, total |-> Len(order),
                     results |-> Window(order, 0, limit)]
  /\ UNCHANGED <<graph, walk, stage, todo, fetched, page>>

(* The query is cancelled: no people, and nothing in the answer says why.  *)
SearchCancelled(name) ==
  /\ walk = None /\ NameParts(name).last # <<>>
  /\ answer' = [name |-> name, cancelled |-> TRUE, total |-> 0, results |-> <<>>]
  /\ UNCHANGED <<graph, walk, stage, todo, fetched, page>>

------------------------------------------------------------------------------
(* The records of a person, page by page *)

Init ==
  /\ graph \in Graphs
  /\ answer = None /\ walk = None /\ page = None
  /\ stage = "idle" /\ todo = <<>> /\ fetched = <<>>

(* The engine turns from its last search to the records of a person.       *)
BeginWalk(hal, shape, limit) ==
  /\ walk = None
  /\ walk' = [hal |-> hal, shape |-> shape, limit |-> limit,
              read |-> <<>>, end |-> "open"]
  /\ stage' = "person" /\ answer' = None
  /\ UNCHANGED <<graph, todo, fetched, page>>

(* While has_more it asks for the page that begins where the last ended.   *)
NextPage ==
  /\ walk # None /\ stage = "idle"
  /\ walk.end = "open"
  /\ stage' = "person"
  /\ UNCHANGED <<graph, answer, walk, todo, fetched, page>>

EndWalk(end) ==
  /\ walk' = [walk EXCEPT !.end = end]
  /\ stage' = "idle" /\ todo' = <<>> /\ fetched' = <<>>

(* person_for_hal_id: a handle of nobody is a 404. *)
ReadPerson ==
  /\ stage = "person"
  /\ \/ /\ \E e \in graph.people : e.hal = walk.hal
        /\ stage' = "links"
        /\ UNCHANGED <<walk, todo, fetched>>
     \/ /\ ~\E e \in graph.people : e.hal = walk.hal
        /\ EndWalk("unknown")
  /\ UNCHANGED <<graph, answer, page>>

(* A faulty ById, which leaves the rows as the queries gave them.          *)
AsFetched(rows, i, j) == i < j

(* sorted(rows, key=_by_record_id), which is stable: row i before row j.   *)
ById(rows, i, j) ==
  rows[i].id < rows[j].id \/ (rows[i].id = rows[j].id /\ i < j)

(* Rows of the shape; of tax, those that pass the quality gate. *)
Serves(shape, r) == shape \in r.shapes /\ (shape = "tax" => r.usable)

(* The page that _hal_person_records answers, and the engine's use of it.  *)
Respond(rows, timedOut) ==
  \E order \in SetToSeqs({i \in DOMAIN rows : Serves(walk.shape, rows[i])}) :
    /\ \A k, m \in DOMAIN order : k < m => ById(rows, order[k], order[m])
    /\ LET all  == [k \in DOMAIN order |-> rows[order[k]]]
           read == walk.read \o Window(all, Len(walk.read), walk.limit)
       IN  /\ page' = [total |-> Len(all), timedOut |-> timedOut]
           /\ walk' = [walk EXCEPT !.read = read,
                                   !.end = IF timedOut THEN "flagged"
                                           ELSE IF Len(read) < Len(all) THEN "open"
                                           ELSE "whole"]
    /\ stage' = "idle" /\ todo' = <<>> /\ fetched' = <<>>

(* ORDER BY confidence DESC NULLS LAST, source_table, record_id *)
LinkBefore(x, y) ==
  \/ x.confidence > y.confidence
  \/ x.confidence = y.confidence /\ x.source < y.source
  \/ x.confidence = y.confidence /\ x.source = y.source /\ x.id < y.id

(* The ids of each table, the tables in the order the links name them. *)
ByTable(links) ==
  LET first(t) == Min({i \in DOMAIN links : links[i].source = t})
      ids(t)   == {l.id : l \in {m \in ToSet(links) : m.source = t}}
      tables   == {order \in SetToSeqs({l.source : l \in ToSet(links)}) :
                     \A k, m \in DOMAIN order : k < m => first(order[k]) < first(order[m])}
  IN  {[k \in DOMAIN order |-> [source |-> order[k], ids |-> ids(order[k])]] :
         order \in tables}

(* records_for_hal_id, and rows_for_links up to its first query: a link    *)
(* to an unknown table is an error, no links are no rows.                  *)
ReadLinks ==
  /\ stage = "links"
  /\ \E order \in SetToSeqs({l \in graph.links : l.hal = walk.hal}) :
       /\ \A i, j \in DOMAIN order : i < j => LinkBefore(order[i], order[j])
       /\ LET links == SubSeq(order, 1, Min({MaxLinks, Len(order)}))
          IN  \/ /\ \E l \in ToSet(links) : l.source = 4
                 /\ EndWalk("failed") /\ UNCHANGED page
              \/ /\ links = <<>>
                 /\ Respond(<<>>, FALSE)
              \/ /\ links # <<>> /\ \A l \in ToSet(links) : l.source # 4
                 /\ todo' \in ByTable(links) /\ stage' = "rows"
                 /\ UNCHANGED <<walk, fetched, page>>
  /\ UNCHANGED <<graph, answer>>

(* A faulty Unseen, without the check.                                     *)
AllOf(rows) == rows

(* A row that two names of its table both led to is kept once. *)
Unseen(rows) == rows \ ToSet(fetched)

(* rows_for_links: the query of one table returns, in any order. *)
FetchTable ==
  /\ stage = "rows"
  /\ LET found == {r \in graph.rows : /\ r.family = Family[Head(todo).source]
                                      /\ r.id \in Head(todo).ids}
     IN  \E rows \in SetToSeqs(Unseen(found)) :
           LET sofar == fetched \o rows
           IN  \/ /\ Len(todo) > 1
                  /\ fetched' = sofar /\ todo' = Tail(todo)
                  /\ UNCHANGED <<walk, stage, page>>
               \/ /\ Len(todo) = 1
                  /\ Respond(sofar, FALSE)
  /\ UNCHANGED <<graph, answer>>

(* A faulty FetchCancelled, which keeps what the other tables gave.        *)
KeepsSome ==
  /\ stage = "rows"
  /\ Respond(fetched, TRUE)
  /\ UNCHANGED <<graph, answer>>

(* It is cancelled: what other tables gave is dropped, and the page says   *)
(* that it timed out, on which the engine stops.                           *)
FetchCancelled ==
  /\ stage = "rows"
  /\ Respond(<<>>, TRUE)
  /\ UNCHANGED <<graph, answer>>

(* Any other error of a query, and the cancellation of the first two, are  *)
(* errors of the request.                                                  *)
Fail ==
  /\ stage # "idle"
  /\ EndWalk("failed")
  /\ UNCHANGED <<graph, answer, page>>

(* The engine has what it wanted of this person. *)
Forget ==
  /\ walk # None
  /\ walk.end # "open"
  /\ walk' = None /\ page' = None
  /\ UNCHANGED <<graph, answer, stage, todo, fetched>>

Next ==
  \/ \E name \in Names, limit \in Limits : Search(name, limit)
  \/ \E name \in Names : SearchCancelled(name)
  \/ \E hal \in Handles, shape \in Shapes, limit \in Limits :
       BeginWalk(hal, shape, limit)
  \/ NextPage
  \/ ReadPerson
  \/ ReadLinks
  \/ FetchTable
  \/ FetchCancelled
  \/ Fail
  \/ Forget

(* A query that is awaited ends, and the engine reads on while has_more.   *)
Fairness ==
  /\ WF_vars(NextPage)
  /\ WF_vars(ReadPerson \/ ReadLinks \/ FetchTable \/ FetchCancelled \/ Fail)

Spec == Init /\ [][Next]_vars /\ Fairness

------------------------------------------------------------------------------
(* Properties *)

(* Every variable holds values of its type; a traversal holds no row twice.*)
TypeOK ==
  /\ answer # None => answer.total \in Nat /\ answer.results \in Seq(graph.people)
  /\ walk # None => walk \in Walks /\ walk.read \in Seq(graph.rows)
  /\ stage \in {"idle", "person", "links", "rows"}
  /\ stage = "rows" <=> todo # <<>>
  /\ fetched \in Seq(graph.rows)
  /\ IsInjective(fetched)
  /\ page # None => page.total \in Nat /\ page.timedOut \in BOOLEAN

(* Of the person that is read, the rows of the shape that the first        *)
(* MaxLinks links name.                                                    *)
Attributed ==
  LET links == {l \in graph.links : l.hal = walk.hal}
      top   == {l \in links :
                  Cardinality({m \in links : m = l \/ LinkBefore(m, l)}) <= MaxLinks}
  IN  {r \in graph.rows :
         /\ Serves(walk.shape, r)
         /\ \E l \in top : l.source # 4 /\ r.family = Family[l.source] /\ r.id = l.id}

(* The pages that an engine reads one after another, each a traversal of   *)
(* its own, fit together: when has_more ends and no page was flagged, it   *)
(* has read each row attributed to the person once.                        *)
WalkWhole ==
  walk # None =>
    (walk.end = "whole" => IsInjective(walk.read) /\ ToSet(walk.read) = Attributed)

(* A page is whole or flagged: total_count is that of all the rows, or the *)
(* page is empty and says that it timed out.                               *)
PageHonest ==
  page # None =>
    page.total = IF page.timedOut THEN 0 ELSE Cardinality(Attributed)

(* A typed name spells a key: it reads "LAST" or "FIRST ... LAST" with a   *)
(* surname of one word, or "LAST," or "LAST, FIRST ..." with any surname.  *)
Spells(name, key) ==
  LET before == IF name.comma = None THEN <<>> ELSE SubSeq(name.words, 1, name.comma)
      after  == SubSeq(name.words, Len(before) + 1, Len(name.words))
  IN  /\ key.hal # 0
      /\ \/ name.comma = None /\ Len(after) = 1 /\ key.last = after
         \/ /\ name.comma = None /\ Len(after) > 1
            /\ key.last = <<Last(after)>> /\ key.first = Head(after)
         \/ /\ before # <<>> /\ key.last = before
            /\ after # <<>> => key.first = Head(after)

Spelled(name) == {k \in graph.keys : Spells(name, k)}

(* A search that is not cancelled finds every person with a name_dob key   *)
(* of the name that was typed, in either form, and who is not superseded,  *)
(* unless the key scan hit its cap, and then total_count is a floor.       *)
SearchComplete ==
  answer # None =>
    (~answer.cancelled =>
      LET living == {e \in Named(Spelled(answer.name)) : ~e.merged}
      IN  IF Cardinality(Spelled(answer.name)) <= KeyLimit
          THEN answer.total = Cardinality(living)
          ELSE answer.total <= Cardinality(living))

(* Two searches that spell the same keys, "Jane Doe" and "Doe, Jane",      *)
(* agree: of one total, and the shorter page a prefix of the longer.       *)
SearchesAgree ==
  [][answer # None /\ answer' # None /\ Spelled(answer'.name) = Spelled(answer.name)
       /\ ~answer.cancelled /\ ~answer'.cancelled =>
     /\ answer'.total = answer.total
     /\ \/ IsPrefix(answer.results, answer'.results)
        \/ IsPrefix(answer'.results, answer.results)]_answer

(* has_more does not lead an engine on for ever, whatever limit it asks    *)
(* for.                                                                    *)
WalkEnds == (walk # None /\ walk.end = "open") ~> (walk # None /\ walk.end # "open")
==============================================================================
