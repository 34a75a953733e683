--------------------------- MODULE SessionQueries ---------------------------
(***************************************************************************)
(* Queries over sessions (src/src/session_query.rs, and the listings of    *)
(* src/src/host.rs) while sessions are created, appended to, restored and  *)
(* deleted (src/src/session.rs).                                           *)
(*                                                                         *)
(* A session is stored (the persistence layer's log) and may be live (the  *)
(* resident copy).  Every persistence call is atomic; a query awaits       *)
(* several of them and other tasks run in between.  An event is what the   *)
(* properties tell apart of it: its type, its surface operation, the       *)
(* events it cites, and how its text answers a search (occurrences, size). *)
(* Its sequence number is its place in the log, from 0.                    *)
(***************************************************************************)
EXTENDS Integers, Sequences, FiniteSets, SequencesExt

CONSTANTS
  Sessions,   \* session ids, numbers because listings are ordered by id
  Events,     \* the events appended: [type, op, sources, hits, size]
  Filters,    \* the filters of requests: [types, first, last]
  Kinds,      \* the queries made: log, list, search, summaries
  Happens,    \* what else happens: delete, restart
  Readers,    \* the tasks that query
  Limit,      \* the page size
  MaxEvents,  \* bound: events of a session
  MaxAsks,    \* bound: requests started
  MaxBirths,  \* bound: sessions created
  Modes,      \* default agent modes that may be set
  Texts,      \* texts searched: sequences of "a", "A", "I" and " "
  Words,      \* texts searched for
  SnippetMax  \* SESSION_SEARCH_SNIPPET_MAX_CODE_POINTS

VARIABLES
  stored,  \* the durable log of each session
  live,    \* its resident copy, with the surface it maintains
  work,    \* what a writer has persisted and not yet made resident
  mode,    \* the default agent mode
  cache,   \* session_summaries
  reader,  \* the query of each task
  births, asks

vars == <<stored, live, work, mode, cache, reader, births, asks>>

Absent == [on |-> FALSE, born |-> 0, events |-> <<>>]
NotLive == [on |-> FALSE, events |-> <<>>, surface |-> <<>>]
NoWork == [is |-> "none", events |-> <<>>]
NoSummary == [on |-> FALSE, revision |-> Absent, mode |-> "none", count |-> 0, shown |-> "none"]
NoCursor == [on |-> FALSE, request |-> {}, revision |-> <<>>, position |-> 0]
Quiet == [kind |-> "none", at |-> "idle", s |-> 0, filter |-> {}, ids |-> {}, found |-> {},
          cursor |-> NoCursor, got |-> <<>>, seen |-> {}, mode |-> "none", began |-> {},
          gone |-> {}, all |-> <<>>, out |-> "none"]

Init ==
  /\ stored = [s \in Sessions |-> Absent] /\ live = [s \in Sessions |-> NotLive]
  /\ work = [s \in Sessions |-> NoWork] /\ mode \in Modes
  /\ cache = [s \in Sessions |-> NoSummary]
  /\ reader = [r \in Readers |-> Quiet] /\ births = 0 /\ asks = 0

-----------------------------------------------------------------------------
(* The surface: Session maintains it event by event, a query rebuilds it *)

Visible(event) == event.type \in {"user", "assistant", "result"}

\* validate_sources and validate_surface_operation.
Admissible(event, events, surface) ==
  /\ event.sources \subseteq 0 .. Len(events) - 1
  /\ Visible(event) => \/ event.op.is = "append"
                       \/ /\ event.op.is = "replace" /\ event.op.start <= event.op.end
                          /\ event.op.end <= Len(surface)

\* apply_surface_operation, an entry being the sequence number of its event.
Applied(event, seq, surface) ==
  CASE ~Visible(event) -> surface
    [] event.op.is = "append" -> Append(surface, seq)
    [] OTHER -> SubSeq(surface, 1, event.op.start) \o <<seq>>
                \o SubSeq(surface, event.op.end + 1, Len(surface))

Empty == [ok |-> TRUE, surface |-> <<>>]
Broken == [ok |-> FALSE, surface |-> <<>>]

\* build_state: the surface of a restored log, whose every event is validated again.
Rebuilt(events) ==
  FoldLeft(LAMBDA was, n :
             IF was.ok /\ Admissible(events[n], SubSeq(events, 1, n - 1), was.surface)
             THEN [was EXCEPT !.surface = Applied(events[n], n - 1, @)] ELSE Broken,
           Empty, [n \in DOMAIN events |-> n])

\* SessionQuery::surface, which knows nothing of the sources.
Surface(events) ==
  FoldLeft(LAMBDA was, n :
             LET event == events[n] IN
             CASE ~was.ok \/ ~Visible(event) -> was
               [] event.op.is = "append" -> [was EXCEPT !.surface = Append(@, n - 1)]
               [] event.op.is = "replace" /\ event.op.start <= event.op.end
                  /\ event.op.end <= Len(was.surface) ->
                    [was EXCEPT !.surface = SubSeq(@, 1, event.op.start) \o <<n - 1>>
                                            \o SubSeq(@, event.op.end + 1, Len(@))]
               [] OTHER -> Broken,
           Empty, [n \in DOMAIN events |-> n])

-----------------------------------------------------------------------------
(* Writers *)

\* create and create_seeded: first the durable log, then the resident copy.
Create(s, seed) ==
  /\ births < MaxBirths /\ ~stored[s].on /\ ~live[s].on /\ work[s] = NoWork
  /\ Rebuilt(seed).ok
  /\ stored' = [stored EXCEPT ![s] = [on |-> TRUE, born |-> births + 1, events |-> seed]]
  /\ work' = [work EXCEPT ![s] = [is |-> "insert", events |-> seed]] /\ births' = births + 1
  /\ UNCHANGED <<live, mode, cache, reader, asks>>

\* restore reads the log and insert_live makes it resident.
Restore(s) ==
  /\ stored[s].on /\ ~live[s].on /\ work[s] = NoWork /\ Rebuilt(stored[s].events).ok
  /\ work' = [work EXCEPT ![s] = [is |-> "insert", events |-> stored[s].events]]
  /\ UNCHANGED <<stored, live, mode, cache, reader, births, asks>>

Insert(s) ==
  /\ work[s].is = "insert" /\ work' = [work EXCEPT ![s] = NoWork]
  /\ live' = [live EXCEPT ![s] = [on |-> TRUE, events |-> work[s].events,
                                  surface |-> Rebuilt(work[s].events).surface]]
  /\ UNCHANGED <<stored, mode, cache, reader, births, asks>>

\* append_under_gate: the persistence append is the commit point, the resident copy follows.
AppendEvent(s, event) ==
  /\ live[s].on /\ work[s] = NoWork /\ Len(live[s].events) < MaxEvents
  /\ Admissible(event, live[s].events, live[s].surface)
  /\ stored' = [stored EXCEPT ![s].events = Append(@, event)]
  /\ work' = [work EXCEPT ![s] = [is |-> "admit", events |-> <<event>>]]
  /\ UNCHANGED <<live, mode, cache, reader, births, asks>>

Admit(s) ==
  /\ work[s].is = "admit" /\ work' = [work EXCEPT ![s] = NoWork]
  /\ LET event == work[s].events[1]  was == live[s]
     IN live' = [live EXCEPT ![s] =
          [on |-> TRUE, events |-> Append(was.events, event),
           surface |-> Applied(event, Len(was.events), was.surface)]]
  /\ UNCHANGED <<stored, mode, cache, reader, births, asks>>

\* Deleting: the durable record goes, then the resident copy.
Delete(s) ==
  /\ "delete" \in Happens /\ stored[s].on /\ work[s] = NoWork
  /\ stored' = [stored EXCEPT ![s] = Absent]
  /\ work' = [work EXCEPT ![s] = [is |-> "evict", events |-> <<>>]]
  /\ reader' = [r \in Readers |-> [reader[r] EXCEPT !.gone = @ \cup {s}]]
  /\ UNCHANGED <<live, mode, cache, births, asks>>

Evict(s) ==
  /\ work[s].is = "evict" /\ work' = [work EXCEPT ![s] = NoWork]
  /\ live' = [live EXCEPT ![s] = NotLive]
  /\ UNCHANGED <<stored, mode, cache, reader, births, asks>>

\* A new process finds the durable logs only.
Restart ==
  /\ "restart" \in Happens
  /\ \A s \in Sessions : work[s] = NoWork
  /\ \E s \in Sessions : live[s].on
  /\ live' = [s \in Sessions |-> NotLive] /\ cache' = [s \in Sessions |-> NoSummary]
  /\ reader' = [r \in Readers |-> Quiet]
  /\ UNCHANGED <<stored, work, mode, births, asks>>

SetMode(new) ==
  /\ new # mode /\ mode' = new
  /\ UNCHANGED <<stored, live, work, cache, reader, births, asks>>
-----------------------------------------------------------------------------
(* Search text: folding may turn one character into two *)

Lower(c) == CASE c = "A" -> <<"a">> [] c = "I" -> <<"i", "dot">> [] OTHER -> <<c>>

\* normalize_value: folded, runs of white space made one space, none at either end.
Normalized(text) ==
  LET folded == FlattenSeq([n \in DOMAIN text |-> Lower(text[n])])
      kept == SelectSeq([n \in DOMAIN folded |-> n],
                LAMBDA n : folded[n] = " " => /\ n > 1 /\ folded[n - 1] # " "
                                              /\ \E m \in n + 1 .. Len(folded) : folded[m] # " ")
  IN [n \in DOMAIN kept |-> folded[kept[n]]]

\* SearchDocument::new: the text as shown, its folding, and where each folded character is
\* shown; one trailing space goes, a leading one stays.
DocumentStep(doc, c) ==
  IF c = " " /\ doc.display # <<>> /\ Last(doc.display) = " " THEN doc
  ELSE [display |-> Append(doc.display, c), folded |-> doc.folded \o Lower(c),
        shown |-> doc.shown \o [n \in DOMAIN Lower(c) |-> Len(doc.display)]]

Document(text) ==
  LET doc == FoldLeft(DocumentStep, [display |-> <<>>, folded |-> <<>>, shown |-> <<>>], text)
  IN IF doc.display # <<>> /\ Last(doc.display) = " "
     THEN [display |-> Front(doc.display), folded |-> Front(doc.folded), shown |-> Front(doc.shown)]
     ELSE doc

At(seq, sub, n) == n + Len(sub) <= Len(seq) /\ SubSeq(seq, n + 1, n + Len(sub)) = sub

\* SearchDocument::find: how often the query occurs and where its first occurrence is shown.
Find(doc, query) ==
  LET starts == {n \in 0 .. Len(doc.folded) : At(doc.folded, query, n)}
  IN IF starts = {} THEN [count |-> 0, start |-> 0, end |-> 0]
     ELSE LET first == CHOOSE n \in starts : \A m \in starts : n <= m
          IN [count |-> Cardinality(starts), start |-> doc.shown[first + 1],
              end |-> doc.shown[first + Len(query)] + 1]

Most(a, b) == IF a >= b THEN a ELSE b
Least(a, b) == IF a <= b THEN a ELSE b

\* SearchDocument::snippet: where the excerpt begins and ends.
Snippet(doc, hit) ==
  LET size == Len(doc.display)
      middle == hit.start + (hit.end - hit.start) \div 2
      begin == Least(Most(middle - SnippetMax \div 2, 0), size - SnippetMax)
  IN IF size <= SnippetMax THEN [begin |-> 0, end |-> size]
     ELSE [begin |-> begin, end |-> begin + SnippetMax]

-----------------------------------------------------------------------------
(* Answers *)

HasClause(filter) == filter.types # {} \/ filter.first # 0 \/ filter.last # MaxEvents

\* matches_event and matches_session.
MatchesEvent(event, seq, filter) ==
  /\ filter.types # {} => event.type \in filter.types
  /\ filter.first <= seq /\ seq <= filter.last

MatchesSession(events, filter) ==
  HasClause(filter) => \E n \in DOMAIN events : MatchesEvent(events[n], n - 1, filter)

\* What a listing pages through: records by id, or the events of one record by number.
ListMatches(found, filter) ==
  SetToSortSeq({[key |-> f.s, is |-> f.events] : f \in {g \in found : MatchesSession(g.events, filter)}},
               LAMBDA a, b : a.key < b.key)

LogMatches(found, filter) ==
  LET events == (CHOOSE f \in found : TRUE).events
  IN SetToSortSeq({[key |-> n - 1, is |-> <<events[n]>>] :
                     n \in {m \in DOMAIN events : MatchesEvent(events[m], m - 1, filter)}},
                  LAMBDA a, b : a.key < b.key)

\* decode_cursor: the cursor of another request, or of records that have changed since.
CursorError(cursor, request, matches) ==
  CASE ~cursor.on -> "none"
    [] cursor.request # request -> "mismatch"
    [] cursor.revision # matches -> "stale"
    [] OTHER -> "none"

Rest(cursor, matches) ==
  IF cursor.on THEN SelectSeq(matches, LAMBDA item : item.key > cursor.position) ELSE matches

\* One page: what is left behind the cursor, up to Limit, and where the next page starts.
Page(query, matches) ==
  LET request == <<query.kind, query.s, query.filter>>
      why == CursorError(query.cursor, request, matches)
      items == Rest(query.cursor, matches)
      shown == SubSeq(items, 1, Limit)
  IN IF why # "none" THEN [query EXCEPT !.at = "idle", !.out = why]
     ELSE IF Len(items) > Limit
     THEN [query EXCEPT !.at = "idle", !.out = "page", !.got = @ \o shown, !.all = matches,
                        !.cursor = [on |-> TRUE, request |-> request, revision |-> matches,
                                    position |-> items[Limit].key]]
     ELSE [query EXCEPT !.at = "idle", !.out = "end", !.got = @ \o items, !.all = matches,
                        !.cursor = NoCursor]

-----------------------------------------------------------------------------
(* Search *)

\* search_order: more occurrences, then the shorter text, then the later event (time grows
\* with the sequence number), then the session id.
Before(a, b) ==
  \/ a.hits > b.hits
  \/ a.hits = b.hits /\ a.size < b.size
  \/ a.hits = b.hits /\ a.size = b.size /\ a.seq > b.seq
  \/ a.hits = b.hits /\ a.size = b.size /\ a.seq = b.seq /\ a.s < b.s

\* The entries of a session's surface that a search looks at and that match.
Candidates(s, events) ==
  LET surface == Surface(events).surface
      spoken == {seq \in Range(surface) : events[seq + 1].type \in {"user", "assistant"}}
  IN {[s |-> s, seq |-> seq, hits |-> events[seq + 1].hits, size |-> events[seq + 1].size] :
        seq \in {q \in spoken : events[q + 1].hits > 0}}

\* The best match is kept while the surface is walked.
BestStep(s, events, best, seq) ==
  LET event == events[seq + 1]
      hit == [s |-> s, seq |-> seq, hits |-> event.hits, size |-> event.size]
  IN IF event.type \in {"user", "assistant"} /\ event.hits > 0
        /\ (best = <<>> \/ Before(hit, best[1]))
     THEN <<hit>> ELSE best

Best(s, events) ==
  FoldLeft(LAMBDA best, seq : BestStep(s, events, best, seq), <<>>, Surface(events).surface)

Searched(found, visible) ==
  SetToSortSeq({Best(f.s, f.events)[1] :
                  f \in {g \in found : g.s \in visible /\ Best(g.s, g.events) # <<>>}}, Before)
-----------------------------------------------------------------------------
(* Queries *)

\* What every session is known to hold when a request begins.
Known ==
  {[s |-> s, events |-> live[s].events] : s \in {x \in Sessions : live[x].on /\ stored[x].on}}
  \cup {[s |-> s, events |-> stored[s].events] :
          s \in {x \in Sessions : stored[x].on /\ ~live[x].on /\ work[x] = NoWork}}

\* The sessions whose deletion is under way.
Leaving == {s \in Sessions : work[s].is = "evict"}

Queries(r, new) == reader' = [reader EXCEPT ![r] = new]
Keeps == UNCHANGED <<stored, live, work, mode, births, asks>>
Steps(r, new) == Queries(r, new) /\ UNCHANGED cache /\ Keeps
Answers(r, out) == Steps(r, [reader[r] EXCEPT !.at = "idle", !.out = out])

FirstStep(kind) == CASE kind = "log" -> "get" [] kind = "list" -> "ids"
                     [] kind = "search" -> "visible" [] OTHER -> "lock"

Ask(r, kind, s, filter) ==
  /\ reader[r].at = "idle" /\ kind \in Kinds /\ asks < MaxAsks /\ asks' = asks + 1
  /\ Queries(r, [Quiet EXCEPT !.kind = kind, !.at = FirstStep(kind), !.s = s, !.filter = filter,
                              !.mode = mode, !.began = Known, !.gone = Leaving])
  /\ UNCHANGED <<stored, live, work, mode, cache, births>>

\* The next page, asked for with the cursor of the last one.
Continue(r, filter) ==
  /\ reader[r].at = "idle" /\ reader[r].out = "page"
  /\ Steps(r, [reader[r] EXCEPT !.at = FirstStep(reader[r].kind), !.filter = filter, !.began = Known,
                                !.gone = Leaving, !.found = {}, !.out = "none"])

\* read: the resident copy, or load and then read_from.
Get(r) ==
  LET query == reader[r] IN
  /\ query.at = "get"
  /\ \/ /\ live[query.s].on
        /\ LET found == {[s |-> query.s, events |-> live[query.s].events]}
           IN Steps(r, Page([query EXCEPT !.found = found], LogMatches(found, query.filter)))
     \/ ~live[query.s].on /\ Steps(r, [query EXCEPT !.at = "load"])

Load(r) ==
  /\ reader[r].at = "load"
  /\ \/ ~stored[reader[r].s].on /\ Answers(r, "missing")
     \/ stored[reader[r].s].on /\ Steps(r, [reader[r] EXCEPT !.at = "read"])

ReadFrom(r) ==
  LET query == reader[r] IN
  /\ query.at = "read"
  /\ \/ ~stored[query.s].on /\ Answers(r, "missing")
     \/ /\ stored[query.s].on
        /\ LET found == {[s |-> query.s, events |-> stored[query.s].events]}
           IN Steps(r, Page([query EXCEPT !.found = found], LogMatches(found, query.filter)))

\* search_sessions_inner lists the sessions a search may show before the search lists them.
ListVisible(r) ==
  /\ reader[r].at = "visible"
  /\ Steps(r, [reader[r] EXCEPT !.at = "ids", !.seen = {s \in Sessions : stored[s].on}])

\* all_records: the listing, one log after the other, and the resident copies over them.
ListIds(r) ==
  /\ reader[r].at = "ids"
  /\ Steps(r, [reader[r] EXCEPT !.at = "logs", !.ids = {s \in Sessions : stored[s].on}])

ReadLog(r) ==
  LET query == reader[r] IN
  /\ query.at = "logs" /\ query.ids # {}
  /\ \E s \in query.ids :
       /\ \A other \in query.ids : s <= other
       /\ \/ ~stored[s].on /\ Answers(r, "missing")
          \/ /\ stored[s].on
             /\ Steps(r, [query EXCEPT !.ids = @ \ {s},
                          !.found = @ \cup {[s |-> s, events |-> stored[s].events]}])

Overlaid(found) ==
  {f \in found : ~live[f.s].on}
  \cup {[s |-> s, events |-> live[s].events] : s \in {x \in Sessions : live[x].on}}

Merge(r) ==
  LET query == reader[r]
      found == Overlaid(query.found)
  IN /\ query.at = "logs" /\ query.ids = {}
     /\ \/ /\ query.kind = "list"
           /\ Steps(r, Page([query EXCEPT !.found = found], ListMatches(found, query.filter)))
        \/ /\ query.kind = "search"
           /\ Steps(r, [query EXCEPT !.at = "idle", !.out = "end", !.found = found,
                                     !.got = Searched(found, query.seen)])

-----------------------------------------------------------------------------
(* Summaries: list_session_summaries_inner holds the cache from LockCache to its answer *)

\* selected_agent_mode_from: the last mode selected, or the default (headers name none here).
Selected(events, default) ==
  IF \E n \in DOMAIN events : events[n].type = "mode" THEN "selected" ELSE default

LockCache(r) ==
  /\ reader[r].at = "lock"
  /\ \A other \in Readers : reader[other].at \notin {"revisions", "inspect", "summary"}
  /\ Steps(r, [reader[r] EXCEPT !.at = "revisions"])

\* list_revisions, and cache.retain.
ListRevisions(r) ==
  LET on == {s \in Sessions : stored[s].on} IN
  /\ reader[r].at = "revisions"
  /\ Queries(r, [reader[r] EXCEPT !.at = "inspect", !.ids = on,
                                  !.found = {[s |-> s, revision |-> stored[s]] : s \in on}])
  /\ cache' = [s \in Sessions |-> IF s \in on THEN cache[s] ELSE NoSummary]
  /\ Keeps

\* The summary of the next session: cached under this revision and default, or read again.
Summarise(r) ==
  LET query == reader[r] IN
  /\ query.at = "inspect" /\ query.ids # {}
  /\ \E s \in query.ids :
       LET revision == (CHOOSE f \in query.found : f.s = s).revision
           had == cache[s]
       IN /\ \A other \in query.ids : s <= other
          /\ \/ /\ had.on /\ had.revision = revision /\ had.mode = query.mode
                /\ Steps(r, [query EXCEPT !.ids = @ \ {s},
                     !.seen = @ \cup {[s |-> s, count |-> had.count, shown |-> had.shown]}])
             \/ /\ ~(had.on /\ had.revision = revision /\ had.mode = query.mode)
                /\ \/ /\ ~stored[s].on /\ cache' = [cache EXCEPT ![s] = NoSummary]
                      /\ Queries(r, [query EXCEPT !.ids = @ \ {s}]) /\ Keeps
                   \/ /\ stored[s].on
                      /\ Steps(r, [query EXCEPT !.at = "summary", !.s = s,
                                   !.all = stored[s].events])

\* load_session_summary: the count is the inspection's, the rest is of the log read after it.
LoadSummary(r) ==
  LET query == reader[r]
      revision == (CHOOSE f \in query.found : f.s = query.s).revision
      shown == Selected(stored[query.s].events, query.mode)
  IN /\ query.at = "summary"
     /\ \/ ~stored[query.s].on /\ Answers(r, "missing")
        \/ /\ stored[query.s].on
           /\ cache' = [cache EXCEPT ![query.s] =
                [on |-> TRUE, revision |-> revision, mode |-> query.mode,
                 count |-> Len(query.all), shown |-> shown]]
           /\ Queries(r, [query EXCEPT !.at = "inspect", !.ids = @ \ {query.s},
                !.seen = @ \cup {[s |-> query.s, count |-> Len(query.all), shown |-> shown]}])
           /\ Keeps

\* The running state, the workspace and a projected title are read afresh over each summary.
Summarised(r) == reader[r].at = "inspect" /\ reader[r].ids = {} /\ Answers(r, "end")
-----------------------------------------------------------------------------
(* One text searched for another, as search_visible does with each message *)

SearchText(r, text, for) ==
  LET query == Normalized(for)
      hit == Find(Document(text), query)
  IN /\ "text" \in Kinds /\ reader[r] = Quiet /\ asks < MaxAsks /\ asks' = asks + 1
     /\ query # <<>>
     /\ Queries(r, [Quiet EXCEPT !.kind = "text", !.out = "end", !.all = text, !.got = query,
                    !.found = {[hit |-> hit, snippet |-> Snippet(Document(text), hit)]}])
     /\ UNCHANGED <<stored, live, work, mode, cache, births>>

\* trace: the events an event cites, and those that cite it.
Sources(events, seq) == {q \in events[seq + 1].sources : q + 1 \in DOMAIN events}
Replacements(events, seq) == {q \in 0 .. Len(events) - 1 : seq \in events[q + 1].sources}

Next ==
  \/ \E s \in Sessions :
       \/ \E seed \in {<<>>} \cup {<<e>> : e \in Events} : Create(s, seed)
       \/ \E event \in Events : AppendEvent(s, event)
       \/ Restore(s) \/ Insert(s) \/ Admit(s) \/ Delete(s) \/ Evict(s)
  \/ Restart
  \/ \E new \in Modes : SetMode(new)
  \/ \E r \in Readers :
       \/ \E s \in Sessions, filter \in Filters : Ask(r, "log", s, filter)
       \/ \E kind \in {"list", "search", "summaries"}, filter \in Filters : Ask(r, kind, 0, filter)
       \/ \E filter \in Filters : Continue(r, filter)
       \/ Get(r) \/ Load(r) \/ ReadFrom(r)
       \/ ListVisible(r) \/ ListIds(r) \/ ReadLog(r) \/ Merge(r)
       \/ LockCache(r) \/ ListRevisions(r) \/ Summarise(r) \/ LoadSummary(r) \/ Summarised(r)
       \/ \E text \in Texts, for \in Words : SearchText(r, text, for)

Spec == Init /\ [][Next]_vars

-----------------------------------------------------------------------------
(* Properties *)

\* A resident copy never runs ahead of its log, its surface is the one a query rebuilds from
\* the log, and every event cites events that the log holds before it.
ResidentIsItsLog ==
  \A s \in Sessions : live[s].on /\ stored[s].on =>
    /\ IsPrefix(live[s].events, stored[s].events)
    /\ work[s].is # "admit" => live[s].events = stored[s].events
    /\ Surface(live[s].events) = [ok |-> TRUE, surface |-> live[s].surface]
    /\ \A seq \in 0 .. Len(live[s].events) - 1 :
         /\ Sources(live[s].events, seq) = live[s].events[seq + 1].sources
         /\ \A q \in Replacements(live[s].events, seq) : q > seq

\* The pages of a listing that reaches its end are cut from one and the same list: every
\* match once, in order, whatever was written between the pages.
PagesAreOneSnapshot ==
  \A r \in Readers : reader[r].out = "end" /\ reader[r].kind \in {"log", "list"} =>
    reader[r].got = reader[r].all

\* An answer holds everything the sessions were known to hold when it was asked for, and
\* nothing their logs do not hold, unless the session was deleted meanwhile; only such a
\* session can make a query over all sessions fail.
AnswersAreFresh ==
  \A r \in Readers :
    LET query == reader[r] IN
    query.kind \in {"log", "list", "search"} =>
      /\ query.out \in {"page", "end"} =>
           /\ \A k \in {b \in query.began : b.s \notin query.gone} :
                (query.kind = "log" => k.s = query.s) =>
                  \E f \in query.found : f.s = k.s /\ IsPrefix(k.events, f.events)
           /\ \A f \in query.found : f.s \notin query.gone => IsPrefix(f.events, stored[f.s].events)
      /\ query.out = "missing" /\ query.gone = {} => \A k \in query.began : k.s # query.s

\* A summary served, cached or not, counts every event its session was known to hold when it
\* was asked for, and shows the mode of such a log under the default of that moment.
SummariesAreFresh ==
  \A r \in Readers :
    LET query == reader[r] IN
    query.kind = "summaries" /\ query.out = "end" =>
      \A k \in {b \in query.began : b.s \notin query.gone} :
        \E x \in query.seen :
          /\ x.s = k.s /\ x.count >= Len(k.events)
          /\ \E n \in Len(k.events) .. Len(stored[k.s].events) :
               x.shown = Selected(SubSeq(stored[k.s].events, 1, n), query.mode)

\* A search answers with each session that has a match on its surface, once, by its best
\* match, and in order.
SearchIsRanked ==
  \A r \in Readers :
    LET query == reader[r] IN
    query.kind = "search" /\ query.out = "end" =>
      /\ \A n \in 1 .. Len(query.got) - 1 : Before(query.got[n], query.got[n + 1])
      /\ {hit.s : hit \in Range(query.got)}
           = {f.s : f \in {g \in query.found : g.s \in query.seen /\ Candidates(g.s, g.events) # {}}}
      /\ \A hit \in Range(query.got), f \in query.found :
           hit.s = f.s => hit \in Candidates(f.s, f.events)
                          /\ \A other \in Candidates(f.s, f.events) : ~Before(other, hit)

\* A search finds a query exactly where the normalised text holds it, counts its occurrences,
\* and shows its first one whole when the excerpt is long enough for it.
FoundIsShown ==
  \A r \in Readers : reader[r].kind = "text" =>
    \A f \in reader[r].found :
      LET text == Normalized(reader[r].all)
          query == reader[r].got
          starts == {n \in 0 .. Len(text) : At(text, query, n)}
      IN /\ f.hit.count = Cardinality(starts)
         /\ f.snippet.begin >= 0 /\ f.snippet.end <= Len(Document(reader[r].all).display)
         /\ f.hit.count > 0 /\ f.hit.end - f.hit.start <= SnippetMax =>
              f.snippet.begin <= f.hit.start /\ f.hit.end <= f.snippet.end
=============================================================================
