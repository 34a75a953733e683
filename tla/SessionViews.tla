---------------------------- MODULE SessionViews ----------------------------
(***************************************************************************)
(* What a client of the compatibility API is shown of one session          *)
(* (src/src/api.rs): pages of history, the values derived from the events  *)
(* (titles, plans, todos, goals, permissions, timing, token and step       *)
(* statistics), the projection frames that keep them current, and the view *)
(* of a tool result, which needs the call it answers.  The permission fold *)
(* is src/src/permissions.rs; pages of a subagent are src/src/subagent.rs. *)
(* An event's number is its place in the log and also its time.            *)
(***************************************************************************)
EXTENDS Integers, Sequences, FiniteSets, SequencesExt, FiniteSetsExt

CONSTANTS
  Facts,      \* events that may be committed outside the turn protocol
  Turns,      \* the agent loop runs: turns, steps, chunks, messages and tools
  CallIds,    \* tool call identifiers a model may choose
  Usages,     \* token counts a provider may report
  MaxEvents,  \* bound: events of the session
  MaxMessages, \* maxMessages of a page
  MaxCalls,   \* data.tool_calls ceiling (4096)
  Live,       \* a client follows the session
  ReadFaults, \* host.events may fail while a frame is built
  Pages       \* which histories are read: subset of {"session", "child"}

VARIABLES
  log,     \* committed events
  loop,    \* where the agent loop is: turn, step and what may follow
  client,  \* a client's values and the last event it has been told of
  calls,   \* CompatData.tool_calls
  shown,   \* view of each tool result told live: the call it was shown with
  pager    \* a client that pages back through the history

vars == <<log, loop, client, calls, shown, pager>>

Keys == {"title", "plan", "todos", "goal", "permissions", "timing", "stats", "usage", "pressure"}
Null == "null"
None == 0   \* no usage in a message; Usages are positive
Prefix(n) == SubSeq(log, 1, n)
Is(e, types) == e.type \in types

\* The newest event of these types, or 0.
LastOf(es, types) == Max({0} \cup {n \in DOMAIN es : Is(es[n], types)})

\* permissions.rs: the three knobs, and the preset they amount to.
PresetKnobs == ("read-only" :> <<"read-only", "ask">>) @@ ("workspace-write" :> <<"workspace-write", "ask">>)
               @@ ("danger-full-access" :> <<"danger-full-access", "never">>)
Knob(es, type, default) ==
  LET n == LastOf(es, {type}) IN IF n = 0 THEN default ELSE es[n].value
Current(es) ==
  LET knobs == <<Knob(es, "sandbox", "workspace-write"), Knob(es, "policy", "ask")>>
      chosen == Knob(es, "preset", Null)
      equal == {p \in DOMAIN PresetKnobs : PresetKnobs[p] = knobs}
  IN IF chosen \in equal THEN chosen ELSE IF equal = {} THEN "custom" ELSE CHOOSE p \in equal : TRUE

\* compat_token_usage_sample: a usage chunk, or a message that carries usage.
Sampled(e) == e.type = "usage" \/ (e.type = "message" /\ e.value # None)

\* compat_token_usage: a later sample of the step that was sampled last replaces it.
UsageStep(acc, e) ==
  IF ~Sampled(e) THEN acc
  ELSE [total |-> acc.total - (IF acc.at = <<e.turn, e.step>> THEN acc.last ELSE 0) + e.value,
        at |-> <<e.turn, e.step>>, last |-> e.value]
TokenUsage(es) == FoldLeft(UsageStep, [total |-> 0, at |-> <<0, 0>>, last |-> 0], es).total

\* compat_context_pressure: the newest window and the newest sample.
Pressure(es) ==
  LET w == LastOf(es, {"context"})
      s == Max({0} \cup {n \in DOMAIN es : Sampled(es[n])})
  IN <<IF w = 0 THEN Null ELSE es[w].value, IF s = 0 THEN None ELSE es[s].value>>

\* compat_session_stats, one event at a time.
NoStats == [turns |-> 0, steps |-> 0, llm |-> 0, tool |-> 0, ttft |-> 0, ttftSteps |-> 0,
            decode |-> 0, tokens |-> 0, lastTurn |-> 0, open |-> <<>>, pending |-> <<>>]
OpenIs(s, e) == s.open # <<>> /\ s.open[1].turn = e.turn /\ s.open[1].step = e.step
OnMessage(s, e) ==
  LET o == s.open[1]
      first == o.first # 0
      counted == first /\ e.value # None
  IN [s EXCEPT !.llm = @ + (e.time - o.start), !.open = <<>>,
               !.ttft = IF first THEN @ + (o.first - o.start) ELSE @,
               !.ttftSteps = IF first THEN @ + 1 ELSE @,
               !.decode = IF counted THEN @ + (e.time - o.first) ELSE @,
               !.tokens = IF counted THEN @ + e.value ELSE @]
StatsStep(s, e) ==
  CASE e.type = "stepStart" ->
         [s EXCEPT !.open = <<[turn |-> e.turn, step |-> e.step, start |-> e.time, first |-> 0]>>]
    [] e.type = "delta" /\ OpenIs(s, e) /\ s.open[1].first = 0 -> [s EXCEPT !.open[1].first = e.time]
    [] e.type = "message" /\ OpenIs(s, e) -> OnMessage(s, e)
    [] e.type = "call" -> [s EXCEPT !.pending = (e.value :> e.time) @@ @]
    [] e.type = "result" /\ e.value \in DOMAIN s.pending ->
         [s EXCEPT !.tool = @ + (e.time - s.pending[e.value]),
                   !.pending = [i \in DOMAIN @ \ {e.value} |-> @[i]]]
    [] e.type = "stepEnd" ->
         [s EXCEPT !.turns = IF s.lastTurn # e.turn THEN @ + 1 ELSE @, !.steps = @ + 1,
                   !.lastTurn = e.turn, !.open = <<>>]
    [] e.type = "turnEnd" -> [s EXCEPT !.pending = <<>>]
    [] OTHER -> s
Stats(es) ==
  LET s == FoldLeft(StatsStep, NoStats, es)
  IN <<s.turns, s.steps, s.llm, s.tool, s.ttft, s.ttftSteps, s.decode, s.tokens>>

\* compat_subagent_timing: settled time, the open turn's start, and the last event seen in it.
TimingStep(t, e) ==
  CASE e.type = "turnStart" -> [t EXCEPT !.since = e.time, !.through = e.time]
    [] e.type = "descriptor" -> [t EXCEPT !.settled = 0, !.through = IF t.since # 0 THEN e.time ELSE 0]
    [] e.type = "turnEnd" ->
         [settled |-> t.settled + (IF t.since # 0 THEN e.time - t.since ELSE 0), since |-> 0, through |-> 0]
    [] OTHER -> [t EXCEPT !.through = IF t.since # 0 THEN e.time ELSE 0]
Timing(es) == FoldLeft(TimingStep, [settled |-> 0, since |-> 0, through |-> 0], es)

\* compat_title_projection and compat_goal_projection_value.
Value(es, type, default) == LET n == LastOf(es, {type}) IN IF n = 0 THEN default ELSE es[n].value
Todos(es) ==
  LET n == LastOf(es, {"todo", "turnStart"})
  IN IF n = 0 \/ es[n].type = "turnStart" THEN Null ELSE es[n].value

\* compat_derived_projection_values.
Derived(es) ==
  [k \in Keys |->
     CASE k = "title" -> Value(es, "title", Null)
       [] k = "plan" -> Value(es, "plan", "off")
       [] k = "todos" -> Todos(es)
       [] k = "goal" -> Value(es, "goal", Null)
       [] k = "permissions" -> Current(es)
       [] k = "timing" -> Timing(es)
       [] k = "stats" -> Stats(es)
       [] k = "usage" -> TokenUsage(es)
       [] k = "pressure" -> Pressure(es)]

\* compat_metrics_changed, compat_permission_changed, timing_boundary.
Metrics == {"stepStart", "delta", "usage", "message", "call", "result", "stepEnd", "turnEnd"}
Permissions == {"preset", "sandbox", "policy"}
Boundaries == {"turnStart", "turnEnd", "descriptor"}

\* compat_projection_frame: what the event alone says.
Plain(e) ==
  CASE Is(e, {"title", "plan", "goal"}) -> {e.type}
    [] Is(e, {"todo", "turnStart"}) -> {"todos"}
    [] OTHER -> {}

\* compat_projection_frames: the keys framed for event n.  The values are computed from the
\* events up to n, however far the log has grown; a failed read leaves the plain frame.
Framed(n, readable) ==
  LET e == log[n]
      timed == Timing(Prefix(n)) # Timing(Prefix(n - 1))
  IN Plain(e) \cup
     IF ~Is(e, Metrics \cup Permissions \cup Boundaries) \/ ~readable THEN {}
     ELSE (IF timed THEN {"timing"} ELSE {})
          \cup (IF Is(e, Permissions) THEN {"permissions"} ELSE {})
          \cup (IF Is(e, Metrics) THEN {"stats"} ELSE {})
          \cup (IF Sampled(e) THEN {"usage", "pressure"} ELSE {})

NoClient == [at |-> -1, values |-> <<>>, missed |-> FALSE]
NoPager == [kind |-> "none", pages |-> <<>>, from |-> 0, asOf |-> 0, more |-> FALSE]

Init ==
  /\ log = <<>> /\ loop = [turn |-> 0, step |-> 0, at |-> "idle", pending |-> {}, sources |-> {}]
  /\ client = NoClient /\ calls = <<>> /\ shown = <<>> /\ pager = NoPager

Event(type, value) == [type |-> type, turn |-> loop.turn, step |-> loop.step, value |-> value,
                       time |-> Len(log) + 1, sources |-> {}]
Append1(e) == Len(log) < MaxEvents /\ log' = log \o <<e>>

\* The agent loop: what it may commit next.
TurnStart ==
  /\ Turns /\ loop.at = "idle"
  /\ loop' = [loop EXCEPT !.at = "turn", !.turn = @ + 1, !.step = 1]
  /\ Append1([Event("turnStart", Null) EXCEPT !.turn = @ + 1, !.step = 0])
  /\ UNCHANGED <<client, calls, shown, pager>>

StepStart ==
  /\ loop.at = "turn"
  /\ Append1(Event("stepStart", Null))
  /\ loop' = [loop EXCEPT !.at = IF loop.step = 1 THEN "input" ELSE "step", !.sources = {}]
  /\ UNCHANGED <<client, calls, shown, pager>>

UserMessage ==
  /\ loop.at = "input"
  /\ Append1(Event("user", Null)) /\ loop' = [loop EXCEPT !.at = "step"]
  /\ UNCHANGED <<client, calls, shown, pager>>

Chunk(type, value) ==
  /\ loop.at = "step"
  /\ Append1(Event(type, value))
  /\ loop' = [loop EXCEPT !.sources = @ \cup {Len(log) + 1}]
  /\ UNCHANGED <<client, calls, shown, pager>>

Message(value) ==
  /\ loop.at = "step"
  /\ Append1([Event("message", value) EXCEPT !.sources = loop.sources])
  /\ loop' = [loop EXCEPT !.at = "answered"]
  /\ UNCHANGED <<client, calls, shown, pager>>

Call(id) ==
  /\ loop.at = "answered" /\ id \notin loop.pending
  /\ Append1(Event("call", id)) /\ loop' = [loop EXCEPT !.pending = @ \cup {id}]
  /\ UNCHANGED <<client, calls, shown, pager>>

Result(id) ==
  /\ loop.at = "answered" /\ id \in loop.pending
  /\ Append1(Event("result", id)) /\ loop' = [loop EXCEPT !.pending = @ \ {id}]
  /\ UNCHANGED <<client, calls, shown, pager>>

\* A step that failed or was cancelled is closed too, its calls answered.
StepEnd ==
  /\ loop.at \in {"input", "step", "answered"} /\ loop.pending = {}
  /\ Append1(Event("stepEnd", Null)) /\ loop' = [loop EXCEPT !.at = "turn", !.step = @ + 1]
  /\ UNCHANGED <<client, calls, shown, pager>>

TurnEnd ==
  /\ loop.at = "turn"
  /\ Append1(Event("turnEnd", Null)) /\ loop' = [loop EXCEPT !.at = "idle"]
  /\ UNCHANGED <<client, calls, shown, pager>>

\* Any other event: a title, a plan mode, todos, a goal change, a permission knob, a context.
Fact(f) ==
  /\ Append1(Event(f.type, f.value))
  /\ UNCHANGED <<loop, client, calls, shown, pager>>

\* compat_session_history without beforeSeq: the derived values as of the last event read.
Open ==
  /\ Live /\ client.at = -1
  /\ client' = [client EXCEPT !.at = Len(log), !.values = Derived(log)]
  /\ UNCHANGED <<log, loop, calls, shown, pager>>

\* compat_live_tool_view: a call is cached, the smallest key making room; a result takes the
\* cached call, or the newest call of that id in the log as it is now.
Evicted == IF Cardinality(DOMAIN calls) >= MaxCalls
             THEN [i \in DOMAIN calls \ {Min(DOMAIN calls)} |-> calls[i]] ELSE calls
CallFor(id) ==
  IF id \in DOMAIN calls THEN calls[id]
  ELSE Max({0} \cup {n \in DOMAIN log : log[n].type = "call" /\ log[n].value = id})

LiveView(n) ==
  LET e == log[n] IN
  CASE e.type = "call" -> calls' = (e.value :> n) @@ Evicted /\ UNCHANGED shown
    [] e.type = "result" -> shown' = (n :> CallFor(e.value)) @@ shown /\ UNCHANGED calls
    [] OTHER -> UNCHANGED <<calls, shown>>

\* compat_notifications for the next event: its view and its frames.
Deliver(readable) ==
  LET n == client.at + 1 IN
  /\ client.at >= 0 /\ n <= Len(log)
  /\ LiveView(n)
  /\ \E keys \in {Framed(n, readable)}, now \in {Derived(Prefix(n))} :
       client' = [client EXCEPT !.at = n, !.values = [k \in Keys |-> IF k \in keys THEN now[k] ELSE @[k]],
                                !.missed = @ \/ ~readable]
  /\ UNCHANGED <<log, loop, pager>>

\* compat_paginate_history: back to the start of the turn that holds the last wanted message.
Cut(es) ==
  LET messages(n) == Cardinality({m \in n..Len(es) : Is(es[m], {"user", "message"})})
  IN Max({1} \cup {n \in DOMAIN es : es[n].type = "turnStart" /\ messages(n) >= MaxMessages})

\* Inner::history of subagent.rs: back to the wanted message or to the first of its sources.
ChildCut(es) ==
  LET ms == {n \in DOMAIN es : Is(es[n], {"user", "message"})}
      after(n) == Cardinality({m \in ms : m >= n})
      wanted == {n \in ms : after(n) = MaxMessages}
  IN IF wanted = {} THEN 1
     ELSE Min(wanted \cup UNION {es[n].sources : n \in wanted})

PageOf(kind, es) ==
  LET cut == IF kind = "session" THEN Cut(es) ELSE ChildCut(es)
  IN [first |-> cut, last |-> Len(es), more |-> cut > 1]

\* The tail page.  A child's projections come from a second read of its events.
FirstPage(kind) ==
  /\ pager.kind = "none" /\ log # <<>>
  /\ \E p \in {PageOf(kind, log)} :
       pager' = [kind |-> kind, pages |-> <<p>>, from |-> Len(log), more |-> p.more,
                 asOf |-> IF kind = "session" THEN Len(log) ELSE 0]
  /\ UNCHANGED <<log, loop, client, calls, shown>>

ChildProjections ==
  /\ pager.kind = "child" /\ pager.asOf = 0
  /\ pager' = [pager EXCEPT !.asOf = Len(log)]
  /\ UNCHANGED <<log, loop, client, calls, shown>>

\* A page before the first event of the last page.
NextPage ==
  LET seen == pager.pages[Len(pager.pages)] IN
  /\ pager.kind # "none" /\ pager.more
  /\ \E p \in {PageOf(pager.kind, Prefix(seen.first - 1))} :
       pager' = [pager EXCEPT !.pages = @ \o <<p>>, !.more = p.more]
  /\ UNCHANGED <<log, loop, client, calls, shown>>

Next ==
  \/ TurnStart \/ UserMessage \/ StepStart \/ StepEnd \/ TurnEnd \/ Chunk("delta", Null)
  \/ \E u \in Usages : Chunk("usage", u)
  \/ \E u \in Usages \cup {None} : Message(u)
  \/ \E id \in CallIds : Call(id) \/ Result(id)
  \/ \E f \in Facts : Fact(f)
  \/ Open \/ \E b \in IF ReadFaults THEN BOOLEAN ELSE {TRUE} : Deliver(b)
  \/ \E kind \in Pages : FirstPage(kind)
  \/ ChildProjections \/ NextPage

Spec == Init /\ [][Next]_vars

(***************************************************************************)
(* Properties.                                                             *)
(***************************************************************************)
\* compat_projection_frames: a client that read the history and then applied every frame holds
\* the values a fresh history would give it at that event, save the last moment seen of an open
\* turn, and save a context window newer than the last token sample, for which no frame is sent.
ProjectionsFollowLog ==
  (client.at >= 0 /\ ~client.missed) =>
    \E now \in {Derived(Prefix(client.at))} :
      /\ \A k \in Keys \ {"timing", "pressure"} : client.values[k] = now[k]
      /\ client.values["timing"].settled = now["timing"].settled
      /\ client.values["timing"].since = now["timing"].since
      /\ client.values["pressure"][2] = now["pressure"][2]
      /\ LET es == Prefix(client.at) IN
         LastOf(es, {"context"}) < Max({0} \cup {n \in DOMAIN es : Sampled(es[n])})
           => client.values["pressure"] = now["pressure"]

\* compat_token_usage and compat_session_stats: every step's tokens are counted once, with its
\* last report; a turn is counted once however many steps it has; a tool's time runs from its
\* call to its result.
StatsCountOnce ==
  LET samples == {n \in DOMAIN log : Sampled(log[n])}
      place(n) == <<log[n].turn, log[n].step>>
      final == {n \in samples : \A m \in samples : place(m) = place(n) => m <= n}
      ended == {n \in DOMAIN log : log[n].type = "stepEnd"}
      answers == {n \in DOMAIN log : log[n].type = "result"}
      callOf(n) == Max({m \in 1..n : log[m].type = "call" /\ log[m].value = log[n].value})
      stats == Stats(log)
  IN /\ TokenUsage(log) = MapThenSumSet(LAMBDA n : log[n].value, final)
     /\ stats[1] = Cardinality({log[n].turn : n \in ended}) /\ stats[2] = Cardinality(ended)
     /\ stats[4] = MapThenSumSet(LAMBDA n : n - callOf(n), answers)

\* compat_history_tool_view and compat_live_tool_view: a tool result told live is shown with the
\* call that it answers, and the history shows it with the same, unless the model reused an id.
Reused ==
  LET made == {n \in DOMAIN log : log[n].type = "call"}
  IN Cardinality({log[n].value : n \in made}) < Cardinality(made)
ResultsShowTheirCall ==
  ~Reused => \A n \in DOMAIN shown :
    /\ shown[n] # 0 /\ log[shown[n]].type = "call" /\ log[shown[n]].value = log[n].value
    /\ shown[n] < n

\* data.tool_calls stays within its ceiling.
CallsBounded == Cardinality(DOMAIN calls) <= MaxCalls

\* compat_paginate_history and Inner::history: pages read backwards are adjacent, none is empty,
\* each holds the wanted messages while more remain, the last one reaches the first event, and a
\* message is never parted from the chunks it was made of by a child's page.
PagesCoverLog ==
  LET ps == pager.pages IN
  pager.kind # "none" =>
    /\ ps[1].last = pager.from /\ (pager.asOf # 0 => pager.asOf >= pager.from)
    /\ \A i \in DOMAIN ps :
         /\ ps[i].first <= ps[i].last
         /\ i > 1 => ps[i].last = ps[i - 1].first - 1
         /\ ps[i].more => Cardinality({n \in ps[i].first..ps[i].last : Is(log[n], {"user", "message"})}) >= MaxMessages
         /\ pager.kind = "session" /\ ps[i].more => log[ps[i].first].type = "turnStart"
         /\ pager.kind = "child" => \A n \in ps[i].first..ps[i].last : log[n].sources \subseteq ps[i].first..ps[i].last
    /\ ~pager.more => ps[Len(ps)].first = 1
=============================================================================
