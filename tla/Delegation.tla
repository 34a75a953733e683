----------------------------- MODULE Delegation -----------------------------
(***************************************************************************)
(* The tools by which an agent works through child agents (subagent.rs):   *)
(* subagent, fork and Ralph rounds, in the foreground or as a job; the     *)
(* parent capabilities they attach and the watcher of each; interruption   *)
(* of a descendant; and list_agents, which walks a tree of sessions that   *)
(* changes while it walks.  A child may delegate in turn.  Subagent has    *)
(* the inside of one start and disposals that fail; here they go through.  *)
(***************************************************************************)
EXTENDS Integers, FiniteSets, SequencesExt

CONSTANTS
  Calls,      \* tool calls
  Children,   \* ids of child sessions, in the order the code sorts them
  Before,     \* parent of each child an earlier run of the host left behind
  Kinds,      \* DelegationKinds used: "subagent", "fork", "ralph"
  Reports,    \* what a Ralph round may answer
  MaxRounds,  \* MAX_RALPH_ROUNDS
  MaxDepth,   \* MAX_DELEGATION_DEPTH
  Jobs,       \* whether calls may run in the background
  Breaks,     \* what may go wrong: "fail", "kill", "interrupt", "stop"
  Walking     \* whether list_agents is called

VARIABLES
  header,   \* parent_session of each durable child header
  noted,    \* mode in the contained-start event of each child
  agent,    \* live agents; "cancelled" until they are disposed
  cap,      \* the SubagentParent a call attached
  shared,   \* continuable_parents: the call whose capability a session reuses
  of,       \* the capability that admitted a child
  call,     \* each tool call, with the job it may have become
  killed,   \* calls whose token was fired for themselves
  walk      \* list_descendants for the root

vars == <<header, noted, agent, cap, shared, of, call, killed, walk>>

Root == 0
Sessions == Children \cup {Root}
None == "none"
NoSession == -1
NoCall == [at |-> "idle", kind |-> None, by |-> Root, background |-> FALSE, cap |-> None,
           child |-> NoSession, rounds |-> 0, round |-> 0, handoff |-> None, told |-> None,
           result |-> None]
NoWalk == [at |-> "idle", work |-> <<>>, corpus |-> <<>>, seen |-> {}, out |-> <<>>, must |-> {}]

Init ==
  /\ header = [c \in Children |-> IF c \in DOMAIN Before THEN Before[c] ELSE NoSession]
  /\ noted = [c \in Children |-> IF c \in DOMAIN Before THEN "continuable" ELSE None]
  /\ agent = [s \in Sessions |-> IF s = Root THEN "running" ELSE None]
  /\ cap = [k \in Calls |-> None] /\ shared = [s \in Sessions |-> None]
  /\ of = [c \in Children |-> None] /\ call = [k \in Calls |-> NoCall]
  /\ killed = {} /\ walk = NoWalk

Live(s) == agent[s] # None
Healthy(s) == agent[s] \in {"running", "idle"}
At(k, where) == call[k].at = where
Goto(k, where) == call' = [call EXCEPT ![k].at = where]

\* The token of a call comes from the agent that made it, the one of a job
\* from the job's owner.
Fails == "fail" \in Breaks
Fired(k) == k \in killed \/ (call[k].told # "job" /\ ~Healthy(call[k].by))

-----------------------------------------------------------------------------
(* Lineage *)

\* descendants: the closure of parent_session over the corpus `h`.
RECURSIVE Closure(_, _)
Closure(h, known) ==
  LET next == {c \in DOMAIN h : h[c] \in known /\ c \notin known}
  IN IF next = {} THEN known ELSE Closure(h, known \cup next)
Descendants(h, s) == Closure(h, {s}) \ {s}

\* is_descendant: up the headers, from the child to the ancestor.
RECURSIVE IsDescendant(_, _, _)
IsDescendant(ancestor, s, seen) ==
  /\ s # Root /\ header[s] # NoSession
  /\ \/ header[s] = ancestor
     \/ header[s] \notin seen /\ IsDescendant(ancestor, header[s], seen \cup {header[s]})

\* tree_admission: the generations between a session and the root of its
\* tree; a header that is gone refuses the start.
RECURSIVE Depth(_)
Depth(s) == IF s = Root THEN 0
            ELSE IF header[s] = NoSession THEN MaxDepth
            ELSE 1 + Depth(header[s])

-----------------------------------------------------------------------------
(* Capabilities *)

IsOpen(p, s) == cap[p] = "open" /\ Healthy(s)

\* continuable_parent: the capability of the session while it is open.
Reusable(s) == shared[s] # None /\ IsOpen(shared[s], s)

\* attach, for a call of its own or as the session's continuable parent.
Attach(k, s, keep) ==
  /\ cap' = [cap EXCEPT ![k] = "open"]
  /\ shared' = IF keep THEN [shared EXCEPT ![s] = k] ELSE shared

\* begin_cleanup, unless the cleanup runs or is complete.
Shuts(p) == cap' = [cap EXCEPT ![p] = IF @ = "open" THEN "closing" ELSE @]

\* The watcher of a capability sees its agent cancelled, or dispose closes it.
Watch(p) ==
  /\ cap[p] = "open" /\ ~Healthy(call[p].by)
  /\ cap' = [cap EXCEPT ![p] = "closing"]
  /\ UNCHANGED <<header, noted, agent, shared, of, call, killed, walk>>

\* No call the session's agent is running: its driver has come to rest.
Rested(s) == \A k \in Calls : call[k].by = s /\ ~At(k, "idle") => call[k].told # None

Admitting(p) == \E k \in Calls : call[k].cap = p /\ call[k].at \in {"setup", "accept"}
Held(p) == {c \in Children : of[c] = p /\ Live(c)}

\* cleanup_parent_children: every child is cancelled, then disposed, and the
\* starts under way are waited for.
CleanUp(p) ==
  /\ cap[p] = "closing"
  /\ \/ \E c \in Held(p) :
          \/ Healthy(c) /\ agent' = [agent EXCEPT ![c] = "cancelled"]
          \/ agent[c] = "cancelled" /\ Rested(c) /\ agent' = [agent EXCEPT ![c] = None]
        /\ cap' = cap
     \/ Held(p) = {} /\ ~Admitting(p) /\ cap' = [cap EXCEPT ![p] = "closed"] /\ agent' = agent
  /\ UNCHANGED <<header, noted, shared, of, call, killed, walk>>

-----------------------------------------------------------------------------
(* The delegation tools *)

OneShot(k) == call[k].kind # "subagent"

\* The tool answers, unless it answered with the id of a job before.
Answer(c, answer) == [c EXCEPT !.told = IF @ = None THEN answer ELSE @]

\* What a call does when its work fails: a one-shot delegation and a Ralph run
\* dispose of their capability first.
Fail(k) ==
  call' = [call EXCEPT ![k] = IF OneShot(k) THEN [@ EXCEPT !.at = "close", !.result = "error"]
                              ELSE [Answer(@, "error") EXCEPT !.at = "done", !.result = "error"]]

\* DelegationTool::run up to its first await.  `owner` says whether the
\* session has a live job owner; the job of a fork starts before its child.
Delegate(k, s, kind, background, owner, rounds) ==
  LET own == kind # "subagent" \/ ~Reusable(s)
      new == [NoCall EXCEPT !.at = "start", !.kind = kind, !.by = s, !.background = background,
                !.cap = IF own THEN k ELSE shared[s], !.rounds = rounds, !.round = 1]
  IN
  /\ At(k, "idle") /\ agent[s] = "running"
  /\ kind = "ralph" => ~background
  /\ background => Jobs
  /\ owner \/ (background /\ Fails)
  /\ rounds > 1 => kind = "ralph"
  /\ IF own THEN Attach(k, s, kind = "subagent") ELSE UNCHANGED <<cap, shared>>
  /\ call' = [call EXCEPT ![k] =
       CASE background /\ ~owner /\ kind = "fork" -> [new EXCEPT !.at = "close", !.result = "error"]
         [] background /\ ~owner /\ kind = "subagent" ->
              [new EXCEPT !.at = "done", !.result = "error", !.told = "error"]
         [] background /\ owner /\ kind = "fork" -> [new EXCEPT !.told = "job"]
         [] OTHER -> new]
  /\ UNCHANGED <<header, noted, agent, of, killed, walk>>

\* start_inner: a capability that is closing, or whose agent was cancelled,
\* refuses and is cleaned up.
Reserve(k) ==
  LET p == call[k].cap IN
  /\ At(k, "start")
  /\ IF IsOpen(p, call[k].by) THEN Goto(k, "setup") /\ cap' = cap
     ELSE Fail(k) /\ Shuts(p)
  /\ UNCHANGED <<header, noted, agent, shared, of, killed, walk>>

\* start, up to the delivery of the first message; a limit or a provider may refuse.
SetUp(k) ==
  /\ At(k, "setup")
  /\ \/ /\ Fails \/ Fired(k) \/ Depth(call[k].by) >= MaxDepth
        /\ Fail(k) /\ UNCHANGED <<header, agent>>
     \/ /\ ~Fired(k) /\ Depth(call[k].by) < MaxDepth
        /\ \E c \in Children :
             /\ header[c] = NoSession /\ noted[c] = None
             /\ \A d \in Children : header[d] = NoSession /\ noted[d] = None => c <= d
             /\ header' = [header EXCEPT ![c] = call[k].by]
             /\ agent' = [agent EXCEPT ![c] = "running"]
             /\ call' = [call EXCEPT ![k].at = "accept", ![k].child = c]
  /\ UNCHANGED <<noted, cap, shared, of, killed, walk>>

Mode(k) == IF OneShot(k) THEN "one-shot" ELSE "continuable"

\* contained-start, unless the call was cancelled, the parent is gone or the
\* append is refused; admit_or_queue leaves a late child to the cleanup.
Accept(k) ==
  LET c == call[k].child
      p == call[k].cap IN
  /\ At(k, "accept")
  /\ \/ /\ Fails \/ Fired(k) \/ ~Live(call[k].by)
        /\ agent' = [agent EXCEPT ![c] = "cancelled"] /\ Goto(k, "undo")
        /\ UNCHANGED <<noted, of, cap>>
     \/ /\ ~Fired(k) /\ Live(call[k].by) /\ agent' = agent
        /\ noted' = [noted EXCEPT ![c] = Mode(k)] /\ of' = [of EXCEPT ![c] = p]
        /\ IF IsOpen(p, call[k].by)
           THEN Goto(k, IF call[k].background /\ ~OneShot(k) THEN "job" ELSE "run") /\ cap' = cap
           ELSE Fail(k) /\ Shuts(p)
  /\ UNCHANGED <<header, shared, killed, walk>>

\* PendingAgentCleanup::dispose
Undo(k) ==
  LET c == call[k].child IN
  /\ At(k, "undo") /\ Rested(c) /\ Fail(k)
  /\ agent' = [agent EXCEPT ![c] = None]
  /\ UNCHANGED <<header, noted, cap, shared, of, killed, walk>>

\* The job of a background subagent; when it cannot start the child is disposed.
StartJob(k) ==
  /\ At(k, "job")
  /\ \/ call' = [call EXCEPT ![k] = [Answer(@, "job") EXCEPT !.at = "run"]]
     \/ Fails /\ Goto(k, "dispose")
  /\ UNCHANGED <<header, noted, agent, cap, shared, of, killed, walk>>

-----------------------------------------------------------------------------
(* Ralph rounds *)

\* ralph_report: which reports are taken.
RalphReport(r) ==
  /\ r.normal /\ r.blocker # "blank"
  /\ r.status = "continue" => r.next /\ r.blocker = "empty"
  /\ r.status = "complete" => r.evidence /\ ~r.next /\ r.blocker = "empty"
  /\ r.status = "blocked" => r.blocker = "text"

\* run_ralph behind a round that completed with report `r`.
RalphRound(k, r) ==
  LET c == call[k] IN
  call' = [call EXCEPT ![k] =
    CASE ~RalphReport(r) -> [c EXCEPT !.at = "close", !.result = "error"]
      [] r.status # "continue" -> [c EXCEPT !.at = "close", !.result = r.status, !.handoff = r]
      [] c.round = c.rounds -> [c EXCEPT !.at = "close", !.result = "budget-limited", !.handoff = r]
      [] OTHER -> [c EXCEPT !.at = "start", !.round = @ + 1, !.handoff = r]]

-----------------------------------------------------------------------------
(* The end of a child's work *)

\* activation.run of a one-shot child returns and has disposed of it.
RunReturns(k) ==
  LET c == call[k].child IN
  /\ At(k, "run") /\ OneShot(k) /\ ~Fired(k) /\ agent[c] # "running" /\ Rested(c)
  /\ agent' = [agent EXCEPT ![c] = None]
  /\ \/ (Fails \/ agent[c] # "idle") /\ Fail(k)
     \/ /\ agent[c] = "idle" /\ call[k].kind = "fork"
        /\ call' = [call EXCEPT ![k].at = "close", ![k].result = "complete"]
     \/ agent[c] = "idle" /\ call[k].kind = "ralph" /\ \E r \in Reports : RalphRound(k, r)
  /\ UNCHANGED <<header, noted, cap, shared, of, killed, walk>>

\* wait_continuable_activation: a completed turn leaves the child, idle.
WaitReturns(k) ==
  LET c == call[k].child IN
  /\ At(k, "run") /\ ~OneShot(k) /\ ~Fired(k) /\ agent[c] # "running"
  /\ \/ /\ agent[c] = "idle"
        /\ call' = [call EXCEPT ![k] =
                      [Answer(@, "ok") EXCEPT !.at = "done", !.result = "complete"]]
     \/ (Fails \/ agent[c] # "idle") /\ Goto(k, "dispose")
  /\ UNCHANGED <<header, noted, agent, cap, shared, of, killed, walk>>

\* The biased select: a fired token disposes of the child.
Stop(k) ==
  /\ At(k, "run") /\ Fired(k) /\ Goto(k, "dispose")
  /\ UNCHANGED <<header, noted, agent, cap, shared, of, killed, walk>>

\* SubagentActivation::dispose: cancel, wait for the driver, dispose.
Dispose(k) ==
  LET c == call[k].child IN
  /\ At(k, "dispose")
  /\ \/ Healthy(c) /\ agent' = [agent EXCEPT ![c] = "cancelled"] /\ call' = call
     \/ ~Healthy(c) /\ Rested(c) /\ agent' = [agent EXCEPT ![c] = None] /\ Fail(k)
  /\ UNCHANGED <<header, noted, cap, shared, of, killed, walk>>

\* SubagentParent::dispose joins the cleanup; then the tool answers.
Close(k) ==
  /\ At(k, "close")
  /\ \/ /\ cap[k] = "open" /\ cap' = [cap EXCEPT ![k] = "closing"] /\ call' = call
     \/ /\ cap[k] = "closed" /\ cap' = cap
        /\ call' = [call EXCEPT ![k] =
                      [Answer(@, IF @.result = "error" THEN "error" ELSE "ok") EXCEPT !.at = "done"]]
  /\ UNCHANGED <<header, noted, agent, shared, of, killed, walk>>

-----------------------------------------------------------------------------
(* What else happens to agents and calls *)

\* A job is killed by its user or with its owner, a call by its caller.
Kill(k) ==
  /\ "kill" \in Breaks /\ call[k].at \notin {"idle", "done"} /\ k \notin killed
  /\ killed' = killed \cup {k}
  /\ UNCHANGED <<header, noted, agent, cap, shared, of, call, walk>>

TurnEnds(s) ==
  /\ agent[s] = "running" /\ Rested(s)
  /\ agent' = [agent EXCEPT ![s] = "idle"]
  /\ UNCHANGED <<header, noted, cap, shared, of, call, killed, walk>>

\* The root's agent is stopped and disposed, as the registry does it.
StopRoot ==
  /\ "stop" \in Breaks
  /\ \/ Healthy(Root) /\ agent' = [agent EXCEPT ![Root] = "cancelled"]
     \/ agent[Root] = "cancelled" /\ Rested(Root) /\ agent' = [agent EXCEPT ![Root] = None]
  /\ UNCHANGED <<header, noted, cap, shared, of, call, killed, walk>>

\* interrupt: an accepted one-shot child is left alone.
Interrupt(s, c) ==
  /\ "interrupt" \in Breaks /\ Live(s) /\ Healthy(c) /\ IsDescendant(s, c, {c})
  /\ noted[c] # "one-shot"
  /\ agent' = [agent EXCEPT ![c] = "cancelled"]
  /\ UNCHANGED <<header, noted, cap, shared, of, call, killed, walk>>

\* delete: an accepted child without an agent, its descendants untouched.  Bound:
\* while a walk is on its way.
Delete(c) ==
  /\ walk.at \in {"pop", "events"} /\ header[c] # NoSession /\ noted[c] # None /\ ~Live(c)
  /\ header' = [header EXCEPT ![c] = NoSession]
  /\ walk' = [walk EXCEPT !.must = @ \ ({c} \cup Descendants(header, c))]
  /\ UNCHANGED <<noted, agent, cap, shared, of, call, killed>>

-----------------------------------------------------------------------------
(* list_agents with scope descendants *)

NoEntry == [id |-> NoSession, mode |-> None, rank |-> 0]
WorkChildren(s, depth) == [of |-> s, depth |-> depth, entry |-> NoEntry]
WorkEntry(e, s, depth) == [of |-> s, depth |-> depth, entry |-> e]

WalkBegin ==
  /\ Walking /\ walk.at = "idle" /\ Live(Root)
  /\ walk' = [NoWalk EXCEPT !.at = "pop", !.work = <<WorkChildren(Root, 1)>>, !.seen = {Root},
                            !.must = Descendants(header, Root)]
  /\ UNCHANGED <<header, noted, agent, cap, shared, of, call, killed>>

\* One turn of the loop of list_descendants; `list` awaits the stored headers.
WalkPop ==
  LET w == Last(walk.work)
      rest == Front(walk.work) IN
  /\ walk.at = "pop"
  /\ walk' =
       CASE walk.work = <<>> -> [walk EXCEPT !.at = "done"]
         [] ~Healthy(Root) -> [walk EXCEPT !.at = "cancelled"]
         [] w.entry = NoEntry -> [walk EXCEPT !.at = "events", !.corpus = header]
         [] w.entry # NoEntry /\ w.entry.id \in walk.seen -> [walk EXCEPT !.work = rest]
         [] OTHER -> [walk EXCEPT !.work = Append(rest, WorkChildren(w.entry.id, w.depth + 1)),
                                  !.seen = @ \cup {w.entry.id}, !.out = Append(@, w)]
  /\ UNCHANGED <<header, noted, agent, cap, shared, of, call, killed>>

\* list: the headers of resident sessions over the stored ones, and the
\* descriptors of the parent's log; a child without one is a diagnostic.
Entries(s) ==
  LET corpus == [c \in Children |-> IF Live(c) THEN header[c] ELSE walk.corpus[c]]
      rank(c) == CASE noted[c] = None -> 3 [] ~Live(c) -> 2 [] agent[c] = "idle" -> 1 [] OTHER -> 0
      first(e, f) == e.rank < f.rank \/ (e.rank = f.rank /\ e.id <= f.id)
  IN SetToSortSeq({[id |-> c, mode |-> noted[c], rank |-> rank(c)] :
                      c \in {d \in Children : corpus[d] = s}}, first)

WalkEvents ==
  LET w == Last(walk.work)
      entries == Reverse(Entries(w.of)) IN
  /\ walk.at = "events"
  /\ walk' = IF ~Healthy(Root) THEN [walk EXCEPT !.at = "cancelled"]
             ELSE [walk EXCEPT !.at = "pop", !.corpus = <<>>,
                     !.work = Front(@) \o
                       [i \in DOMAIN entries |-> WorkEntry(entries[i], w.of, w.depth)]]
  /\ UNCHANGED <<header, noted, agent, cap, shared, of, call, killed>>

\* project: the tool shows continuable children and diagnostics.
Shown(out) == SelectSeq(out, LAMBDA w : w.entry.mode \in {"continuable", None})

CallNext(k) ==
  \/ \E s \in Sessions, kind \in Kinds, background, owner \in BOOLEAN, rounds \in 1..MaxRounds :
       Delegate(k, s, kind, background, owner, rounds)
  \/ Reserve(k) \/ SetUp(k) \/ Accept(k) \/ Undo(k) \/ StartJob(k)
  \/ RunReturns(k) \/ WaitReturns(k) \/ Stop(k) \/ Dispose(k) \/ Close(k) \/ Kill(k)
  \/ Watch(k) \/ CleanUp(k)

Next ==
  \/ \E k \in Calls : CallNext(k)
  \/ \E s \in Sessions : TurnEnds(s) \/ \E c \in Children : Interrupt(s, c)
  \/ \E c \in Children : Delete(c)
  \/ StopRoot \/ WalkBegin \/ WalkPop \/ WalkEvents

Spec == Init /\ [][Next]_vars

-----------------------------------------------------------------------------
\* A delegation leaves behind what it promised and no more: when a fork or a
\* Ralph run has answered or its job has ended, its capability is cleaned up;
\* a failed subagent call leaves no agent; and a capability that is cleaned up
\* has no live child and admits none, the starts that were under way included
\* (run_one_shot_delegation, run_ralph, wait_continuable_activation).
DelegationsCleanUp ==
  \A k \in Calls :
    /\ At(k, "done") /\ OneShot(k) => cap[k] = "closed"
    /\ At(k, "done") /\ call[k].result = "error" /\ call[k].child # NoSession /\ Live(call[k].child) =>
         of[call[k].child] # None /\ cap[of[call[k].child]] = "closing"
    /\ cap[k] = "closed" => Held(k) = {} /\ ~Admitting(k)

\* Ralph keeps its budget: no more rounds than asked for and one child at a
\* time; a next round starts from a continuing report, and the outcome is the
\* last report's, "budget-limited" only when every round was used (run_ralph).
\* No session is deeper in its tree than MAX_DELEGATION_DEPTH.
DelegationsBounded ==
  /\ \A k \in Calls : call[k].kind = "ralph" =>
       /\ call[k].round <= call[k].rounds
       /\ Cardinality(Held(k)) <= 1
       /\ Cardinality({c \in Children : of[c] = k}) <= call[k].round
       /\ call[k].round > 1 => RalphReport(call[k].handoff)
       /\ call[k].result = "budget-limited" =>
            call[k].round = call[k].rounds /\ call[k].handoff.status = "continue"
       /\ call[k].result = "complete" => call[k].handoff.evidence /\ ~call[k].handoff.next
  /\ \A c \in Children : IsDescendant(Root, c, {c}) => Depth(c) <= MaxDepth

\* A walk that ends lists each session once, behind the entry of its parent
\* and one level deeper, and misses none that was there from its beginning to
\* its end; what the tool shows has no one-shot child (list_descendants).
WalkIsExact ==
  walk.at = "done" =>
    /\ \A i, j \in DOMAIN walk.out : walk.out[i].entry.id = walk.out[j].entry.id => i = j
    /\ \A i \in DOMAIN walk.out :
         \/ walk.out[i].of = Root /\ walk.out[i].depth = 1
         \/ \E j \in 1..(i - 1) : /\ walk.out[j].entry.id = walk.out[i].of
                                  /\ walk.out[j].depth + 1 = walk.out[i].depth
    /\ walk.must \subseteq {walk.out[i].entry.id : i \in DOMAIN walk.out}
    /\ \A i \in DOMAIN Shown(walk.out) : noted[Shown(walk.out)[i].entry.id] = "one-shot" =>
         Shown(walk.out)[i].entry.mode = None
=============================================================================
