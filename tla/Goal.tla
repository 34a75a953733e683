-------------------------------- MODULE Goal --------------------------------
(***************************************************************************)
(* The goal ledger of one session (src/src/goal.rs): revisioned changes    *)
(* and goal rounds folded from the session's log, the warm view a          *)
(* GoalService keeps of them, its activation, and drive, which queues the  *)
(* next round over several awaits.  The agent is reduced to its inbox, its *)
(* turn and whether its driver is idle.                                    *)
(*                                                                         *)
(* A change holds the service's state lock and repeats its checks when     *)
(* another event got in front of it, so it is one step.  Titles, reasons   *)
(* and timestamps are left out.                                            *)
(***************************************************************************)
EXTENDS Integers, Sequences, FiniteSets, SequencesExt

CONSTANTS
  Goals,       \* goal ids, in the order they are created: 1 .. n
  Caps,        \* values of maxGoalRounds
  Drivers,     \* concurrent calls of drive
  MaxChanges,  \* bound: goal/change events
  MaxPrompts,  \* bound: user prompts
  MaxRestarts  \* bound: agent generations after the first

VARIABLES
  log,       \* goal/change events and the user messages of rounds
  view,      \* GoalState of the live service
  at,        \* where a call of drive is
  held,      \* the goal reference and round it carries
  durable,   \* messages enqueued on the log and not claimed
  inbox,     \* messages of the live agent's next-turn queue
  busy,      \* AgentStatus is not Idle
  turn,      \* a turn is running
  stopped,   \* the agent is cancelled; only its next generation takes messages
  prompts, restarts,
  resumed    \* history: rounds a restart found in the durable queue

vars == <<log, view, at, held, durable, inbox, busy, turn, stopped, prompts, restarts, resumed>>
agentVars == <<durable, inbox, busy, turn, stopped, prompts>>

NoGoal == [rev |-> 0, phase |-> "none", cap |-> 0, tombstone |-> FALSE]
NoRound == [id |-> 0, rev |-> 0, round |-> 0]
NoActivation == [id |-> 0, rev |-> 0, queued |-> 0]
User == NoRound

\* GoalState::default; `bad' marks a fold that returned an error.
Empty == [goals |-> [g \in Goals |-> NoGoal], rounds |-> [g \in Goals |-> 0],
          current |-> 0, act |-> NoActivation, observed |-> 0, bad |-> FALSE]

-----------------------------------------------------------------------------
(* Folding the log *)

\* validate_goal_operation with apply_snapshot.
ValidOperation(goal, op, next) ==
  IF op = "create" THEN goal = NoGoal /\ next.rev = 1 /\ next.phase = "active"
  ELSE /\ goal # NoGoal /\ ~goal.tombstone /\ next.rev = goal.rev + 1
       /\ op = "edit" \/ next.cap = goal.cap
       /\ CASE op \in {"edit", "clear"} -> next.phase = goal.phase
            [] op = "pause" -> goal.phase = "active" /\ next.phase = "paused"
            [] op = "block" -> goal.phase = "active" /\ next.phase = "blocked"
            [] op = "resume" -> goal.phase # "complete" /\ next.phase = "active"
            [] op = "complete" -> goal.phase # "complete" /\ next.phase = "complete"
       /\ next.tombstone = (op = "clear")

\* What a change does to the activation of a view that reads it from the log.
FoldActivation(act, e) ==
  IF e.op = "clear" \/ e.next.phase # "active" THEN NoActivation
  ELSE IF e.op = "edit" /\ act.id = e.id THEN [act EXCEPT !.rev = e.next.rev]
  ELSE act

\* apply_goal_event for goal/change.
ApplyChange(v, e) ==
  IF ~ValidOperation(v.goals[e.id], e.op, e.next) \/ e.rounds # v.rounds[e.id]
  THEN [v EXCEPT !.bad = TRUE]
  ELSE [v EXCEPT !.goals[e.id] = e.next, !.act = FoldActivation(@, e),
                 !.current = IF e.op = "clear" THEN 0 ELSE e.id,
                 !.rounds[e.id] = IF e.op = "clear" THEN 0 ELSE @]

\* apply_goal_round: the posted user message of a round.
ApplyRound(v, e) ==
  LET goal == v.goals[e.id] IN
  IF \/ goal.phase # "active" \/ goal.tombstone \/ goal.rev # e.rev
     \/ e.round # v.rounds[e.id] + 1 \/ e.round > goal.cap
  THEN [v EXCEPT !.bad = TRUE]
  ELSE [v EXCEPT !.rounds[e.id] = e.round,
                 !.act = [id |-> e.id, rev |-> goal.rev, queued |-> 0]]

Apply(v, e) ==
  IF v.bad THEN v
  ELSE [(IF e.type = "change" THEN ApplyChange(v, e) ELSE ApplyRound(v, e))
          EXCEPT !.observed = @ + 1]

\* sync_locked works on a clone: a view whose fold is bad is not stored.
Synced == FoldLeft(Apply, view, SubSeq(log, view.observed + 1, Len(log)))

\* GoalService::new: the cold fold, armed when the current goal is active.
Cold(events) ==
  LET v == FoldLeft(Apply, Empty, events)
  IN  IF v.bad \/ v.current = 0 \/ v.goals[v.current].phase # "active" THEN v
      ELSE [v EXCEPT !.act = [id |-> v.current, rev |-> v.goals[v.current].rev, queued |-> 0]]

Init ==
  /\ log = <<>> /\ view = Empty
  /\ at = [d \in Drivers |-> "off"] /\ held = [d \in Drivers |-> NoRound]
  /\ durable = <<>> /\ inbox = <<>> /\ busy = FALSE /\ turn = FALSE
  /\ stopped = FALSE /\ prompts = 0 /\ restarts = 0 /\ resumed = {}

-----------------------------------------------------------------------------
(* Changes *)

Changes == Cardinality({i \in DOMAIN log : log[i].type = "change"})

\* Mutant: the event the service wrote itself is not counted as observed.
WriteUnobserved(v, id, op, next, act) ==
  /\ Changes < MaxChanges /\ ValidOperation(v.goals[id], op, next)
  /\ log' = Append(log, [type |-> "change", id |-> id, op |-> op, next |-> next,
                         rounds |-> v.rounds[id]])
  /\ view' = [v EXCEPT !.goals[id] = next, !.act = act,
                       !.current = IF op = "clear" THEN 0 ELSE id,
                       !.rounds[id] = IF op = "clear" THEN 0 ELSE @]

\* write_locked_with_reason on the synced view v; the caller of it then arms,
\* moves or drops the activation.
Write(v, id, op, next, act) ==
  /\ Changes < MaxChanges /\ ValidOperation(v.goals[id], op, next)
  /\ log' = Append(log, [type |-> "change", id |-> id, op |-> op, next |-> next,
                         rounds |-> v.rounds[id]])
  /\ view' = [v EXCEPT !.goals[id] = next, !.act = act, !.observed = @ + 1,
                       !.current = IF op = "clear" THEN 0 ELSE id,
                       !.rounds[id] = IF op = "clear" THEN 0 ELSE @]

Armed(id, next) == [id |-> id, rev |-> next.rev, queued |-> 0]

\* What the callers of a change leave alone.
ByCaller == UNCHANGED <<at, held, agentVars, restarts, resumed>>

\* create: a cancellation seen after the write leaves the goal disarmed.
Create(id, cap) ==
  LET v == Synced  next == [rev |-> 1, phase |-> "active", cap |-> cap, tombstone |-> FALSE] IN
  /\ ~view.bad /\ ~v.bad
  /\ \A g \in Goals : v.goals[g] = NoGoal => g >= id
  /\ \A g \in Goals :
       v.goals[g] # NoGoal => v.goals[g].tombstone \/ v.goals[g].phase = "complete"
  /\ \E act \in {Armed(id, next), v.act} : Write(v, id, "create", next, act)
  /\ ByCaller

\* edit keeps the phase; the activation of this reference follows.
Edit(id, cap) ==
  LET v == Synced  next == [v.goals[id] EXCEPT !.rev = @ + 1, !.cap = cap] IN
  /\ ~view.bad /\ ~v.bad
  /\ Write(v, id, "edit", next,
           IF v.act.id = id /\ v.act.rev = v.goals[id].rev
           THEN [v.act EXCEPT !.rev = next.rev] ELSE v.act)
  /\ ByCaller

\* transition (pause, complete) and block: the activation is dropped.
Transition(id, op, phase) ==
  LET v == Synced  next == [v.goals[id] EXCEPT !.rev = @ + 1, !.phase = phase] IN
  /\ ~view.bad /\ ~v.bad
  /\ Write(v, id, op, next, NoActivation)
  /\ ByCaller

Resume(id) ==
  LET v == Synced  next == [v.goals[id] EXCEPT !.rev = @ + 1, !.phase = "active"] IN
  /\ ~view.bad /\ ~v.bad
  /\ v.goals[id].phase = "active" => v.act = NoActivation
  /\ v.rounds[id] < v.goals[id].cap
  /\ Write(v, id, "resume", next, Armed(id, next))
  /\ ByCaller

Clear(id) ==
  LET v == Synced  next == [v.goals[id] EXCEPT !.rev = @ + 1, !.tombstone = TRUE] IN
  /\ ~view.bad /\ ~v.bad
  /\ Write(v, id, "clear", next, NoActivation)
  /\ ByCaller

\* ModelGoalUpdate: the optional fields an action of update_goal may come with;
\* blank text and a limit of zero count as absent.
UpdateFits(action) ==
  CASE action = "edit" -> SUBSET {"objective", "max_goal_rounds"} \ {{}}
    [] action = "blocked" -> {{"blocked_reason"}}
    [] OTHER -> {{}}

\* UpdateGoalTool: the model changes the goal from inside a turn, by the
\* reference it was last shown.
UpdateGoal(id, rev, action, fields, cap) ==
  LET goal == Synced.goals[id] IN
  /\ turn /\ rev > 0 /\ rev = goal.rev
  /\ \/ action = "edit" /\ Edit(id, IF "max_goal_rounds" \in fields THEN cap ELSE goal.cap)
     \/ action = "pause" /\ Transition(id, "pause", "paused")
     \/ action = "resume" /\ Resume(id)
     \/ action = "complete" /\ Transition(id, "complete", "complete")
     \/ action = "blocked" /\ Transition(id, "block", "blocked")

-----------------------------------------------------------------------------
(* drive *)

Drive(d, l) == at' = [at EXCEPT ![d] = l]

\* The status is read before the state lock is awaited.
DriveCheck(d) ==
  /\ at[d] = "off" /\ ~view.bad /\ ~busy /\ Drive(d, "checked")
  /\ UNCHANGED <<log, view, held, agentVars, restarts, resumed>>

\* Mutant: a round that is queued already does not stop the next drive.
Drivable(v) ==
  LET goal == v.goals[v.act.id] IN
  /\ v.act # NoActivation /\ goal.rev = v.act.rev /\ ~goal.tombstone /\ goal.phase = "active"

\* What drive asks of the activation before it reserves a round.
Ready(v) ==
  LET goal == v.goals[v.act.id] IN
  /\ v.act # NoActivation /\ v.act.queued = 0
  /\ goal.rev = v.act.rev /\ ~goal.tombstone /\ goal.phase = "active"

DriveReserve(d) ==
  LET v == Synced  next == [id |-> v.act.id, rev |-> v.act.rev, round |-> v.rounds[v.act.id] + 1] IN
  /\ at[d] = "checked"
  /\ CASE v.bad -> Drive(d, "off") /\ UNCHANGED <<view, held>>
       [] ~v.bad /\ ~Ready(v) -> Drive(d, "off") /\ view' = v /\ held' = held
       [] ~v.bad /\ Ready(v) /\ next.round > v.goals[next.id].cap ->
            Drive(d, "block") /\ view' = v /\ held' = [held EXCEPT ![d] = next]
       [] OTHER ->
            /\ Drive(d, "reserved") /\ held' = [held EXCEPT ![d] = next]
            /\ view' = [v EXCEPT !.act.queued = next.round]
  /\ UNCHANGED <<log, agentVars, restarts, resumed>>

\* clear_queued_round
Unqueued(r) ==
  IF view.act = [id |-> r.id, rev |-> r.rev, queued |-> r.round]
  THEN [view EXCEPT !.act.queued = 0] ELSE view

\* The durable inbox event; a refused append blocks the goal.
DriveEnqueue(d) ==
  /\ at[d] = "reserved"
  /\ \/ ~stopped /\ durable' = Append(durable, held[d]) /\ Drive(d, "enqueued") /\ view' = view
     \/ durable' = durable /\ Drive(d, "block") /\ view' = Unqueued(held[d])
  /\ UNCHANGED <<log, held, inbox, busy, turn, stopped, prompts, restarts, resumed>>

\* AgentHandle::followup, which only an agent that is cancelled refuses; the
\* task that drives again when the agent is idle is a later DriveCheck.
DriveDeliver(d) ==
  /\ at[d] = "enqueued"
  /\ IF stopped THEN Drive(d, "block") /\ view' = Unqueued(held[d]) /\ UNCHANGED <<held, inbox, busy>>
     ELSE /\ Drive(d, "off") /\ held' = [held EXCEPT ![d] = NoRound]
          /\ inbox' = Append(inbox, held[d]) /\ busy' = TRUE /\ view' = view
  /\ UNCHANGED <<log, durable, turn, stopped, prompts, restarts, resumed>>

\* block with the reference drive read; a stale one is refused, and the append
\* may be, by the agent's token above all.
DriveBlock(d) ==
  LET v == Synced  id == held[d].id
      next == [v.goals[id] EXCEPT !.rev = @ + 1, !.phase = "blocked"] IN
  /\ at[d] = "block" /\ Drive(d, "off") /\ held' = [held EXCEPT ![d] = NoRound]
  /\ \/ /\ ~v.bad /\ v.goals[id].rev = held[d].rev /\ v.goals[id].phase = "active"
        /\ Write(v, id, "block", next, NoActivation)
     \/ UNCHANGED <<log, view>>
  /\ UNCHANGED <<agentVars, restarts, resumed>>

-----------------------------------------------------------------------------
(* The agent *)

Prompt ==
  /\ ~view.bad /\ ~stopped /\ prompts < MaxPrompts /\ prompts' = prompts + 1
  /\ durable' = Append(durable, User) /\ inbox' = Append(inbox, User) /\ busy' = TRUE
  /\ UNCHANGED <<log, view, at, held, turn, stopped, restarts, resumed>>

\* The driver claims the front of the queue and posts it; a refused append
\* loses the message.
Post ==
  /\ busy /\ ~turn /\ ~stopped /\ inbox # <<>> /\ turn' = TRUE
  /\ inbox' = Tail(inbox)
  /\ durable' = RemoveFirst(durable, Head(inbox))
  /\ \/ /\ Head(inbox) # User
        /\ log' = Append(log, [type |-> "round"] @@ Head(inbox))
     \/ log' = log
  /\ UNCHANGED <<view, at, held, busy, stopped, prompts, restarts, resumed>>

EndTurn ==
  /\ turn /\ turn' = FALSE /\ busy' = (inbox # <<>>)
  /\ UNCHANGED <<log, view, at, held, durable, inbox, stopped, prompts, restarts, resumed>>

\* AgentInner::cancel.
Stop ==
  /\ ~stopped /\ restarts < MaxRestarts /\ stopped' = TRUE
  /\ UNCHANGED <<log, view, at, held, durable, inbox, busy, turn, prompts, restarts, resumed>>

\* A stop or a crash, and the next generation: the durable queue is resumed
\* without a wake, and the service is built anew or fails for good.
Restart ==
  /\ restarts < MaxRestarts /\ restarts' = restarts + 1
  /\ view' = Cold(log)
  /\ at' = [d \in Drivers |-> "off"] /\ held' = [d \in Drivers |-> NoRound]
  /\ inbox' = durable /\ busy' = FALSE /\ turn' = FALSE /\ stopped' = FALSE
  /\ resumed' = resumed \cup (ToSet(durable) \ {User})
  /\ UNCHANGED <<log, durable, prompts>>

Next ==
  \/ \E g \in Goals :
       \/ \E c \in Caps : Create(g, c) \/ Edit(g, c)
       \/ Transition(g, "pause", "paused") \/ Transition(g, "complete", "complete")
       \/ Transition(g, "block", "blocked") \/ Resume(g) \/ Clear(g)
       \/ turn /\ \E rev \in 1..MaxChanges, c \in Caps,
            action \in {"edit", "pause", "resume", "complete", "blocked"} :
            \E fields \in UpdateFits(action) : UpdateGoal(g, rev, action, fields, c)
  \/ \E d \in Drivers :
       DriveCheck(d) \/ DriveReserve(d) \/ DriveEnqueue(d) \/ DriveDeliver(d) \/ DriveBlock(d)
  \/ Prompt \/ Post \/ EndTurn \/ Stop \/ Restart

Spec == Init /\ [][Next]_vars

-----------------------------------------------------------------------------
\* The warm view of a service, kept by the writes it made itself and by the
\* events it synced, is what a restart would fold from the same events, and an
\* activation always names the current, active revision
\* (write_locked_with_reason, sync_locked, GoalService::new).
LedgerViewsAgree ==
  ~view.bad =>
    LET cold == FoldLeft(Apply, Empty, SubSeq(log, 1, view.observed)) IN
    /\ ~cold.bad /\ view.observed <= Len(log)
    /\ <<view.goals, view.rounds, view.current>> = <<cold.goals, cold.rounds, cold.current>>
    /\ view.act # NoActivation =>
         /\ view.act.id = view.current /\ view.act.rev = view.goals[view.current].rev
         /\ view.goals[view.current].phase = "active"

\* The fold refuses an event, after which no service of this session can be
\* opened, only where a posted round comes after a change of its goal, or where
\* a restart resumed the round and the new service queued the same one again.
\* Every other round is the next of its goal, within its limit and at its
\* revision, and every change fits, however drives, prompts, stops and changes
\* interleave (drive, apply_goal_round).
RoundsFold ==
  log # <<>> =>
    LET v == FoldLeft(Apply, Empty, Front(log))  e == Last(log) IN
    ~v.bad /\ Apply(v, e).bad =>
      /\ e.type = "round"
      /\ \/ e.rev < v.goals[e.id].rev
         \/ e.round <= v.rounds[e.id] /\ [id |-> e.id, rev |-> e.rev, round |-> e.round] \in resumed
=============================================================================
