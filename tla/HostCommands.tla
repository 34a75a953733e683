---------------------------- MODULE HostCommands ----------------------------
(***************************************************************************)
(* The slash commands of a session and the feedback on its messages        *)
(* (src/src/host.rs: command_execute_inner and the run_*_command methods,  *)
(* pin_initial_permission, MessageFeedbackStore and the message_feedback   *)
(* methods; src/src/permissions.rs: the fold of the permission facts).     *)
(*                                                                         *)
(* A command is bracketed by a command/run and a command/done event of the *)
(* session's log; what it changes in between is several events more, each  *)
(* of which may fail, be the last before a crash, or before the caller's   *)
(* request is dropped.  (A request is dropped between two awaits here; an  *)
(* append cut short is SessionStore's matter.)  The agent's setup pins     *)
(* what the log does not say about permissions, in up to three appends.    *)
(* Feedback is one document in a file that is replaced as a whole; clients *)
(* change an item by naming the version they saw.                          *)
(***************************************************************************)
EXTENDS Integers, SequencesExt

CONSTANTS
  Calls,        \* requests that take commands or open the session
  Lines,        \* what they ask: records [name, arg]
  Logs,         \* the logs a session may start from: empty, seeded, of an older version
  Defaults,     \* the values permission.defaultPreset takes
  Compacts,     \* whether the session's mode has compaction
  Raters,       \* requests that change feedback
  Messages,     \* message ids they name
  Known,        \* the ones that are assistant messages of the session
  Ratings,
  Fails,        \* whether writes may fail
  MaxUpsets,    \* bound: crashes, disposals of the agent, new incarnations of the session
  MaxMoves      \* bound: changes made by turns of the agent

None == "none"

VARIABLES
  log,      \* the session's events that matter here: records [type, arg]
  agent,    \* its agent: whether it is live, its incarnation, its ApprovalState.policy
  goal,     \* its goal: phase and revision
  busy,     \* whether a turn holds Session.execution
  call,     \* each of Calls: where it is, its line, the agent it found, the events
            \* it has yet to append, the goal it read, its result, how it returned
  lock,     \* holders of HostInner.commands and setup and of the document
  driven,   \* calls that spawned GoalService::drive
  doc,      \* MessageFeedbackStore.document
  disk,     \* the document in the file
  born,     \* the session's header: 1, 2... when its id is used again
  rater,    \* each of Raters: where it is, what it asks, the header it read
  answers,  \* acknowledged changes: the message, its session, the version
            \* they replaced and the one they made
  users,    \* anonymous ids that were answered
  count     \* versions made, upsets and moves so far

sessionVars == <<log, agent, goal, busy, driven>>
storeVars == <<doc, disk, answers, users>>
vars == <<sessionVars, call, lock, storeVars, born, rater, count>>

Event(type, arg) == [type |-> type, arg |-> arg]

-----------------------------------------------------------------------------
(* permissions.rs *)

PRESETS ==
  [p \in {"read-only", "workspace-write", "danger-full-access"} |->
     [sandbox |-> p, approval |-> IF p = "danger-full-access" THEN "never" ELSE "ask"]]

\* fold: the last valid fact of each kind.
Latest(events, type) ==
  LET n == SelectLastInSeq(events, LAMBDA e : e.type = type)
  IN  IF n = 0 THEN None ELSE events[n].arg

Fold(events) == [preset   |-> Latest(events, "permission/preset"),
                 sandbox  |-> Latest(events, "sandbox/mode"),
                 approval |-> Latest(events, "approval/policy")]

Or(value, default) == IF value = None THEN default ELSE value

\* current: the selected preset when the facts agree with it, else the preset
\* they spell, else custom.
Spelled(knobs) == [sandbox  |-> Or(knobs.sandbox, "workspace-write"),
                   approval |-> Or(knobs.approval, "ask")]

Current(knobs) ==
  LET fit == {p \in DOMAIN PRESETS : PRESETS[p] = Spelled(knobs)}
  IN  IF fit = {} THEN "custom" ELSE CHOOSE p \in fit : p = knobs.preset \/ knobs.preset \notin fit

\* What pin_initial_permission appends: the default preset when the log says
\* nothing and is not a seed's, else what is missing of the three facts.
Pins(events, default) ==
  LET knobs == Fold(events)
      name  == Current(knobs)
      seeded == \E i \in DOMAIN events : events[i].type = "session/end-seed"
      When(missing, type, arg) == IF missing THEN <<Event(type, arg)>> ELSE <<>>
  IN  IF knobs = [preset |-> None, sandbox |-> None, approval |-> None] /\ ~seeded
      THEN <<Event("permission/preset", default),
             Event("sandbox/mode", PRESETS[default].sandbox),
             Event("approval/policy", PRESETS[default].approval)>>
      ELSE When(knobs.preset = None /\ name # "custom", "permission/preset", name) \o
           When(knobs.sandbox = None, "sandbox/mode", "workspace-write") \o
           When(knobs.approval = None, "approval/policy", "ask")

\* What run_permission_command appends to select preset p.
Selects(events, p) ==
  LET knobs == Fold(events)
      When(differs, type, arg) == IF differs THEN <<Event(type, arg)>> ELSE <<>>
  IN  When(Current(knobs) # p, "permission/preset", p) \o
      When(knobs.sandbox # PRESETS[p].sandbox, "sandbox/mode", PRESETS[p].sandbox) \o
      When(knobs.approval # PRESETS[p].approval, "approval/policy", PRESETS[p].approval)

PlanMode(events) == Latest(events, "plan/mode") = "plan"

Idle == [at |-> "idle", line |-> [name |-> None, arg |-> None], agent |-> 0,
         todo |-> <<>>, goal |-> None, result |-> None, out |-> None]

Unasked == [at |-> "idle", message |-> None, rating |-> None, base |-> 0, born |-> 0,
            next |-> None]

NoItem == [rating |-> None, version |-> 0]
Empty == [user |-> 0, born |-> 0, items |-> [m \in Messages |-> NoItem]]

Init ==
  /\ log \in Logs
  /\ agent = [live |-> FALSE, id |-> 0, policy |-> "ask"]
  /\ goal = [phase |-> None, revision |-> 0]
  /\ busy = FALSE /\ driven = {}
  /\ call = [c \in Calls |-> Idle]
  /\ lock = [commands |-> None, setup |-> None, document |-> None]
  /\ doc = Empty /\ disk = Empty /\ born = 1
  /\ rater = [r \in Raters |-> Unasked]
  /\ answers = {} /\ users = {}
  /\ count = [versions |-> 0, upsets |-> 0, moves |-> 0]

-----------------------------------------------------------------------------
(* command_execute_inner: up to the command/run event *)

Goes(c, l) == call' = [call EXCEPT ![c].at = l]
Returns(c, out) == call' = [call EXCEPT ![c].at = "over", ![c].out = out]
Frees(c) == lock' = [n \in DOMAIN lock |-> IF lock[n] = c THEN None ELSE lock[n]]

COMMANDS == {"compact", "export", "feedback", "goal", "permission", "plan"}

\* A line that is no command is nobody's error.  `open' stands for the host
\* calls that set up the agent and take no command.
Asks(c, line) ==
  /\ call[c].at = "idle"
  /\ call' = [call EXCEPT ![c] =
       [Idle EXCEPT !.line = line,
                    !.at = CASE line.name \in COMMANDS -> "lock"
                             [] line.name = "open" -> "setup"
                             [] OTHER -> "over"]]
  /\ UNCHANGED <<sessionVars, lock, storeVars, born, rater, count>>

LocksCommands(c) ==
  /\ call[c].at = "lock" /\ lock.commands = None
  /\ lock' = [lock EXCEPT !.commands = c]
  /\ Goes(c, "setup")
  /\ UNCHANGED <<sessionVars, storeVars, born, rater, count>>

\* ensure_agent_under_setup, of which the permission facts are modelled here
\* (HostLifecycle has the rest of it).
SetsUp(c, default) ==
  /\ call[c].at = "setup" /\ lock.setup = None
  /\ lock' = [lock EXCEPT !.setup = c]
  /\ call' = [call EXCEPT ![c].at = "pin",
                          ![c].todo = IF agent.live THEN <<>> ELSE Pins(log, default)]
  /\ UNCHANGED <<sessionVars, storeVars, born, rater, count>>

\* append_command_event of the next event a call has to append.
Appends(c) == log' = Append(log, Head(call[c].todo))

PinsFact(c) ==
  /\ call[c].at = "pin" /\ call[c].todo # <<>>
  /\ Appends(c)
  /\ call' = [call EXCEPT ![c].todo = Tail(@)]
  /\ UNCHANGED <<agent, goal, busy, driven, lock, storeVars, born, rater, count>>

PinFails(c) ==
  /\ Fails /\ call[c].at = "pin" /\ call[c].todo # <<>>
  /\ Returns(c, "failed") /\ Frees(c)
  /\ UNCHANGED <<sessionVars, storeVars, born, rater, count>>

\* ApprovalService::new replays the policy.
Installed == [live |-> TRUE, id |-> agent.id + 1, policy |-> Or(Fold(log).approval, "ask")]

\* The agent is installed; /compact is no command of a mode without compaction.
Prepared(c) ==
  /\ call[c].at = "pin" /\ call[c].todo = <<>>
  /\ agent' = IF agent.live THEN agent ELSE Installed
  /\ CASE call[c].line.name = "open" -> Returns(c, "success") /\ Frees(c)
       [] call[c].line.name = "compact" /\ ~Compacts -> Returns(c, None) /\ Frees(c)
       [] OTHER -> /\ call' = [call EXCEPT ![c].at = "run", ![c].agent = agent'.id]
                   /\ lock' = [lock EXCEPT !.setup = None]
  /\ UNCHANGED <<log, goal, busy, driven, storeVars, born, rater, count>>

\* An agent released since the setup takes its approval service with it.
NoApprovals(c) ==
  /\ call[c].at = "run" /\ call[c].line.name = "permission" /\ ~agent.live
  /\ Returns(c, "failed") /\ Frees(c)
  /\ UNCHANGED <<sessionVars, storeVars, born, rater, count>>

RunsLogged(c) ==
  /\ call[c].at = "run"
  /\ log' = Append(log, Event("command/run", c))
  /\ Goes(c, "body")
  /\ UNCHANGED <<agent, goal, busy, driven, lock, storeVars, born, rater, count>>

RunFails(c) ==
  /\ Fails /\ call[c].at = "run"
  /\ Returns(c, "failed") /\ Frees(c)
  /\ UNCHANGED <<sessionVars, storeVars, born, rater, count>>

-----------------------------------------------------------------------------
(* The bodies of the commands: a result (success or error), or Err (failed) *)

At(c, name) == call[c].at = "body" /\ call[c].line.name = name
Arg(c) == call[c].line.arg
Results(c, result) == call' = [call EXCEPT ![c].at = "result", ![c].result = result]
Writes(c, events) == call' = [call EXCEPT ![c].at = "write", ![c].todo = events]

\* /compact and /export take no argument.  compact_now needs the session idle
\* and its agent registered, and may itself fail; what it appends is
\* Compaction's matter.
RunsCompact(c) ==
  /\ At(c, "compact")
  /\ \/ Arg(c) # "" /\ Results(c, "error")
     \/ Arg(c) = "" /\ ~busy /\ agent.live /\ Results(c, "success")
     \/ Arg(c) = "" /\ (busy \/ ~agent.live \/ Fails) /\ Results(c, "failed")
  /\ UNCHANGED <<sessionVars, lock, storeVars, born, rater, count>>

RunsExport(c) ==
  /\ At(c, "export")
  /\ Results(c, IF Arg(c) = "" THEN "success" ELSE "error")
  /\ UNCHANGED <<sessionVars, lock, storeVars, born, rater, count>>

\* run_feedback_command, up to the anonymous id.
RunsFeedback(c) ==
  /\ At(c, "feedback")
  /\ IF Arg(c) = "" THEN Results(c, "error")
                    ELSE Writes(c, <<Event("feedback/record", c)>>)
  /\ UNCHANGED <<sessionVars, lock, storeVars, born, rater, count>>

\* run_plan_command: nothing to do when the mode is the one asked for.
RunsPlan(c) ==
  /\ At(c, "plan")
  /\ LET target == IF Arg(c) = "off" THEN "normal" ELSE "plan"
     IN  IF PlanMode(log) = (target = "plan") THEN Results(c, "success")
                                              ELSE Writes(c, <<Event("plan/mode", target)>>)
  /\ agent' = IF agent.live THEN agent ELSE Installed
  /\ UNCHANGED <<log, goal, busy, driven, lock, storeVars, born, rater, count>>

\* run_permission_command.
RunsPermission(c) ==
  /\ At(c, "permission")
  /\ CASE Arg(c) = "" -> Results(c, "success")
       [] Arg(c) \in DOMAIN PRESETS -> Writes(c, Selects(log, Arg(c)))
       [] OTHER -> Results(c, "error")
  /\ UNCHANGED <<sessionVars, lock, storeVars, born, rater, count>>

\* ApprovalService::set_policy and PlanningService::set_mode want the agent
\* they belong to alive; only the approval service keeps what it appended.
Stale(c) ==
  /\ \/ Head(call[c].todo).type = "approval/policy" /\ call[c].agent # agent.id
     \/ Head(call[c].todo).type \in {"approval/policy", "plan/mode"} /\ ~agent.live

WritesFact(c) ==
  /\ call[c].at = "write" /\ call[c].todo # <<>> /\ ~Stale(c)
  /\ Appends(c)
  /\ call' = [call EXCEPT ![c].todo = Tail(@)]
  /\ agent' = IF Head(call[c].todo).type = "approval/policy"
              THEN [agent EXCEPT !.policy = Head(call[c].todo).arg] ELSE agent
  /\ UNCHANGED <<goal, busy, driven, lock, storeVars, born, rater, count>>

WriteFails(c) ==
  /\ call[c].at = "write" /\ call[c].todo # <<>> /\ (Stale(c) \/ Fails)
  /\ Results(c, "failed")
  /\ UNCHANGED <<sessionVars, lock, storeVars, born, rater, count>>

Written(c) ==
  /\ call[c].at = "write" /\ call[c].todo = <<>>
  /\ IF call[c].line.name = "feedback" THEN Goes(c, "user") ELSE Results(c, "success")
  /\ UNCHANGED <<sessionVars, lock, storeVars, born, rater, count>>

\* run_goal_command reads the goal, and changes the one it read: GoalService
\* refuses a reference that is no longer the current one.
ReadsGoal(c) ==
  /\ At(c, "goal")
  /\ agent' = IF agent.live THEN agent ELSE Installed
  /\ call' = [call EXCEPT ![c].at = "goal", ![c].goal = goal]
  /\ UNCHANGED <<log, goal, busy, driven, lock, storeVars, born, rater, count>>

Phase(arg, phase) == CASE arg = "pause" -> "paused"
                       [] arg \in {"resume", "new"} -> "active"
                       [] arg = "clear" -> None
                       [] arg = "edit x" -> phase

RunsGoal(c) ==
  /\ call[c].at = "goal"
  /\ LET arg == Arg(c)
         absent == call[c].goal.phase = None
     IN  CASE arg = "" -> Results(c, "success") /\ goal' = goal
           [] arg = "edit" \/ absent = (arg # "new") -> Results(c, "error") /\ goal' = goal
           [] OTHER ->
                \/ /\ goal = call[c].goal /\ agent.live
                   /\ goal' = [phase |-> Phase(arg, goal.phase), revision |-> goal.revision + 1]
                   /\ Results(c, "success")
                \/ /\ goal # call[c].goal \/ ~agent.live \/ Fails
                   /\ Results(c, "failed") /\ goal' = goal
  /\ UNCHANGED <<log, agent, busy, driven, lock, storeVars, born, rater, count>>

-----------------------------------------------------------------------------
(* command_execute_inner: the command/done event and what follows it *)

\* The text of /plan is prompted; a goal that was set or resumed is driven.
Follows(c) ==
  LET line == call[c].line
  IN  CASE call[c].result # "success" -> None
        [] line.name = "plan" /\ line.arg \notin {"", "off"} -> "prompt"
        [] line.name = "goal" /\ line.arg \in {"resume", "new"} -> "drive"
        [] OTHER -> None

\* The event's failure is the call's, unless the command failed before it.
DoneLogged(c) ==
  /\ call[c].at = "result"
  /\ log' = Append(log, Event("command/done",
       [by |-> c, kind |-> IF call[c].result = "failed" THEN "error" ELSE call[c].result]))
  /\ IF Follows(c) = None THEN Returns(c, call[c].result) /\ Frees(c)
                          ELSE Goes(c, Follows(c)) /\ lock' = lock
  /\ UNCHANGED <<agent, goal, busy, driven, storeVars, born, rater, count>>

DoneFails(c) ==
  /\ Fails /\ call[c].at = "result"
  /\ Returns(c, "failed") /\ Frees(c)
  /\ UNCHANGED <<sessionVars, storeVars, born, rater, count>>

\* prompt_inner (AgentQueue) accepts the text or fails.
Prompts(c) ==
  /\ call[c].at = "prompt"
  /\ \/ log' = Append(log, Event("user/message", c)) /\ Returns(c, "success")
     \/ Fails /\ log' = log /\ Returns(c, "failed")
  /\ Frees(c)
  /\ agent' = IF agent.live THEN agent ELSE Installed
  /\ UNCHANGED <<goal, busy, driven, storeVars, born, rater, count>>

Drives(c) ==
  /\ call[c].at = "drive"
  /\ agent' = IF agent.live THEN agent ELSE Installed
  /\ driven' = driven \union {c}
  /\ Returns(c, "success") /\ Frees(c)
  /\ UNCHANGED <<log, goal, busy, storeVars, born, rater, count>>

-----------------------------------------------------------------------------
(* MessageFeedbackStore: the document is changed in a copy, the copy replaces *)
(* the file, and only then the document, all under the document's lock        *)

Takes(x) == lock.document = None /\ lock' = [lock EXCEPT !.document = x]
New == count.versions + 1
Counts == count' = [count EXCEPT !.versions = @ + 1]

\* anonymous_user_id, the last step of /feedback: made once and kept.
FindsUser(c) ==
  /\ call[c].at = "user" /\ lock.document = None /\ doc.user # 0
  /\ users' = users \union {doc.user}
  /\ Results(c, "success")
  /\ UNCHANGED <<sessionVars, lock, doc, disk, answers, born, rater, count>>

MakesUser(c) ==
  /\ call[c].at = "user" /\ doc.user = 0 /\ Takes(c)
  /\ call' = [call EXCEPT ![c].at = "replace", ![c].goal = [doc EXCEPT !.user = New]]
  /\ Counts
  /\ UNCHANGED <<sessionVars, storeVars, born, rater>>

\* persist_message_feedback: a temporary file renamed over the document's.
ReplacesUser(c) ==
  /\ call[c].at = "replace"
  /\ \/ disk' = call[c].goal /\ Goes(c, "adopt") /\ lock' = lock
     \/ Fails /\ disk' = disk /\ Results(c, "failed") /\ lock' = [lock EXCEPT !.document = None]
  /\ UNCHANGED <<sessionVars, doc, answers, users, born, rater, count>>

AdoptsUser(c) ==
  /\ call[c].at = "adopt"
  /\ doc' = call[c].goal /\ users' = users \union {call[c].goal.user}
  /\ lock' = [lock EXCEPT !.document = None]
  /\ Results(c, "success")
  /\ UNCHANGED <<sessionVars, disk, answers, born, rater, count>>

\* The items of the session a header names: an id used again starts anew.
Items(d, header) == IF d.born = header THEN d.items ELSE Empty.items

RGoes(r, l) == rater' = [rater EXCEPT ![r].at = l]

\* message_feedback_put_inner and delete_inner: the header is read first, and
\* for a put the log, before the document's lock is taken.  The version named
\* is one a listing showed, or none (0).
Rates(r, m, rating, base) ==
  /\ rater[r].at = "idle"
  /\ \/ base = 0
     \/ lock.document = None /\ base = Items(doc, born)[m].version
  /\ rating = None => base # 0
  /\ rater' = [rater EXCEPT ![r] = [Unasked EXCEPT !.at = "header", !.message = m,
                                                   !.rating = rating, !.base = base]]
  /\ UNCHANGED <<sessionVars, call, lock, storeVars, born, count>>

ReadsHeader(r) ==
  /\ rater[r].at = "header"
  /\ IF rater[r].rating # None /\ rater[r].message \notin Known
     THEN RGoes(r, "over")
     ELSE rater' = [rater EXCEPT ![r].at = "store", ![r].born = born]
  /\ UNCHANGED <<sessionVars, call, lock, storeVars, born, count>>

\* What the store does with a request x under the lock: an answer without a
\* change, or the document that is to replace the present one.
Existing(x) == Items(doc, x.born)[x.message]
Conflicts(x) == IF x.rating = None THEN Existing(x) # NoItem /\ x.base # Existing(x).version
                                   ELSE x.base # Existing(x).version
Unchanged(x) == Existing(x).rating = x.rating

Changed(x) ==
  [doc EXCEPT !.born = x.born,
              !.items = [Items(doc, x.born) EXCEPT ![x.message] =
                IF x.rating = None THEN NoItem ELSE [rating |-> x.rating, version |-> New]]]

\* put and delete: the version named must be the item's.
Answers(r) ==
  /\ rater[r].at = "store" /\ lock.document = None
  /\ Conflicts(rater[r]) \/ Unchanged(rater[r])
  /\ RGoes(r, "over")
  /\ UNCHANGED <<sessionVars, call, lock, storeVars, born, count>>

Stores(r) ==
  /\ rater[r].at = "store" /\ ~Conflicts(rater[r]) /\ ~Unchanged(rater[r])
  /\ Takes(r)
  /\ rater' = [rater EXCEPT ![r].at = "replace", ![r].next = Changed(rater[r])]
  /\ Counts
  /\ UNCHANGED <<sessionVars, call, storeVars, born>>

Replaces(r) ==
  /\ rater[r].at = "replace"
  /\ \/ disk' = rater[r].next /\ RGoes(r, "adopt") /\ lock' = lock
     \/ Fails /\ disk' = disk /\ RGoes(r, "over") /\ lock' = [lock EXCEPT !.document = None]
  /\ UNCHANGED <<sessionVars, call, doc, answers, users, born, count>>

Adopts(r) ==
  /\ rater[r].at = "adopt"
  /\ doc' = rater[r].next
  /\ answers' = answers \union
       {[message |-> rater[r].message, born |-> rater[r].born, base |-> rater[r].base,
         version |-> rater[r].next.items[rater[r].message].version]}
  /\ lock' = [lock EXCEPT !.document = None]
  /\ RGoes(r, "over")
  /\ UNCHANGED <<sessionVars, call, disk, users, born, count>>

-----------------------------------------------------------------------------
(* What happens to requests, the agent and the process *)

Active(at) == at \notin {"idle", "over", "dropped", "cut"}

\* A request is dropped with its connection; its locks are released.  `cut'
\* marks one that had replaced the file and not yet the document.
Drop(at) == IF at = "adopt" THEN "cut" ELSE "dropped"

DropsCall(c) ==
  /\ Active(call[c].at)
  /\ Goes(c, Drop(call[c].at)) /\ Frees(c)
  /\ UNCHANGED <<sessionVars, storeVars, born, rater, count>>

DropsRater(r) ==
  /\ Active(rater[r].at)
  /\ RGoes(r, Drop(rater[r].at)) /\ Frees(r)
  /\ UNCHANGED <<sessionVars, call, storeVars, born, count>>

Upset == count.upsets < MaxUpsets /\ count' = [count EXCEPT !.upsets = @ + 1]
Dropped(x) == IF Active(x.at) THEN [x EXCEPT !.at = Drop(x.at)] ELSE x

\* The process ends and starts again: MessageFeedbackStore::open.
Crashes ==
  /\ Upset
  /\ call' = [c \in Calls |-> Dropped(call[c])]
  /\ rater' = [r \in Raters |-> Dropped(rater[r])]
  /\ lock' = [n \in DOMAIN lock |-> None]
  /\ agent' = [agent EXCEPT !.live = FALSE] /\ busy' = FALSE /\ doc' = disk
  /\ UNCHANGED <<log, goal, driven, disk, answers, users, born>>

Disposes ==
  /\ Upset /\ agent.live
  /\ agent' = [agent EXCEPT !.live = FALSE] /\ busy' = FALSE
  /\ UNCHANGED <<log, goal, driven, call, lock, storeVars, born, rater>>

\* The session is deleted and its id used for another one, with no request for
\* it under way.
Recreates ==
  /\ Upset /\ ~agent.live
  /\ \A c \in Calls : call[c].at = "idle"
  /\ \A r \in Raters : ~Active(rater[r].at)
  /\ born' = born + 1 /\ log' \in Logs
  /\ UNCHANGED <<agent, goal, busy, driven, call, lock, storeVars, rater>>

\* A turn of the agent begins or ends; within it the model's tools leave plan
\* mode and change the goal.
Moves ==
  /\ agent.live /\ count.moves < MaxMoves
  /\ count' = [count EXCEPT !.moves = @ + 1]
  /\ \/ busy' = ~busy /\ UNCHANGED <<log, goal>>
     \/ /\ busy /\ PlanMode(log) /\ log' = Append(log, Event("plan/mode", "normal"))
        /\ UNCHANGED <<goal, busy>>
     \/ /\ busy /\ goal.phase = "active"
        /\ goal' = [phase |-> "paused", revision |-> goal.revision + 1]
        /\ UNCHANGED <<log, busy>>
  /\ UNCHANGED <<agent, driven, call, lock, storeVars, born, rater>>

Next ==
  \/ \E c \in Calls :
       \/ \E line \in Lines : Asks(c, line)
       \/ LocksCommands(c) \/ (\E d \in Defaults : SetsUp(c, d)) \/ PinsFact(c) \/ PinFails(c)
       \/ Prepared(c) \/ NoApprovals(c) \/ RunsLogged(c) \/ RunFails(c)
       \/ RunsCompact(c) \/ RunsExport(c) \/ RunsFeedback(c) \/ RunsPlan(c) \/ RunsPermission(c)
       \/ WritesFact(c) \/ WriteFails(c) \/ Written(c) \/ ReadsGoal(c) \/ RunsGoal(c)
       \/ FindsUser(c) \/ MakesUser(c) \/ ReplacesUser(c) \/ AdoptsUser(c)
       \/ DoneLogged(c) \/ DoneFails(c) \/ Prompts(c) \/ Drives(c) \/ DropsCall(c)
  \/ \E r \in Raters :
       \/ \E m \in Messages, rating \in Ratings \union {None}, base \in 0..count.versions :
            Rates(r, m, rating, base)
       \/ ReadsHeader(r) \/ Answers(r) \/ Stores(r) \/ Replaces(r) \/ Adopts(r) \/ DropsRater(r)
  \/ Crashes \/ Disposes \/ Recreates \/ Moves

Spec == Init /\ [][Next]_vars

-----------------------------------------------------------------------------
(* Properties *)

Places(type, arg) == {i \in DOMAIN log : log[i].type = type /\ log[i].arg = arg}
IsBracket(i) == log[i].type \in {"command/run", "command/done"}

\* A command that was answered left one command/run and one command/done event
\* with the kind of its answer, with no other command's event between them,
\* whatever failed, was dropped or crashed before it, and what its success
\* promised has begun: the text of /plan is a message behind it, and a goal
\* set or resumed is driven (command_execute_inner).
CommandsBracketed ==
  \A c \in Calls : call[c].line.name \in COMMANDS /\ call[c].out \in {"success", "error"} =>
    \E i, j \in DOMAIN log :
      /\ Places("command/run", c) = {i}
      /\ {k \in DOMAIN log : log[k].type = "command/done" /\ log[k].arg.by = c} = {j}
      /\ i < j /\ log[j].arg.kind = call[c].out
      /\ \A k \in i + 1 .. j - 1 : ~IsBracket(k)
      /\ Follows(c) = "prompt" => \E k \in Places("user/message", c) : j < k
      /\ Follows(c) = "drive" => c \in driven

\* Where the log says that /permission succeeded, the facts before it spell
\* the preset that was asked for, also when an earlier selection or the pins
\* of a setup broke off half way (run_permission_command).
SelectionHolds ==
  \A i \in DOMAIN log :
    log[i].type = "command/done" /\ log[i].arg.kind = "success" =>
      LET line == call[log[i].arg.by].line
      IN  line.name = "permission" /\ line.arg # "" =>
            Current(Fold(SubSeq(log, 1, i))) = line.arg

\* A live agent's session has both facts recorded, its approval service
\* enforces the policy the log ends with, and no confinement was lifted but
\* under the preset that says so (pin_initial_permission, set_policy).
PermissionsInForce ==
  /\ agent.live => /\ Fold(log).sandbox # None
                   /\ agent.policy = Fold(log).approval
  /\ \A i \in Places("sandbox/mode", "danger-full-access") :
       Latest(SubSeq(log, 1, i), "permission/preset") = "danger-full-access"

\* The versions that a change which reached the file replaced.
Replaced == {a.base : a \in answers} \union
            {rater[r].base : r \in {q \in Raters : rater[q].at \in {"adopt", "cut"}}}

\* Acknowledged feedback is in the file and in the document until a change
\* that names its version replaces it; no two acknowledged changes replaced
\* the same version; and one anonymous id is ever told (MessageFeedbackStore).
FeedbackKept ==
  /\ \A a \in answers : a.born = born /\ a.version \notin Replaced \union {0} =>
       \A d \in {doc, disk} : Items(d, born)[a.message].version = a.version
  /\ \A a, b \in answers : a.base = b.base /\ a.base # 0 => a = b
  /\ \A u, v \in users : u = v

\* The types of the variables.
TypeOK ==
  /\ agent.id \in Nat /\ agent.policy \in {"ask", "never"}
  /\ \A c \in Calls : call[c].out \in {None, "success", "error", "failed"}
  /\ \A n \in DOMAIN lock : lock[n] \in Calls \union Raters \union {None}
  /\ \A i \in DOMAIN log :
       log[i].type \in {"permission/preset", "sandbox/mode", "approval/policy", "plan/mode",
         "feedback/record", "user/message", "session/end-seed", "command/run", "command/done"}
=============================================================================
