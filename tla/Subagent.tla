------------------------------ MODULE Subagent ------------------------------
(***************************************************************************)
(* Child agents of one parent generation (src/src/subagent.rs): admission  *)
(* by the parent capability and by the tree's limits, the supervised start *)
(* of the provider, acceptance, the operations of an accepted child, the   *)
(* parent's cleanup, and the RPC that prompts, and for that resumes, a     *)
(* continuable child.  Providers, modes and messages are left out; a       *)
(* refused append or a failed disposal uses up one of MaxFaults.           *)
(***************************************************************************)
EXTENDS Integers, FiniteSets

CONSTANTS
  Children,      \* child sessions, each started once
  Prompts,       \* RPC prompts
  Legacy,        \* contained-starts of a tree without a baseline event
  MaxLive,       \* MAX_LIVE_TREE_DESCENDANTS
  MaxCreations,  \* MAX_TREE_CREATIONS
  MaxFaults      \* bound: refused appends and failed disposals

VARIABLES
  parent,  \* SubagentParentState: live, closing, pending, children, late
  cl,      \* the cleanup attempt: at, todo, failed, complete
  counts,  \* TreeAdmissionCounts
  ledger,  \* subagent/tree-creation events of the root: baseline, accepted
  start,   \* where the start of a child is
  agent,   \* the child's agent: who set it up and what it does
  slots,   \* TreeAdmissionSlots held
  log,     \* contained-start and contained-end events; the child's own log deleted
  op,      \* ChildState.operation, terminal, cleanup_failure, waiting disposers
  rpc,     \* an RPC prompt and its spawned cleanup
  owner,   \* rpc_owners: the prompt that resumed the child
  faults

vars == <<parent, cl, counts, ledger, start, agent, slots, log, op, rpc, owner, faults>>

None == "none"
NoAgent == [by |-> None, is |-> None]

Init ==
  /\ parent = [live |-> TRUE, closing |-> FALSE, pending |-> {}, children |-> {}, late |-> {}]
  /\ cl = [at |-> None, todo |-> {}, failed |-> {}, complete |-> FALSE]
  /\ counts = [live |-> 0, accepted |-> 0, pending |-> 0]
  /\ ledger \in [baseline : {-1}, legacy : Legacy, accepted : {0}]
  /\ start = [c \in Children |-> None] /\ agent = [c \in Children |-> NoAgent]
  /\ slots = {} /\ log = [c \in Children |-> {}]
  /\ op = [c \in Children |-> [by |-> None, want |-> {}, terminal |-> FALSE, failure |-> FALSE]]
  /\ rpc = [p \in Prompts |-> [at |-> None, of |-> None, gen |-> None]]
  /\ owner = [c \in Children |-> None] /\ faults = 0

Fault == faults < MaxFaults /\ faults' = faults + 1

-----------------------------------------------------------------------------
(* Parent admission and the tree's limits *)

\* A new cleanup attempt, unless one runs or cleanup is complete.
Begun(c) == IF c.complete \/ c.at # None THEN c ELSE [c EXCEPT !.at = "begin"]

\* reserve_admission; a refusal begins the cleanup.
ReserveAdmission(c) ==
  /\ start[c] = None
  /\ IF parent.closing \/ ~parent.live
     THEN /\ parent' = [parent EXCEPT !.closing = TRUE] /\ cl' = Begun(cl)
          /\ start' = [start EXCEPT ![c] = "failed"]
     ELSE /\ parent' = [parent EXCEPT !.pending = @ \cup {c}] /\ cl' = cl
          /\ start' = [start EXCEPT ![c] = "permit"]
  /\ UNCHANGED <<counts, ledger, agent, slots, log, op, rpc, owner, faults>>

\* initialize_tree_admission, with the commits of the tree shut out.
InitializeTree(c) ==
  LET total == IF ledger.baseline >= 0 THEN ledger.baseline + ledger.accepted ELSE ledger.legacy
      capped == IF total > MaxCreations THEN MaxCreations ELSE total
  IN
  /\ start[c] = "permit" /\ start' = [start EXCEPT ![c] = "tree"]
  /\ ledger' = IF ledger.baseline >= 0 THEN ledger ELSE [ledger EXCEPT !.baseline = capped]
  /\ counts' = [counts EXCEPT !.accepted = IF capped > @ THEN capped ELSE @]
  /\ UNCHANGED <<parent, cl, agent, slots, log, op, rpc, owner, faults>>

\* Mutant: creations under way are not counted.
FitsAccepted(creates) ==
  /\ counts.live < MaxLive
  /\ creates => counts.accepted < MaxCreations

Fits(creates) ==
  /\ counts.live < MaxLive
  /\ creates => counts.accepted + counts.pending < MaxCreations

\* TreeAdmissionState::reserve
Counted(creates) ==
  [counts EXCEPT !.live = @ + 1, !.pending = IF creates THEN @ + 1 ELSE @]

\* TreeAdmissionSlot::release
Release(slot, uncommitted) ==
  /\ slots' = slots \ {slot}
  /\ counts' = [counts EXCEPT !.live = @ - 1, !.pending = IF uncommitted THEN @ - 1 ELSE @]

Unpermitted(c) == [parent EXCEPT !.pending = @ \ {c}]

ReserveSlot(c) ==
  /\ start[c] = "tree"
  /\ \/ /\ Fits(TRUE) /\ parent.live
        /\ counts' = Counted(TRUE) /\ slots' = slots \cup {c}
        /\ start' = [start EXCEPT ![c] = "setup"] /\ parent' = parent
     \/ /\ start' = [start EXCEPT ![c] = "failed"] /\ parent' = Unpermitted(c)
        /\ UNCHANGED <<counts, slots>>
  /\ UNCHANGED <<cl, ledger, agent, log, op, rpc, owner, faults>>

-----------------------------------------------------------------------------
(* supervise_provider_start and the rest of start *)

\* The spawned task: the provider has set up the agent, or has failed.
ProviderStart(c) ==
  /\ start[c] \in {"setup", "orphan"}
  /\ \/ /\ agent' = [agent EXCEPT ![c] = [by |-> "start", is |-> "idle"]]
        /\ start' = [start EXCEPT ![c] = IF @ = "setup" THEN "agent" ELSE "undo"]
        /\ UNCHANGED <<parent, counts, slots>>
     \/ /\ start' = [start EXCEPT ![c] = "failed"] /\ parent' = Unpermitted(c)
        /\ Release(c, TRUE) /\ agent' = agent
  /\ UNCHANGED <<cl, ledger, log, op, rpc, owner, faults>>

\* The call is cancelled or dropped, or a check of start fails: the agent goes
\* to PendingAgentCleanup, which keeps the permit and the slot until it is
\* disposed.
Abandon(c) ==
  /\ start[c] \in {"setup", "agent", "turn", "logged"}
  /\ start' = [start EXCEPT ![c] = IF @ = "setup" THEN "orphan" ELSE "undo"]
  /\ UNCHANGED <<parent, cl, counts, ledger, agent, slots, log, op, rpc, owner, faults>>

\* PendingAgentCleanup::dispose, tried again until it succeeds.
Undo(c) ==
  /\ start[c] = "undo"
  /\ agent' = [agent EXCEPT ![c] = NoAgent] /\ start' = [start EXCEPT ![c] = "failed"]
  /\ parent' = Unpermitted(c) /\ Release(c, TRUE)
  /\ UNCHANGED <<cl, ledger, log, op, rpc, owner, faults>>

\* The initial message starts the child's first turn.
InitialMessage(c) ==
  /\ start[c] = "agent" /\ start' = [start EXCEPT ![c] = "turn"]
  /\ agent' = [agent EXCEPT ![c].is = "running"]
  /\ UNCHANGED <<parent, cl, counts, ledger, slots, log, op, rpc, owner, faults>>

\* The parent is live and contained-start is written.
ContainedStart(c) ==
  /\ start[c] = "turn"
  /\ \/ /\ parent.live /\ faults' = faults
        /\ log' = [log EXCEPT ![c] = @ \cup {"start"}] /\ start' = [start EXCEPT ![c] = "logged"]
     \/ /\ (~parent.live /\ faults' = faults) \/ Fault
        /\ log' = log /\ start' = [start EXCEPT ![c] = "undo"]
  /\ UNCHANGED <<parent, cl, counts, ledger, agent, slots, op, rpc, owner>>

\* TreeAdmissionSlot::commit, take, and the insertion into children.
CommitSlot(c) ==
  /\ start[c] = "logged"
  /\ \/ /\ ledger' = [ledger EXCEPT !.accepted = @ + 1] /\ faults' = faults
        /\ counts' = [counts EXCEPT !.accepted = @ + 1, !.pending = @ - 1]
        /\ start' = [start EXCEPT ![c] = "taken"]
     \/ Fault /\ start' = [start EXCEPT ![c] = "undo"] /\ UNCHANGED <<ledger, counts>>
  /\ UNCHANGED <<parent, cl, agent, slots, log, op, rpc, owner>>

\* Mutant: a child that comes late joins the ones already taken for cleanup.
AdmitAlways(c) == [parent EXCEPT !.children = @ \cup {c}, !.pending = @ \ {c}]

\* admit_or_queue, and the permit's release.
Admitted(c) ==
  IF parent.closing \/ ~parent.live
  THEN [parent EXCEPT !.closing = TRUE, !.late = @ \cup {c}, !.pending = @ \ {c}]
  ELSE [parent EXCEPT !.children = @ \cup {c}, !.pending = @ \ {c}]

Admit(c) ==
  /\ start[c] = "taken" /\ start' = [start EXCEPT ![c] = "admitted"]
  /\ parent' = Admitted(c)
  /\ cl' = IF parent.closing \/ ~parent.live THEN Begun(cl) ELSE cl
  /\ UNCHANGED <<counts, ledger, agent, slots, log, op, rpc, owner, faults>>

-----------------------------------------------------------------------------
(* ChildState *)

Accepted(c) == start[c] \in {"taken", "admitted"}
Quiet(c) == agent[c].is # "running"
Cancelled(c) == IF agent[c].is = None THEN agent[c] ELSE [agent[c] EXCEPT !.is = "stopped"]

\* run and wait_for_idle hold the operation until the agent is idle.
Operate(c, kind) ==
  /\ start[c] = "admitted" /\ op[c].by = None /\ ~op[c].terminal
  /\ op' = [op EXCEPT ![c].by = kind]
  /\ UNCHANGED <<parent, cl, counts, ledger, start, agent, slots, log, rpc, owner, faults>>

WaitReturn(c) ==
  /\ op[c].by = "wait" /\ Quiet(c) /\ op' = [op EXCEPT ![c].by = None]
  /\ UNCHANGED <<parent, cl, counts, ledger, start, agent, slots, log, rpc, owner, faults>>

\* dispose cancels at once and queues for the operation: a caller's
\* ("user"), or that of a dropped operation (ChildFutureCleanup, "retry").
RequestDispose(c) ==
  /\ start[c] = "admitted" /\ op[c].want = {} /\ ~op[c].terminal
  /\ op' = [op EXCEPT ![c].want = {"user"}]
  /\ agent' = [agent EXCEPT ![c] = Cancelled(c)]
  /\ UNCHANGED <<parent, cl, counts, ledger, start, slots, log, rpc, owner, faults>>

DropOperation(c) ==
  /\ op[c].by \in {"run", "wait", "user"}
  /\ op' = [op EXCEPT ![c].by = None, ![c].want = @ \cup {"retry"}]
  /\ agent' = [agent EXCEPT ![c] = Cancelled(c)]
  /\ UNCHANGED <<parent, cl, counts, ledger, start, slots, log, rpc, owner, faults>>

\* The operation is free: a kept failure is handed to a caller, a terminal
\* child needs nothing.
TakeOperation(c, by) ==
  /\ by \in op[c].want /\ op[c].by = None
  /\ op' = [op EXCEPT ![c].want = @ \ {by},
                      ![c].by = IF op[c].terminal \/ (by = "user" /\ op[c].failure)
                                THEN None ELSE by,
                      ![c].failure = @ /\ by # "user"]
  /\ UNCHANGED <<parent, cl, counts, ledger, start, agent, slots, log, rpc, owner, faults>>

Finishing(c) == op[c].by \in {"user", "retry", "parent", "rpc"} \/ (op[c].by = "run" /\ Quiet(c))

\* finish: the agent is disposed first; a failure leaves the child live.
FinishDispose(c) ==
  /\ Finishing(c) /\ agent[c].by = "start"
  /\ \/ agent' = [agent EXCEPT ![c] = NoAgent] /\ UNCHANGED <<op, faults, cl>>
     \/ /\ Fault /\ agent' = agent
        /\ op' = [op EXCEPT ![c].by = None,
                            ![c].want = IF op[c].by \in {"retry", "rpc"} THEN @ \cup {op[c].by} ELSE @,
                            ![c].failure = @ \/ op[c].by \in {"retry", "rpc"}]
        /\ cl' = IF op[c].by = "parent" THEN [cl EXCEPT !.failed = @ \cup {c}, !.todo = @ \ {c}] ELSE cl
  /\ UNCHANGED <<parent, counts, ledger, start, slots, log, rpc, owner>>

\* ... then contained-end is written (a refusal only changes the result), the
\* child is terminal and its slot free.
FinishEnd(c) ==
  /\ Finishing(c) /\ agent[c].by # "start"
  /\ \/ log' = [log EXCEPT ![c] = @ \cup {"end"}] /\ faults' = faults
     \/ Fault /\ log' = log
  /\ op' = [op EXCEPT ![c].by = None, ![c].terminal = TRUE]
  /\ Release(c, FALSE)
  /\ cl' = IF op[c].by = "parent" THEN [cl EXCEPT !.todo = @ \ {c}] ELSE cl
  /\ UNCHANGED <<parent, ledger, start, agent, rpc, owner>>

\* A turn of the child ends.
TurnEnd(c) ==
  /\ agent[c].is = "running" /\ agent' = [agent EXCEPT ![c].is = "idle"]
  /\ UNCHANGED <<parent, cl, counts, ledger, start, slots, log, op, rpc, owner, faults>>

-----------------------------------------------------------------------------
(* The parent's cleanup *)

\* The parent is cancelled or disposed, or its capability disposed: the
\* watcher closes and a cleanup begins; a failed one may be begun again.
CloseParent ==
  /\ parent.live \/ (~cl.complete /\ cl.at = None)
  /\ parent' = [parent EXCEPT !.live = FALSE] /\ cl' = Begun(cl)
  /\ UNCHANGED <<counts, ledger, start, agent, slots, log, op, rpc, owner, faults>>

CleanupTake ==
  \/ /\ cl.at = "begin"
     /\ cl' = [cl EXCEPT !.at = "first", !.todo = parent.children, !.failed = {}]
     /\ parent' = [parent EXCEPT !.closing = TRUE, !.children = {}]
  \/ /\ cl.at = "first" /\ cl.todo = {} /\ parent.pending = {}
     /\ cl' = [cl EXCEPT !.at = "second", !.todo = parent.late]
     /\ parent' = [parent EXCEPT !.late = {}]
  \/ /\ cl.at = "second" /\ cl.todo = {}
     /\ cl' = [at |-> None, todo |-> {}, failed |-> {}, complete |-> cl.failed = {}]
     /\ parent' = [parent EXCEPT !.children = @ \cup cl.failed]

CleanupStep ==
  /\ CleanupTake
  /\ UNCHANGED <<counts, ledger, start, agent, slots, log, op, rpc, owner, faults>>

\* dispose(false) of the next child: cancelled at once, then the operation.
CleanupChild(c) ==
  /\ c \in cl.todo /\ op[c].by # "parent"
  /\ \/ /\ agent[c].by = "start" /\ agent[c].is # "stopped"
        /\ agent' = [agent EXCEPT ![c] = Cancelled(c)] /\ UNCHANGED <<op, cl>>
     \/ /\ agent[c].by = "start" => agent[c].is = "stopped"
        /\ op[c].by = None /\ agent' = agent
        /\ IF op[c].failure
           THEN /\ op' = [op EXCEPT ![c].failure = FALSE]
                /\ cl' = [cl EXCEPT !.todo = @ \ {c}, !.failed = @ \cup {c}]
           ELSE IF op[c].terminal THEN op' = op /\ cl' = [cl EXCEPT !.todo = @ \ {c}]
           ELSE op' = [op EXCEPT ![c].by = "parent"] /\ cl' = cl
  /\ UNCHANGED <<parent, counts, ledger, start, slots, log, rpc, owner, faults>>

-----------------------------------------------------------------------------
(* RPC: prompt and interrupt *)

Holding == {"check", "setup", "send", "retire", "delete"}

\* rpc_operation: one prompt, or its cleanup, at a time for a child.
Unlocked(c) == \A p \in Prompts : rpc[p].of = c => rpc[p].at \notin Holding

PromptBegin(p, c) ==
  /\ rpc[p].at = None /\ "start" \in log[c] /\ "deleted" \notin log[c]
  /\ parent.live /\ Unlocked(c)
  /\ rpc' = [rpc EXCEPT ![p] = [at |-> "check", of |-> c, gen |-> None]]
  /\ UNCHANGED <<parent, cl, counts, ledger, start, agent, slots, log, op, owner, faults>>

PromptFails(p) == rpc' = [rpc EXCEPT ![p].at = "done"]

\* A live child is used as it is; a cancelled one is disposed first.
PromptCheck(p) ==
  LET c == rpc[p].of IN
  /\ rpc[p].at = "check"
  /\ CASE agent[c].is \in {"running", "idle"} ->
            /\ rpc' = [rpc EXCEPT ![p].at = "send", ![p].gen = agent[c].by]
            /\ UNCHANGED <<counts, slots, op, owner, agent>>
       [] agent[c].is = "stopped" /\ agent[c].by = "start" /\ Accepted(c) ->
            /\ op' = [op EXCEPT ![c].want = @ \cup {"user"}]
            /\ UNCHANGED <<counts, slots, owner, agent, rpc>>
       [] agent[c].is = "stopped" /\ agent[c].by # "start" ->
            /\ agent' = [agent EXCEPT ![c] = NoAgent] /\ owner' = [owner EXCEPT ![c] = None]
            /\ IF owner[c] = None THEN UNCHANGED <<slots, counts>> ELSE Release(owner[c], FALSE)
            /\ UNCHANGED <<op, rpc>>
       [] agent[c].is = None ->
            /\ IF Fits(FALSE)
               THEN /\ counts' = Counted(FALSE) /\ slots' = slots \cup {p}
                    /\ rpc' = [rpc EXCEPT ![p].at = "setup"]
               ELSE PromptFails(p) /\ UNCHANGED <<counts, slots>>
            /\ UNCHANGED <<op, owner, agent>>
       [] OTHER -> PromptFails(p) /\ UNCHANGED <<counts, slots, op, owner, agent>>
  /\ UNCHANGED <<parent, cl, ledger, start, log, faults>>

\* resume_continuable_child: the agent is set up and owned, or not.
PromptSetup(p) ==
  LET c == rpc[p].of IN
  /\ rpc[p].at = "setup"
  /\ \/ /\ agent[c] = NoAgent
        /\ agent' = [agent EXCEPT ![c] = [by |-> p, is |-> "idle"]]
        /\ owner' = [owner EXCEPT ![c] = p] /\ rpc' = [rpc EXCEPT ![p].at = "send", ![p].gen = p]
        /\ UNCHANGED <<counts, slots>>
     \/ PromptFails(p) /\ Release(p, FALSE) /\ UNCHANGED <<agent, owner>>
  /\ UNCHANGED <<parent, cl, ledger, start, log, op, faults>>

\* The prompt is dropped while the provider sets the agent up: the lock of the
\* child is free, the spawned task goes on and disposes what it gets.
PromptDrop(p) ==
  /\ rpc[p].at = "setup" /\ rpc' = [rpc EXCEPT ![p].at = "orphan"]
  /\ UNCHANGED <<parent, cl, counts, ledger, start, agent, slots, log, op, owner, faults>>

OrphanSetup(p) ==
  LET c == rpc[p].of IN
  /\ rpc[p].at = "orphan"
  /\ \/ /\ agent[c] = NoAgent /\ agent' = [agent EXCEPT ![c] = [by |-> p, is |-> "idle"]]
        /\ rpc' = [rpc EXCEPT ![p].at = "undo"] /\ UNCHANGED <<counts, slots>>
     \/ PromptFails(p) /\ Release(p, FALSE) /\ UNCHANGED agent
  /\ UNCHANGED <<parent, cl, ledger, start, log, op, owner, faults>>

\* The inbox event and followup; a failure leaves a resumed agent to
\* RpcPromptCleanup.
PromptSend(p) ==
  LET c == rpc[p].of IN
  /\ rpc[p].at = "send"
  /\ \/ /\ agent[c].by = rpc[p].gen /\ agent[c].is \in {"idle", "running"}
        /\ agent' = [agent EXCEPT ![c].is = "running"]
        /\ rpc' = [rpc EXCEPT ![p].at = "sent"] /\ UNCHANGED <<owner, faults>>
     \/ /\ (agent[c].by = rpc[p].gen /\ agent[c].is # "stopped" /\ Fault)
           \/ ((agent[c].by # rpc[p].gen \/ agent[c].is = "stopped") /\ faults' = faults)
        /\ IF rpc[p].gen = p /\ owner[c] = p
           THEN /\ owner' = [owner EXCEPT ![c] = None] /\ rpc' = [rpc EXCEPT ![p].at = "undo"]
                /\ agent' = [agent EXCEPT ![c] = IF @.by = p THEN Cancelled(c) ELSE @]
           ELSE PromptFails(p) /\ UNCHANGED <<owner, agent>>
  /\ UNCHANGED <<parent, cl, counts, ledger, start, slots, log, op>>

\* RpcPromptCleanup disposes the agent and drops its slot.
PromptUndo(p) ==
  LET c == rpc[p].of IN
  /\ rpc[p].at = "undo" /\ PromptFails(p) /\ Release(p, FALSE)
  /\ agent' = [agent EXCEPT ![c] = IF @.by = p THEN NoAgent ELSE @]
  /\ UNCHANGED <<parent, cl, ledger, start, log, op, owner, faults>>

DropOwner(c) ==
  /\ owner' = [owner EXCEPT ![c] = None]
  /\ IF owner[c] = None THEN UNCHANGED <<slots, counts>> ELSE Release(owner[c], FALSE)

\* The spawned cleanup: idle, the lock taken again, the same agent still idle.
PromptIdle(p) ==
  LET c == rpc[p].of IN
  /\ rpc[p].at = "sent" /\ Unlocked(c)
  /\ agent[c].by = rpc[p].gen => Quiet(c)
  /\ CASE agent[c] = NoAgent -> PromptFails(p) /\ DropOwner(c) /\ op' = op
       [] agent[c].by # rpc[p].gen -> PromptFails(p) /\ UNCHANGED <<owner, slots, counts, op>>
       [] OTHER ->
            IF agent[c].by = "start" /\ Accepted(c)
            THEN /\ op' = [op EXCEPT ![c].want = @ \cup {"rpc"}] /\ PromptFails(p) /\ DropOwner(c)
            ELSE rpc' = [rpc EXCEPT ![p].at = "retire"] /\ UNCHANGED <<owner, slots, counts, op>>
  /\ agent' = [agent EXCEPT ![c] = IF @.by = rpc[p].gen /\ @.by = "start" THEN Cancelled(c) ELSE @]
  /\ UNCHANGED <<parent, cl, ledger, start, log, faults>>

\* The owner's, or the current, agent is disposed, then the slot dropped.
PromptRetire(p) ==
  LET c == rpc[p].of IN
  /\ rpc[p].at = "retire" /\ PromptFails(p)
  /\ agent' = [agent EXCEPT ![c] = NoAgent] /\ DropOwner(c)
  /\ UNCHANGED <<parent, cl, ledger, start, log, op, faults>>

\* delete: the child is listed as ready, then its log is deleted.
DeleteCheck(p, c) ==
  /\ rpc[p].at = None /\ "start" \in log[c] /\ "deleted" \notin log[c] /\ Unlocked(c)
  /\ rpc' = [rpc EXCEPT ![p] = [at |-> IF agent[c] = NoAgent THEN "delete" ELSE "done",
                               of |-> c, gen |-> None]]
  /\ UNCHANGED <<parent, cl, counts, ledger, start, agent, slots, log, op, owner, faults>>

DeleteCommit(p) ==
  LET c == rpc[p].of IN
  /\ rpc[p].at = "delete" /\ PromptFails(p) /\ DropOwner(c)
  /\ log' = [log EXCEPT ![c] = @ \cup {"deleted"}]
  /\ UNCHANGED <<parent, cl, ledger, start, agent, op, faults>>

\* interrupt: cancel_including_idle(Parent)
Interrupt(c) ==
  /\ parent.live /\ agent[c].is \in {"idle", "running"} /\ "start" \in log[c]
  /\ agent' = [agent EXCEPT ![c] = Cancelled(c)]
  /\ UNCHANGED <<parent, cl, counts, ledger, start, slots, log, op, rpc, owner, faults>>

Next ==
  \/ \E c \in Children :
       \/ ReserveAdmission(c) \/ InitializeTree(c) \/ ReserveSlot(c) \/ ProviderStart(c)
       \/ Abandon(c) \/ Undo(c) \/ InitialMessage(c) \/ ContainedStart(c) \/ CommitSlot(c)
       \/ Admit(c) \/ WaitReturn(c) \/ RequestDispose(c) \/ DropOperation(c)
       \/ FinishDispose(c) \/ FinishEnd(c) \/ TurnEnd(c) \/ CleanupChild(c) \/ Interrupt(c)
       \/ \E kind \in {"run", "wait"} : Operate(c, kind)
       \/ \E by \in {"user", "retry", "rpc"} : TakeOperation(c, by)
  \/ CloseParent \/ CleanupStep
  \/ \E p \in Prompts :
       \/ PromptCheck(p) \/ PromptSetup(p) \/ PromptDrop(p) \/ OrphanSetup(p) \/ PromptSend(p)
       \/ PromptUndo(p) \/ PromptIdle(p) \/ PromptRetire(p) \/ DeleteCommit(p)
       \/ \E c \in Children : PromptBegin(p, c) \/ DeleteCheck(p, c)

Spec == Init /\ [][Next]_vars

-----------------------------------------------------------------------------
\* The tree's limits hold of agents and of the durable ledger, not only of the
\* counters: every agent a start or a prompt set up holds a slot of its own
\* until it is disposed, there are as many slots as the counter says, and the
\* tree never records more creations than its limit (TreeAdmissionState,
\* PendingAgentCleanup, ChildState::finish, RpcOwner).
TreeLimitsHold ==
  /\ Cardinality(slots) = counts.live
  /\ \A c \in Children : agent[c].is # None =>
       (IF agent[c].by = "start" THEN c ELSE agent[c].by) \in slots
  /\ Cardinality({c \in Children : agent[c].is # None}) <= MaxLive
  /\ ledger.baseline >= 0 => ledger.baseline + ledger.accepted <= MaxCreations

\* A completed cleanup of the parent has joined every child its generation
\* accepted, the ones whose start was under way included: none is live and
\* none can become so.  An accepted child is terminal only with its agent
\* gone, and a child whose log is deleted has no agent and gets none but the
\* one a dropped prompt's set-up still brings, which its task then disposes
\* (cleanup_parent_children, admit_or_queue, finish, delete,
\* supervise_provider_start).
CleanupJoinsChildren ==
  /\ cl.complete => /\ parent.pending = {} /\ parent.late = {}
                    /\ \A c \in Children : Accepted(c) => op[c].terminal
  /\ \A c \in Children : op[c].terminal => agent[c].by # "start" /\ op[c].by = None
  /\ \A c \in Children : "end" \in log[c] => "start" \in log[c]
  /\ \A c \in Children : "deleted" \in log[c] =>
       agent[c] = NoAgent \/ \E p \in Prompts : agent[c].by = p /\ rpc[p].at = "undo"
=============================================================================
