------------------------------ MODULE TurnLog ------------------------------
(***************************************************************************)
(* The turn and step boundaries an agent driver writes to its session log  *)
(* (src/src/agent_loop.rs, run_turn and run_tools), cancellation racing    *)
(* with its appends, crashes, and the restoration that closes or refuses   *)
(* an orphaned turn (src/src/session.rs, restore and                       *)
(* interrupted_turn_closers).                                              *)
(*                                                                         *)
(* The driver alternates: at a decision point it reads the cancellation    *)
(* and the model's or the tools' outcome and chooses the next event; the   *)
(* append of that event is an action of its own.  append picks the agent's *)
(* cancellation or, if it fired already, a token that never fires; so only *)
(* a cancellation between the two makes the append fail, and an append     *)
(* that fails makes run_turn return at once.                               *)
(*                                                                         *)
(* Provider chunks and the text of events are left out, and of the events  *)
(* the model log keeps those that bound turns, steps and tool calls.        *)
(***************************************************************************)
EXTENDS Integers, Sequences, FiniteSetsExt

CONSTANTS
  MaxTurns,      \* bound on turns
  MaxSteps,      \* the driver's max_steps
  MaxCalls,      \* the most tool calls of one answer
  MaxRetries,    \* the provider's retry budget
  MaxStops,      \* bound on cancellations and crashes
  Faults,        \* whether persistence, the claim or the assembly may fail
  RestoreModes   \* how sessions are restored after a crash

ASSUME TurnAssumption ==
  /\ MaxTurns \in Nat /\ MaxSteps \in Nat \ {0} /\ MaxCalls \in Nat
  /\ MaxRetries \in Nat /\ MaxStops \in Nat /\ Faults \in BOOLEAN
  /\ RestoreModes \subseteq {"live", "metadata", "cold"}

VARIABLES
  log,        \* the committed events of the types in Kept
  session,    \* "down", "restoring" or "resident"
  cancelled,  \* the agent's cancellation token
  driver,     \* where run_turn is: control point, turn, step, tool calls, retries
  writing,    \* the append in flight
  closers,    \* what a cold restoration has yet to append
  ran,        \* history: the calls of the last step that began to execute
  stops

vars == <<log, session, cancelled, driver, writing, closers, ran, stops>>

Event(type, turn, step) == [type |-> type, turn |-> turn, step |-> step]

Message(turn, step, calls, finish) ==
  [type |-> "assistant/message", turn |-> turn, step |-> step, calls |-> calls, finish |-> finish]

ToolCallEvent(turn, step, call) ==
  [type |-> "tool/call", turn |-> turn, step |-> step, call |-> call]

ToolResult(turn, step, call, outcome) ==
  [type |-> "tool/result", turn |-> turn, step |-> step, call |-> call, outcome |-> outcome]

\* A tool call's id; the model's answer announces the calls 1..calls of its step.
Call(turn, step, i) == <<turn, step, i>>

NoAppend == [event |-> Event("none", 0, 0), then |-> "idle", shielded |-> FALSE]

At(pc) == [pc |-> pc, turn |-> 0, step |-> 0, calls |-> 0, next |-> 0, retries |-> 0]

Init ==
  /\ log = <<>> /\ session = "resident" /\ cancelled = FALSE
  /\ driver = At("idle") /\ writing = NoAppend /\ closers = <<>> /\ ran = {} /\ stops = 0

-----------------------------------------------------------------------------
(* The log *)

\* Mutant: one more than the number of turns closed.
NextTurnClosed == Len(SelectSeq(log, LAMBDA e : e.type = "turn/end")) + 1

\* next_turn: one more than the greatest turn started.
NextTurn ==
  Max({0} \cup {log[i].turn : i \in {j \in DOMAIN log : log[j].type = "turn/start"}}) + 1

NothingOpen == [turn |-> 0, step |-> 0, pending |-> <<>>]

\* Vec::retain: the elements of a sequence that lie in a set, in their order.
Filter(s, S) ==
  LET keep[i \in 0..Len(s)] ==
        IF i = 0 THEN <<>> ELSE IF s[i] \in S THEN Append(keep[i - 1], s[i]) ELSE keep[i - 1]
  IN keep[Len(s)]

\* The retain after a tool result.
WithoutCall(pending, call) ==
  Filter(pending, {p \in {pending[i] : i \in DOMAIN pending} : p.call # call})

\* The scan of interrupted_turn_closers.
Scan(open, e) ==
  CASE e.type = "turn/start" -> [turn |-> e.turn, step |-> 0, pending |-> <<>>]
    [] e.type = "turn/end"   -> NothingOpen
    [] e.type = "step/start" -> [open EXCEPT !.step = e.step]
    [] e.type = "step/end"   -> [open EXCEPT !.step = 0, !.pending = <<>>]
    [] e.type = "assistant/message" ->
         [open EXCEPT !.pending = @ \o [i \in 1..e.calls |->
            [call |-> Call(e.turn, e.step, i), step |-> e.step, started |-> FALSE]]]
    [] e.type = "tool/call" ->
         [open EXCEPT !.pending = [i \in DOMAIN @ |->
            IF @[i].call = e.call THEN [@[i] EXCEPT !.started = TRUE] ELSE @[i]]]
    [] e.type = "tool/result" -> [open EXCEPT !.pending = WithoutCall(@, e.call)]
    [] OTHER -> open

\* Mutants: the scan overlooks the results, or the calls that were started.
OpenAnswered(l) ==
  LET scan[n \in 0..Len(l)] ==
        IF n = 0 THEN NothingOpen
        ELSE IF l[n].type = "tool/result" THEN scan[n - 1] ELSE Scan(scan[n - 1], l[n])
  IN scan[Len(l)]

OpenStarted(l) ==
  LET scan[n \in 0..Len(l)] ==
        IF n = 0 THEN NothingOpen
        ELSE IF l[n].type = "tool/call" THEN scan[n - 1] ELSE Scan(scan[n - 1], l[n])
  IN scan[Len(l)]

\* The open turn and step of a log, 0 for none, and the unanswered calls.
Open(l) ==
  LET scan[n \in 0..Len(l)] == IF n = 0 THEN NothingOpen ELSE Scan(scan[n - 1], l[n])
  IN scan[Len(l)]

\* An unanswered call gets a result that says whether it was started.
ResultFor(open, p) ==
  ToolResult(open.turn, p.step, p.call, IF p.started THEN "unknown" ELSE "not-started")

StepEnd(open) == IF open.step = 0 THEN <<>> ELSE <<Event("step/end", open.turn, open.step)>>

\* Mutants: the closers leave the step open, or the calls unanswered.
ClosersWithoutStep(open) ==
  IF open.turn = 0 THEN <<>>
  ELSE [i \in DOMAIN open.pending |-> ResultFor(open, open.pending[i])]
       \o <<Event("turn/end", open.turn, 0)>>

ClosersWithoutResults(open) ==
  IF open.turn = 0 THEN <<>> ELSE StepEnd(open) \o <<Event("turn/end", open.turn, 0)>>

\* Every unanswered call gets a result, then the step and the turn are closed.
ClosersOf(open) ==
  IF open.turn = 0 THEN <<>>
  ELSE [i \in DOMAIN open.pending |-> ResultFor(open, open.pending[i])]
       \o StepEnd(open) \o <<Event("turn/end", open.turn, 0)>>

InterruptedTurnClosers(l) == ClosersOf(Open(l))

-----------------------------------------------------------------------------
(* The driver's appends *)

\* append, up to the choice of the token: the event, where run_turn goes on
\* after it, and whether the chosen token can no longer fire.
Submit(event, then) ==
  /\ driver' = [driver EXCEPT !.pc = "append"]
  /\ writing' = [event |-> event, then |-> then, shielded |-> cancelled]
  /\ UNCHANGED <<log, session, cancelled, closers, ran, stops>>

Here(type) == Event(type, driver.turn, driver.step)

\* run_turn moves on or, at "idle", returns, without writing anything.
GoTo(d) ==
  /\ driver' = d
  /\ UNCHANGED <<log, session, cancelled, writing, closers, ran, stops>>

\* end_turn
EndTurn == Submit(Event("turn/end", driver.turn, 0), "idle")

\* close_step, then end_turn (close_cancelled_step among others).
CloseTurn == Submit(Here("step/end"), "end")

Kept == {"turn/start", "turn/end", "step/start", "step/end",
         "assistant/message", "tool/call", "tool/result"}

Commit ==
  /\ driver.pc = "append"
  /\ log' = IF writing.event.type \in Kept THEN Append(log, writing.event) ELSE log
  /\ driver' = [driver EXCEPT !.pc = writing.then]
  /\ writing' = NoAppend
  /\ UNCHANGED <<session, cancelled, closers, ran, stops>>

\* The append fails and with it run_turn; the drive loop only notes the error.
Refuse ==
  /\ driver.pc = "append"
  /\ Faults \/ (cancelled /\ ~writing.shielded)
  /\ driver' = At("idle") /\ writing' = NoAppend
  /\ UNCHANGED <<log, session, cancelled, closers, ran, stops>>

-----------------------------------------------------------------------------
(* run_turn *)

\* drive claims a message and starts a turn on it, unless it is cancelled.
Begin ==
  /\ session = "resident" /\ driver.pc = "idle" /\ ~cancelled /\ NextTurn <= MaxTurns
  /\ driver' = [At("append") EXCEPT !.turn = NextTurn, !.step = 1]
  /\ writing' = [event |-> Event("turn/start", NextTurn, 0), then |-> "step", shielded |-> FALSE]
  /\ ran' = {}
  /\ UNCHANGED <<log, session, cancelled, closers, stops>>

StepStart ==
  /\ driver.pc = "step"
  /\ IF cancelled THEN EndTurn ELSE Submit(Here("step/start"), "input")

\* The step's messages and the context that goes with them.
Input ==
  /\ driver.pc = "input"
  /\ Submit(Here("user/message"), "request")

\* Claiming the step's messages, loading skills or assembling the prompt fails:
\* run_turn returns the error.
StepError ==
  /\ driver.pc \in {"input", "request"} /\ Faults
  /\ GoTo(At("idle"))

\* request/header and request/context; a failed compaction closes the turn.
Request ==
  /\ driver.pc = "request"
  /\ IF cancelled THEN CloseTurn ELSE CloseTurn \/ Submit(Here("request"), "generate")

\* The provider fails: a retry while the budget lasts, otherwise the turn is
\* closed.  A context overflow is tried again after a compaction, once a step
\* in the code and uncounted here.  A chunk that cannot be appended is such a
\* failure too.  The budget spent is the number of llm/retry events of this
\* turn and step in the log; no other run_turn wrote any, since no two have
\* the same turn number.
GenerateFailed ==
  /\ driver.pc = "generate"
  /\ \/ /\ ~cancelled /\ driver.retries < MaxRetries
        /\ driver' = [driver EXCEPT !.pc = "append", !.retries = @ + 1]
        /\ writing' = [event |-> Here("llm/retry"), then |-> "retry", shielded |-> FALSE]
        /\ UNCHANGED <<log, session, cancelled, closers, ran, stops>>
     \/ CloseTurn
     \/ Submit(Here("user/message"), "generate")

\* After the delay, which a cancellation cuts short.
Retry ==
  /\ driver.pc = "retry"
  /\ IF cancelled THEN CloseTurn ELSE Submit(Here("llm/retry-started"), "generate")

\* The provider answers.  How the step goes on depends on the finish reason
\* alone: an answer cut off at max-tokens, or a stop, may hold complete tool
\* calls, which are then not run.  (The log has the reason in the last chunk;
\* the model keeps it with the message.)
Generated ==
  /\ driver.pc = "generate"
  /\ IF cancelled THEN CloseTurn
     ELSE \E n \in 0..MaxCalls, finish \in {"call", "stop", "max-tokens"} :
            /\ driver' = [driver EXCEPT !.pc = "append", !.calls = n, !.next = 1, !.retries = 0]
            /\ writing' = [event |-> Message(driver.turn, driver.step, n, finish),
                           then |-> finish, shielded |-> FALSE]
            /\ UNCHANGED <<log, session, cancelled, closers, ran, stops>>

MaxTokens ==
  /\ driver.pc = "max-tokens"
  /\ CloseTurn

\* run_tools records every call before it executes any ...
ToolCall ==
  /\ driver.pc = "call"
  /\ IF driver.next > driver.calls
     THEN GoTo([driver EXCEPT !.pc = "execute", !.next = 1])
     ELSE /\ driver' = [driver EXCEPT !.pc = "append", !.next = @ + 1]
          /\ writing' = [event |-> ToolCallEvent(driver.turn, driver.step,
                                     Call(driver.turn, driver.step, driver.next)),
                         then |-> "call", shielded |-> cancelled]
          /\ UNCHANGED <<log, session, cancelled, closers, ran, stops>>

\* ... executes them in parallel, in any order (a call with bad arguments, or
\* one denied or cancelled, returns without having run) ...
ToolRun ==
  /\ driver.pc = "execute"
  /\ \E i \in 1..driver.calls :
       /\ Call(driver.turn, driver.step, i) \notin ran
       /\ ran' = ran \cup {Call(driver.turn, driver.step, i)}
  /\ UNCHANGED <<log, session, cancelled, driver, writing, closers, stops>>

ToolsReturned ==
  /\ driver.pc = "execute"
  /\ GoTo([driver EXCEPT !.pc = "result"])

\* ... and records their results in the order of the calls, then closes the step.
ToolResultStep ==
  /\ driver.pc = "result"
  /\ IF driver.next > driver.calls
     THEN Submit(Here("step/end"), "tools-done")
     ELSE /\ driver' = [driver EXCEPT !.pc = "append", !.next = @ + 1]
          /\ writing' = [event |-> ToolResult(driver.turn, driver.step,
                                     Call(driver.turn, driver.step, driver.next), "returned"),
                         then |-> "result", shielded |-> cancelled]
          /\ UNCHANGED <<log, session, cancelled, closers, ran, stops>>

NextStep ==
  /\ driver' = [driver EXCEPT !.pc = "step", !.step = @ + 1, !.calls = 0, !.next = 0, !.retries = 0]
  /\ ran' = {}
  /\ UNCHANGED <<log, session, cancelled, writing, closers, stops>>

\* A tool may have asked to leave plan mode.
ToolsDone ==
  /\ driver.pc = "tools-done"
  /\ \/ GoTo([driver EXCEPT !.pc = "tools-end"])
     \/ Submit(Here("plan/mode"), "tools-end")

\* Mutant: the turn goes on past max_steps.
ToolsEndUnbounded ==
  /\ driver.pc = "tools-end"
  /\ IF cancelled THEN EndTurn ELSE NextStep

\* After tool calls: another step, unless cancelled or out of steps.
ToolsEnd ==
  /\ driver.pc = "tools-end"
  /\ IF cancelled \/ driver.step = MaxSteps THEN EndTurn ELSE NextStep

\* After an answer without calls the step is closed; the turn is over unless
\* next-step messages are waiting.
Stop ==
  /\ driver.pc = "stop"
  /\ Submit(Here("step/end"), "stopped")

Stopped ==
  /\ driver.pc = "stopped"
  /\ EndTurn \/ (~cancelled /\ driver.step < MaxSteps /\ NextStep)

End ==
  /\ driver.pc = "end"
  /\ EndTurn

-----------------------------------------------------------------------------
(* Cancellation, crash, restoration *)

Cancel ==
  /\ driver.pc # "idle" /\ ~cancelled /\ stops < MaxStops
  /\ cancelled' = TRUE /\ stops' = stops + 1
  /\ UNCHANGED <<log, session, driver, writing, closers, ran>>

\* The cancelled agent is disposed of; the session stays resident and gets
\* another agent.
NewAgent ==
  /\ cancelled /\ driver.pc = "idle"
  /\ cancelled' = FALSE
  /\ UNCHANGED <<log, session, driver, writing, closers, ran, stops>>

Crash ==
  /\ session # "down" /\ stops < MaxStops
  /\ stops' = stops + 1 /\ session' = "down"
  /\ cancelled' = FALSE /\ driver' = At("idle") /\ writing' = NoAppend /\ closers' = <<>>
  /\ UNCHANGED <<log, ran>>

\* SessionStore::restore.  Live refuses an orphaned turn, Metadata takes the
\* log as it is, Cold first appends what closes the turn.
Restore(mode) ==
  LET missing == InterruptedTurnClosers(log)
  IN /\ session = "down"
     /\ mode = "live" => missing = <<>>
     /\ IF mode = "cold" /\ missing # <<>>
        THEN session' = "restoring" /\ closers' = missing
        ELSE session' = "resident" /\ UNCHANGED closers
     /\ UNCHANGED <<log, cancelled, driver, writing, ran, stops>>

CloserAppend ==
  /\ session = "restoring"
  /\ log' = Append(log, Head(closers)) /\ closers' = Tail(closers)
  /\ session' = IF Len(closers) = 1 THEN "resident" ELSE session
  /\ UNCHANGED <<cancelled, driver, writing, ran, stops>>

\* An append of the restoration fails, and the restoration with it.
CloserRefused ==
  /\ session = "restoring" /\ Faults
  /\ session' = "down" /\ closers' = <<>>
  /\ UNCHANGED <<log, cancelled, driver, writing, ran, stops>>

-----------------------------------------------------------------------------
DriverNext ==
  \/ Commit
  \/ Refuse
  \/ Begin
  \/ StepStart
  \/ Input
  \/ StepError
  \/ Request
  \/ GenerateFailed
  \/ Retry
  \/ Generated
  \/ MaxTokens
  \/ ToolCall
  \/ ToolRun
  \/ ToolsReturned
  \/ ToolResultStep
  \/ ToolsDone
  \/ ToolsEnd
  \/ Stop
  \/ Stopped
  \/ End

RestoreNext ==
  \/ \E mode \in RestoreModes : Restore(mode)
  \/ CloserAppend
  \/ CloserRefused

Next == DriverNext \/ Cancel \/ NewAgent \/ Crash \/ RestoreNext

Spec == Init /\ [][Next]_vars

-----------------------------------------------------------------------------
(* Properties *)

\* Events name turns and steps in range, the driver never exceeds max_steps or
\* its retry budget, and it runs only on a resident session.
TypeOK ==
  /\ \A i \in DOMAIN log : log[i].turn \in 1..MaxTurns /\ log[i].step \in 0..MaxSteps
  /\ session \in {"down", "restoring", "resident"}
  /\ cancelled \in BOOLEAN /\ stops \in 0..MaxStops
  /\ driver.pc \in {"idle", "append", "step", "input", "request", "generate", "retry", "call", "max-tokens",
                    "execute", "result", "tools-done", "tools-end", "stop", "stopped", "end"}
  /\ driver.turn \in 0..MaxTurns /\ driver.step \in 0..MaxSteps
  /\ driver.calls \in 0..MaxCalls /\ driver.retries \in 0..MaxRetries
  /\ session # "resident" => driver.pc = "idle"
  /\ session = "restoring" <=> closers # <<>>

\* Whatever was cancelled, lost or restored before, a turn gets a number no
\* earlier turn had, so events of different turns are never mixed up.
TurnNumbersIncrease ==
  \A i \in DOMAIN log : log[i].type = "turn/start" =>
    \A j \in 1..(i - 1) : log[j].turn < log[i].turn

\* The index of the last event before i of one of these types, 0 if there is none.
LastOf(types, i) == Max({0} \cup {j \in 1..(i - 1) : log[j].type \in types})

\* A step/end closes the open step and a turn/end the open turn, once: neither
\* the driver nor a repeated or resumed restoration closes anything twice, and
\* no turn is closed over a step that is still open.
ClosesMatch ==
  \A i \in DOMAIN log :
    LET t == LastOf({"turn/start", "turn/end"}, i)
        s == LastOf({"turn/start", "step/start", "step/end"}, i)
    IN /\ log[i].type = "step/end" =>
            s # 0 /\ log[s] = Event("step/start", log[i].turn, log[i].step)
       /\ log[i].type = "turn/end" =>
            /\ t # 0 /\ log[t] = Event("turn/start", log[i].turn, 0)
            /\ s # 0 /\ log[s].type # "step/start"

\* Every tool result answers a call of its own turn and step announced before
\* it, and no call is answered twice, although a crash may cut a restoration
\* short and another one starts over.
OneResultPerCall ==
  \A i \in DOMAIN log : log[i].type = "tool/result" =>
    /\ \E j \in 1..(i - 1) :
         /\ log[j].type = "assistant/message"
         /\ log[j].turn = log[i].turn /\ log[j].step = log[i].step
         /\ log[i].call \in {Call(log[j].turn, log[j].step, n) : n \in 1..log[j].calls}
    /\ \A j \in 1..(i - 1) : log[j].type = "tool/result" => log[j].call # log[i].call

\* The model is told that an interrupted call was not started, and may be
\* retried, only if the tool has not run.
NotStartedNeverRan ==
  \A i \in DOMAIN log :
    log[i].type = "tool/result" /\ log[i].outcome = "not-started" => log[i].call \notin ran

Answered(call) == \E i \in DOMAIN log : log[i].type = "tool/result" /\ log[i].call = call

\* A cold restoration hands out the session with its last turn closed and
\* every call that this turn was to run answered.
ColdRestoreCloses ==
  [][session = "restoring" /\ session' = "resident" =>
       LET start == LastOf({"turn/start"}, Len(log) + 1)
       IN /\ log'[Len(log')].type = "turn/end"
          /\ \A i \in start..Len(log) : log[i].type = "assistant/message" /\ log[i].finish = "call" =>
               \A n \in 1..log[i].calls : Answered(Call(log[i].turn, log[i].step, n))]_vars

\* When run_turn has returned, its turn is closed.
NoHalfOpenTurn == session = "resident" /\ driver.pc = "idle" => Open(log).turn = 0
=============================================================================
