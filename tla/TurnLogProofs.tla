--------------------------- MODULE TurnLogProofs ---------------------------
(***************************************************************************)
(* Proofs about TurnLog, for every value of its constants.                 *)
(*                                                                         *)
(* The properties of the log are not inductive: whether the next append    *)
(* keeps them depends on what interrupted_turn_closers would find open in  *)
(* the log (LogInv, in TurnLogAppends) and on where run_turn is.  IInv     *)
(* therefore adds                                                          *)
(*   - DriverMatchesLog: at each control point of run_turn, what is open;  *)
(*   - ClosersMatchLog: what a restoration has yet to append is what the   *)
(*     log as it is now still needs;                                       *)
(*   - TurnsStarted and StepsSoFar: no event of a turn or a step that was  *)
(*     not reached, so a new one has no event yet.                         *)
(***************************************************************************)
EXTENDS TurnLogAppends

\* Time, and further attempts, for a leaf on a loaded machine.
USE SMTT(30), ZenonT(30), SMTT(40), SMTT(50), SMTT(60)

\* The calls k+1..n of the driver's step, those up to m recorded as started.
CallsFrom(k, n, m) ==
  [i \in 1..(n - k) |->
     [call |-> Call(driver.turn, driver.step, k + i), step |-> driver.step, started |-> k + i <= m]]

\* What is open is this step of the driver's turn, with these calls pending.
OpenIs(step, pending) == open = [turn |-> driver.turn, step |-> step, pending |-> pending]

\* No call of the driver's step was announced, answered or run.
FreshStep ==
  /\ ran = {}
  /\ \A i \in DOMAIN log :
       log[i].type \in {"assistant/message", "tool/result"} =>
         ~(log[i].turn = driver.turn /\ log[i].step = driver.step)

\* The driver's step was answered by a message whose calls are not run.
CallsNotWanted ==
  \A i \in DOMAIN log :
    log[i].type = "assistant/message" /\ log[i].turn = driver.turn /\ log[i].step = driver.step =>
      log[i].finish # "call"

\* Between two steps; in a step whose request is not answered; in an answered step.
Between == OpenIs(0, <<>>)
Fresh == OpenIs(driver.step, <<>>) /\ FreshStep
Answering == open.turn = driver.turn /\ open.step = driver.step

\* The event being written fits what is open, and what the driver does after it.
BeforeAppend ==
  LET e == writing.event
      then == writing.then
  IN \/ /\ e = Event("turn/start", driver.turn, 0) /\ then = "step"
        /\ \A i \in DOMAIN log : log[i].turn < driver.turn
        /\ ran = {} /\ driver.step = 1
     \/ /\ e = Event("turn/end", driver.turn, 0) /\ then = "idle" /\ Between
     \/ /\ e = Here("step/start") /\ then = "input" /\ Between /\ FreshStep
     \/ /\ e = Here("step/end") /\ then \in {"end", "tools-done", "stopped"} /\ Answering
        /\ open.pending = <<>> \/ CallsNotWanted
     \/ /\ e \in {Here("user/message"), Here("request"), Here("llm/retry"), Here("llm/retry-started")}
        /\ then \in {"request", "generate", "retry"} /\ Fresh
     \/ /\ e = Here("plan/mode") /\ then = "tools-end" /\ Between
     \/ /\ e = Message(driver.turn, driver.step, driver.calls, then)
        /\ then \in {"call", "stop", "max-tokens"} /\ driver.next = 1 /\ Fresh
     \/ /\ e = ToolCallEvent(driver.turn, driver.step, Call(driver.turn, driver.step, driver.next - 1))
        /\ then = "call" /\ driver.next - 1 \in 1..driver.calls /\ ran = {}
        /\ OpenIs(driver.step, CallsFrom(0, driver.calls, driver.next - 2))
     \/ /\ e = ToolResult(driver.turn, driver.step,
                          Call(driver.turn, driver.step, driver.next - 1), "returned")
        /\ then = "result" /\ driver.next - 1 \in 1..driver.calls
        /\ OpenIs(driver.step, CallsFrom(driver.next - 2, driver.calls, driver.calls))

\* A driver at work is in a turn and a step.
InTurn == driver.pc # "idle" => driver.turn \in Turns /\ driver.step \in 1..MaxSteps

\* What is open in the log at each control point of the driver.
DriverMatchesLog ==
  /\ driver.pc = "append" => BeforeAppend
  /\ driver.pc = "step" => Between /\ FreshStep
  /\ driver.pc \in {"tools-done", "tools-end", "stopped", "end"} => Between
  /\ driver.pc \in {"input", "request", "generate", "retry"} => Fresh
  /\ driver.pc \in {"stop", "max-tokens"} => Answering /\ CallsNotWanted
  /\ driver.pc = "call" =>
       /\ driver.next \in 1..(driver.calls + 1) /\ ran = {}
       /\ OpenIs(driver.step, CallsFrom(0, driver.calls, driver.next - 1))
  /\ driver.pc = "execute" =>
       driver.next = 1 /\ OpenIs(driver.step, CallsFrom(0, driver.calls, driver.calls))
  /\ driver.pc = "result" =>
       /\ driver.next \in 1..(driver.calls + 1)
       /\ OpenIs(driver.step, CallsFrom(driver.next - 1, driver.calls, driver.calls))

\* A restoration has yet to append exactly what the log as it is now needs.
ClosersMatchLog ==
  IF session = "restoring"
  THEN closers = InterruptedTurnClosers(log) /\ closers # <<>>
  ELSE closers = <<>>

\* The other variables have their types; only a resident session has a driver at work.
DriverTypeOK ==
  /\ driver \in [pc : {"idle", "append", "step", "input", "request", "generate", "retry", "call",
                       "max-tokens", "execute", "result", "tools-done", "tools-end", "stop",
                       "stopped", "end"},
                 turn : 0..MaxTurns, step : 0..MaxSteps, calls : 0..MaxCalls,
                 next : 0..(MaxCalls + 1), retries : 0..MaxRetries]
  /\ session \in {"down", "restoring", "resident"}
  /\ cancelled \in BOOLEAN /\ stops \in 0..MaxStops
  /\ session # "resident" => driver.pc = "idle"
  /\ InTurn

\* The driver's turn has no event of a step it has not reached.
StepsSoFar ==
  driver.pc # "idle" =>
    \A i \in DOMAIN log : log[i].turn = driver.turn => log[i].step <= driver.step

\* The inductive invariant.
IInv ==
  LogInv /\ TurnsStarted /\ DriverTypeOK /\ StepsSoFar /\ DriverMatchesLog /\ ClosersMatchLog

-----------------------------------------------------------------------------
(* The inductive step *)

\* What a step that appends nothing keeps, while no call starts to run.
LEMMA Quiet ==
  ASSUME IInv, log' = log, ran' \subseteq ran
  PROVE  /\ LogInv' /\ TurnsStarted' /\ open' = open
         /\ session' = session /\ closers' = closers => ClosersMatchLog'
<1>1. open' = open
  BY DEF open
<1>2. LogInv'
  <2>1. LogInv
    BY DEF IInv
  <2>2. NotStartedNeverRan'
    BY <2>1 DEF LogInv, NotStartedNeverRan
  <2>3. PendingUnanswered'
    BY <1>1, <2>1 DEF LogInv, PendingMatchesLog, PendingUnanswered, Answered
  <2> QED BY <2>1, <2>2, <2>3, LogStays DEF LogInv, PendingMatchesLog
<1>3. TurnsStarted'
  BY DEF IInv, TurnsStarted
<1>4. session' = session /\ closers' = closers => ClosersMatchLog'
  BY DEF IInv, ClosersMatchLog
<1> QED BY <1>1, <1>2, <1>3, <1>4

\* The driver's claims about the log, while log, turn and step stay the same.
LEMMA DriverStays ==
  ASSUME log' = log, ran' = ran, driver'.turn = driver.turn, driver'.step = driver.step
  PROVE  /\ Between' <=> Between
         /\ FreshStep' <=> FreshStep
         /\ Fresh' <=> Fresh
         /\ Answering' <=> Answering
         /\ CallsNotWanted' <=> CallsNotWanted
         /\ driver'.calls = driver.calls => \A k, m : CallsFrom(k, driver.calls, m)' = CallsFrom(k, driver.calls, m)
         /\ \A step, pending : OpenIs(step, pending)' <=> OpenIs(step, pending)
<1>1. open' = open
  BY DEF open
<1>2. FreshStep' <=> FreshStep
  BY DEF FreshStep
<1>3. CallsNotWanted' <=> CallsNotWanted
  BY DEF CallsNotWanted
<1> QED BY <1>1, <1>2, <1>3 DEF Between, Fresh, Answering, OpenIs, CallsFrom

\* Every event names a turn and a step in range.
LEMMA EventFields ==
  ASSUME NEW e \in LogEvents
  PROVE  e.turn \in Turns /\ e.turn \in Nat /\ e.step \in 0..MaxSteps
BY DEF LogEvents, Turns

\* The invariant holds initially.
LEMMA InitInvariant == Init => IInv
<1> SUFFICES ASSUME Init PROVE IInv
  OBVIOUS
<1>1. log = <<>> /\ open = NothingOpen
  BY OpenEmpty DEF Init, open
<1>2. LogInv
  <2>1. log \in Seq(LogEvents) /\ DOMAIN log = {}
    BY <1>1
  <2>2. OpenMatchesLog
    BY <1>1, <2>1, TurnAssumption DEF OpenMatchesLog, NothingOpen
  <2>3. PendingMatchesLog
    BY <1>1, <2>1 DEF PendingMatchesLog, PendingDistinct, PendingUnanswered, PendingAnnounced,
       WantedIsCovered, NothingOpen
  <2> QED BY <2>1, <2>2, <2>3 DEF LogInv, TurnNumbersIncrease, ClosesMatch, OneResultPerCall,
          NotStartedNeverRan
<1>3. TurnsStarted
  BY <1>1 DEF TurnsStarted
<1>4. DriverTypeOK
  <2>1. /\ 0 \in 0..MaxTurns /\ 0 \in 0..MaxSteps /\ 0 \in 0..MaxCalls
        /\ 0 \in 0..(MaxCalls + 1) /\ 0 \in 0..MaxRetries /\ 0 \in 0..MaxStops
    BY TurnAssumption
  <2> QED BY <2>1, ZenonT(30) DEF Init, At, DriverTypeOK, InTurn
<1>5. StepsSoFar /\ DriverMatchesLog /\ ClosersMatchLog
  BY DEF Init, At, StepsSoFar, DriverMatchesLog, ClosersMatchLog
<1> QED BY <1>2, <1>3, <1>4, <1>5 DEF IInv

\* The control points of run_turn.
PCs == {"idle", "append", "step", "input", "request", "generate", "retry", "call", "max-tokens",
        "execute", "result", "tools-done", "tools-end", "stop", "stopped", "end"}

\* A step of the driver that appends nothing.
LEMMA Submitted ==
  ASSUME IInv, driver.pc # "idle", driver' = [driver EXCEPT !.pc = "append"],
         UNCHANGED <<log, session, cancelled, closers, ran, stops>>, BeforeAppend'
  PROVE  IInv'
<1>1. LogInv' /\ TurnsStarted' /\ ClosersMatchLog'
  BY Quiet
<1>2. driver'.pc = "append" /\ DriverTypeOK'
  BY DEF IInv, DriverTypeOK, InTurn
<1>3. DriverMatchesLog'
  BY <1>2 DEF DriverMatchesLog
<1>4. StepsSoFar'
  BY DEF IInv, DriverTypeOK, StepsSoFar
<1> QED BY <1>1, <1>2, <1>3, <1>4 DEF IInv

\* A step of the driver that appends an event.
LEMMA Committed ==
  ASSUME IInv, Commit, writing.then \in PCs, LogInv', TurnsStarted', DriverMatchesLog'
  PROVE  IInv'
<1>1. driver.pc # "idle" /\ session = "resident" /\ closers = <<>>
  BY DEF IInv, Commit, DriverTypeOK, ClosersMatchLog
<1>2. DriverTypeOK'
  BY <1>1 DEF IInv, Commit, DriverTypeOK, InTurn, PCs
<1>3. ClosersMatchLog'
  BY <1>1 DEF Commit, ClosersMatchLog
<1>4. writing.event.step = 0 \/ writing.event.step = driver.step
  BY DEF IInv, Commit, DriverMatchesLog, BeforeAppend, Event, Here, Message, ToolCallEvent, ToolResult
<1>5. driver.step \in Nat /\ driver'.step = driver.step /\ driver'.turn = driver.turn
  BY TurnAssumption DEF IInv, Commit, DriverTypeOK
<1>6. StepsSoFar'
  <2>1. CASE log' = log
    BY <1>1, <1>5, <2>1 DEF IInv, StepsSoFar
  <2>2. CASE log' = Append(log, writing.event)
    <3>1. log \in Seq(LogEvents) /\ Len(log) \in Nat
      BY DEF IInv, LogInv
    <3>2. \A i \in DOMAIN log' : i \in DOMAIN log \/ i = Len(log) + 1
      BY <2>2, <3>1, AppendProperties
    <3>3. \A i \in DOMAIN log : log'[i] = log[i]
      BY <2>2, <3>1
    <3>4. log'[Len(log) + 1] = writing.event
      BY <2>2, <3>1
    <3> QED BY <1>1, <1>4, <1>5, <3>2, <3>3, <3>4 DEF IInv, StepsSoFar
  <2> QED BY <2>1, <2>2 DEF Commit
<1> QED BY <1>2, <1>3, <1>6 DEF IInv

\* The append of a turn/start.
LEMMA CommitTurnStart ==
  ASSUME IInv, Commit, writing.event = Event("turn/start", driver.turn, 0), writing.then = "step",
         \A i \in DOMAIN log : log[i].turn < driver.turn, ran = {}
  PROVE  IInv'
<1>1. PICK n \in Turns : n = driver.turn
  BY DEF IInv, Commit, DriverTypeOK, InTurn
<1>2. /\ log' = Append(log, Event("turn/start", n, 0)) /\ ran' = ran
      /\ driver' = [driver EXCEPT !.pc = "step"]
  BY <1>1 DEF Commit, Kept, Event
<1>3. LogInv' /\ open' = [turn |-> n, step |-> 0, pending |-> <<>>]
  BY <1>1, <1>2, AppendTurnStart DEF IInv
<1>4. log \in Seq(LogEvents) /\ Event("turn/start", n, 0) \in LogEvents
  BY <1>1, TurnAssumption DEF IInv, LogInv, LogEvents, Event
<1>5. TurnsStarted'
  BY <1>2, <1>4, TurnsStartedStep DEF IInv, LogInv, Event
<1>6. driver'.pc = "step" /\ driver'.turn = n /\ driver'.step = driver.step
  BY <1>1, <1>2 DEF IInv, DriverTypeOK
<1>7. FreshStep'
  <2>1. \A i \in DOMAIN log' :
          log'[i].type \in {"assistant/message", "tool/result"} => log'[i].turn # n
    <3>1. \A i \in DOMAIN log : log'[i].turn # n
      <4>1. \A i \in DOMAIN log : log'[i] = log[i] /\ log[i].turn \in Nat
        BY <1>2, <1>4, AppendToLog, EventFields
      <4> QED BY <1>1, <4>1 DEF Turns
    <3>2. log'[Len(log) + 1].type = "turn/start"
      BY <1>2, <1>4, AppendToLog DEF Event
    <3> QED BY <1>2, <1>4, <3>1, <3>2, AppendToLog
  <2> QED BY <1>2, <1>6, <2>1 DEF FreshStep
<1>8. DriverMatchesLog'
  BY <1>3, <1>6, <1>7 DEF DriverMatchesLog, Between, OpenIs
<1> QED BY <1>3, <1>5, <1>8, Committed DEF PCs

\* The append of a turn/end.
LEMMA CommitTurnEnd ==
  ASSUME IInv, Commit, writing.event = Event("turn/end", driver.turn, 0), writing.then = "idle", Between
  PROVE  IInv'
<1>1. driver.turn \in Turns /\ open.turn = driver.turn /\ open.step = 0 /\ open.turn # 0
  BY DEF IInv, Commit, DriverTypeOK, InTurn, Between, OpenIs, Turns
<1>2. /\ log' = Append(log, Event("turn/end", open.turn, 0)) /\ ran' = ran
      /\ driver' = [driver EXCEPT !.pc = "idle"]
  BY <1>1 DEF Commit, Kept, Event
<1>3. LogInv'
  BY <1>1, <1>2, AppendTurnEnd DEF IInv
<1>4. log \in Seq(LogEvents) /\ Event("turn/end", open.turn, 0) \in LogEvents
  BY <1>1, TurnAssumption DEF IInv, LogInv, LogEvents, Event
<1>5. TurnsStarted'
  <2>1. PICK e \in LogEvents : e = Event("turn/end", open.turn, 0)
    BY <1>4
  <2> QED BY <1>1, <1>2, <1>4, <2>1, TurnsStartedStep DEF IInv, LogInv, Event
<1>6. driver'.pc = "idle"
  BY <1>2 DEF IInv, DriverTypeOK
<1>7. DriverMatchesLog'
  BY <1>6 DEF DriverMatchesLog
<1> QED BY <1>3, <1>5, <1>7, Committed DEF PCs

\* The append of a step/start.
LEMMA CommitStepStart ==
  ASSUME IInv, Commit, writing.event = Here("step/start"), writing.then = "input", Between, FreshStep
  PROVE  IInv'
<1>1. /\ driver.turn \in Turns /\ open.turn = driver.turn /\ open.step = 0 /\ open.turn # 0
      /\ driver.step \in 1..MaxSteps
  BY DEF IInv, Commit, DriverTypeOK, InTurn, Between, OpenIs, Turns
<1>2. PICK n, e : n \in 1..MaxSteps /\ n = driver.step /\ e = Event("step/start", open.turn, n)
  BY <1>1
<1>3. /\ log' = Append(log, e) /\ ran' = ran /\ driver' = [driver EXCEPT !.pc = "input"]
  BY <1>1, <1>2 DEF Commit, Kept, Event, Here
<1>4. LogInv' /\ open' = [turn |-> open.turn, step |-> n, pending |-> <<>>]
  BY <1>1, <1>2, <1>3, AppendStepStart DEF IInv
<1>5. log \in Seq(LogEvents) /\ e \in LogEvents
  BY <1>1, <1>2 DEF IInv, LogInv, LogEvents, Event
<1>6. TurnsStarted'
  BY <1>1, <1>2, <1>3, <1>5, TurnsStartedStep DEF IInv, LogInv, Event
<1>7. driver'.pc = "input" /\ driver'.turn = driver.turn /\ driver'.step = driver.step
  BY <1>3 DEF IInv, DriverTypeOK
<1>8. FreshStep'
  <2>1. log'[Len(log) + 1].type = "step/start"
    BY <1>2, <1>3, <1>5, AppendToLog DEF Event
  <2>2. \A i \in DOMAIN log' : i = Len(log) + 1 \/ (i \in DOMAIN log /\ log'[i] = log[i])
    BY <1>3, <1>5, AppendToLog
  <2> QED BY <1>3, <1>7, <2>1, <2>2 DEF FreshStep
<1>9. DriverMatchesLog'
  BY <1>1, <1>2, <1>4, <1>7, <1>8 DEF DriverMatchesLog, Fresh, OpenIs
<1> QED BY <1>4, <1>6, <1>9, Committed DEF PCs

\* The append of a step/end.
LEMMA CommitStepEnd ==
  ASSUME IInv, Commit, writing.event = Here("step/end"),
         writing.then \in {"end", "tools-done", "stopped"}, Answering,
         open.pending = <<>> \/ CallsNotWanted
  PROVE  IInv'
<1>1. /\ driver.turn \in Turns /\ open.turn = driver.turn /\ open.turn # 0
      /\ driver.step \in 1..MaxSteps /\ open.step = driver.step /\ open.step # 0
  BY DEF IInv, Commit, DriverTypeOK, InTurn, Answering, Turns
<1>2. PICK e : e = Event("step/end", open.turn, open.step)
  BY <1>1
<1>3. /\ log' = Append(log, e) /\ ran' = ran /\ driver' = [driver EXCEPT !.pc = writing.then]
  BY <1>1, <1>2 DEF Commit, Kept, Event, Here
<1>4. LogInv' /\ open' = [turn |-> open.turn, step |-> 0, pending |-> <<>>]
  BY <1>1, <1>2, <1>3, AppendStepEnd DEF IInv, CallsNotWanted
<1>5. log \in Seq(LogEvents) /\ e \in LogEvents
  BY <1>1, <1>2 DEF IInv, LogInv, LogEvents, Event
<1>6. TurnsStarted'
  BY <1>1, <1>2, <1>3, <1>5, TurnsStartedStep DEF IInv, LogInv, Event
<1>7. driver'.pc \in {"end", "tools-done", "stopped"} /\ driver'.turn = driver.turn
  BY <1>3 DEF IInv, DriverTypeOK
<1>8. DriverMatchesLog'
  BY <1>1, <1>4, <1>7 DEF DriverMatchesLog, Between, OpenIs
<1> QED BY <1>4, <1>6, <1>8, Committed DEF PCs

\* The append of an event the log of the model leaves out.
LEMMA CommitUnkept ==
  ASSUME IInv, Commit,
         \/ /\ writing.event \in {Here("user/message"), Here("request"), Here("llm/retry"),
                                  Here("llm/retry-started")}
            /\ writing.then \in {"request", "generate", "retry"} /\ Fresh
         \/ writing.event = Here("plan/mode") /\ writing.then = "tools-end" /\ Between
  PROVE  IInv'
<1>1. /\ log' = log /\ ran' = ran /\ driver' = [driver EXCEPT !.pc = writing.then]
  BY DEF Commit, Kept, Event, Here
<1>2. LogInv' /\ TurnsStarted'
  BY <1>1, Quiet
<1>3. driver'.pc = writing.then /\ driver'.turn = driver.turn /\ driver'.step = driver.step
  BY <1>1 DEF IInv, DriverTypeOK
<1>4. (Fresh' <=> Fresh) /\ (Between' <=> Between)
  BY <1>1, <1>3, DriverStays
<1>5. DriverMatchesLog'
  BY <1>3, <1>4 DEF DriverMatchesLog
<1> QED BY <1>2, <1>5, Committed DEF PCs

\* The append of the model's answer: its calls become pending.
LEMMA CommitMessage ==
  ASSUME IInv, Commit, writing.event = Message(driver.turn, driver.step, driver.calls, writing.then),
         writing.then \in {"call", "stop", "max-tokens"}, driver.next = 1, Fresh
  PROVE  IInv'
<1>1. /\ driver.turn \in Turns /\ open.turn = driver.turn /\ open.turn # 0 /\ open.pending = <<>>
      /\ driver.step \in 1..MaxSteps /\ open.step = driver.step /\ open.step # 0 /\ ran = {}
      /\ driver.calls \in 0..MaxCalls
  BY DEF IInv, Commit, DriverTypeOK, InTurn, Fresh, OpenIs, FreshStep, Turns
<1>2. PICK n, finish, e :
        /\ n \in 0..MaxCalls /\ n = driver.calls
        /\ finish \in {"call", "stop", "max-tokens"} /\ finish = writing.then
        /\ e = Message(open.turn, open.step, n, finish)
  BY <1>1
<1>3. /\ log' = Append(log, e) /\ ran' = ran /\ driver' = [driver EXCEPT !.pc = finish]
  BY <1>1, <1>2 DEF Commit, Kept, Message
<1> DEFINE pending == [i \in 1..n |-> [call |-> Call(open.turn, open.step, i), step |-> open.step,
                                       started |-> FALSE]]
<1>4. LogInv' /\ open' = [turn |-> open.turn, step |-> open.step, pending |-> pending]
  <2>1. \A i \in DOMAIN log : log[i].type = "tool/result" =>
           ~(log[i].turn = open.turn /\ log[i].step = open.step)
    BY <1>1 DEF Fresh, FreshStep
  <2> QED BY <1>1, <1>2, <1>3, <2>1, AppendMessage DEF IInv
<1>5. log \in Seq(LogEvents) /\ e \in LogEvents
  BY <1>1, <1>2 DEF IInv, LogInv, LogEvents, Message
<1>6. TurnsStarted'
  BY <1>1, <1>2, <1>3, <1>5, TurnsStartedStep DEF IInv, LogInv, Message
<1>7. /\ driver'.pc = finish /\ driver'.turn = driver.turn /\ driver'.step = driver.step
      /\ driver'.next = 1 /\ driver'.calls = n
  BY <1>2, <1>3 DEF IInv, DriverTypeOK
<1>8. CallsFrom(0, driver.calls, driver.next - 1)' = pending
  <2>1. n - 0 = n /\ 1 - 1 = 0 /\ \A i \in 1..n : 0 + i = i /\ (0 + i <= 0) = FALSE
    BY <1>2
  <2> QED BY <1>1, <1>7, <2>1, ZenonT(30) DEF CallsFrom
<1>9. CASE finish = "call"
  <2>1. OpenIs(driver.step, CallsFrom(0, driver.calls, driver.next - 1))'
    BY <1>1, <1>4, <1>7, <1>8, ZenonT(30) DEF OpenIs
  <2>2. driver'.next \in 1..(driver'.calls + 1) /\ ran' = {}
    BY <1>1, <1>3, <1>7
  <2>3. DriverMatchesLog'
    BY <1>7, <1>9, <2>1, <2>2 DEF DriverMatchesLog
  <2> QED BY <1>2, <1>4, <1>6, <2>3, Committed DEF PCs
<1>10. CASE finish # "call"
  <2>1. CallsNotWanted'
    <3>1. \A i \in DOMAIN log' : i = Len(log) + 1 \/ (i \in DOMAIN log /\ log'[i] = log[i])
      BY <1>3, <1>5, AppendToLog
    <3>2. log'[Len(log) + 1].finish = finish
      BY <1>2, <1>3, <1>5, AppendToLog DEF Message
    <3> QED BY <1>7, <1>10, <3>1, <3>2 DEF CallsNotWanted, Fresh, FreshStep
  <2>2. Answering'
    BY <1>1, <1>4, <1>7 DEF Answering
  <2>3. DriverMatchesLog'
    BY <1>2, <1>7, <1>10, <2>1, <2>2 DEF DriverMatchesLog
  <2> QED BY <1>2, <1>4, <1>6, <2>3, Committed DEF PCs
<1> QED BY <1>9, <1>10

\* A pending call marked as started.
LEMMA MarkStarted ==
  ASSUME NEW p \in PendingCalls
  PROVE  [p EXCEPT !.started = TRUE] = [call |-> p.call, step |-> p.step, started |-> TRUE]
<1>1. [p EXCEPT !.started = TRUE] \in PendingCalls
  BY ZenonT(30) DEF PendingCalls
<1>2. [call |-> p.call, step |-> p.step, started |-> TRUE] \in PendingCalls
  BY DEF PendingCalls
<1>3. /\ [p EXCEPT !.started = TRUE].call = p.call /\ [p EXCEPT !.started = TRUE].step = p.step
      /\ [p EXCEPT !.started = TRUE].started = TRUE
  BY DEF PendingCalls
<1>4. ASSUME NEW q \in PendingCalls, NEW r \in PendingCalls,
             q.call = r.call, q.step = r.step, q.started = r.started
      PROVE  q = r
  BY <1>4 DEF PendingCalls
<1> QED BY <1>1, <1>2, <1>3, <1>4, ZenonT(30)

\* The append of a tool/call: the call counts as started.
LEMMA CommitToolCall ==
  ASSUME IInv, Commit, NEW k, k = driver.next - 1,
         writing.event = ToolCallEvent(driver.turn, driver.step, Call(driver.turn, driver.step, k)),
         writing.then = "call", k \in 1..driver.calls, ran = {},
         OpenIs(driver.step, CallsFrom(0, driver.calls, k - 1))
  PROVE  IInv'
<1>1. /\ driver.turn \in Turns /\ open.turn = driver.turn /\ open.turn # 0
      /\ driver.step \in 1..MaxSteps /\ open.step = driver.step /\ open.step # 0
      /\ open.pending = CallsFrom(0, driver.calls, k - 1)
      /\ driver.calls \in 0..MaxCalls /\ driver.calls \in Nat /\ k \in Nat
  BY TurnAssumption DEF IInv, Commit, DriverTypeOK, InTurn, OpenIs, Turns
<1>2. PICK n \in 0..MaxCalls : n = driver.calls
  BY <1>1
<1>3. /\ DOMAIN open.pending = 1..n /\ k \in DOMAIN open.pending
      /\ \A i \in 1..n : open.pending[i] =
           [call |-> Call(driver.turn, driver.step, i), step |-> driver.step, started |-> i <= k - 1]
  <2>1. n - 0 = n /\ \A i \in 1..n : 0 + i = i
    OBVIOUS
  <2>2. k \in 1..n
    BY <1>2
  <2> QED BY <1>1, <1>2, <2>1, <2>2 DEF CallsFrom
<1> DEFINE call == Call(driver.turn, driver.step, k)
<1>4. open.pending[k] = [call |-> call, step |-> driver.step, started |-> k <= k - 1] /\ k \in 1..n
  BY <1>2, <1>3
<1>5. open.pending[k].call = call
  <2> HIDE DEF call
  <2> QED BY <1>4
<1>6. PICK e : e = ToolCallEvent(open.turn, open.step, open.pending[k].call)
  BY <1>1
<1>7. /\ log' = Append(log, e) /\ ran' = ran /\ driver' = [driver EXCEPT !.pc = "call"]
  BY <1>1, <1>6, <1>5 DEF Commit, Kept, ToolCallEvent
<1>8. LogInv' /\ open' = [open EXCEPT !.pending = [@ EXCEPT ![k].started = TRUE]]
  BY <1>3, <1>6, <1>7, AppendToolCall, ZenonT(30) DEF IInv
<1>9. log \in Seq(LogEvents) /\ e \in LogEvents
  <2>1. Call(driver.turn, driver.step, k) \in Calls
    BY <1>1, TurnAssumption DEF Call, Calls, Turns
  <2> QED BY <1>1, <1>6, <1>5, <2>1 DEF IInv, LogInv, LogEvents, ToolCallEvent
<1>10. TurnsStarted'
  BY <1>1, <1>6, <1>7, <1>9, TurnsStartedStep DEF IInv, LogInv, ToolCallEvent
<1>11. /\ driver'.pc = "call" /\ driver'.turn = driver.turn /\ driver'.step = driver.step
      /\ driver'.next = k + 1 /\ driver'.calls = n /\ driver'.next \in 1..(driver'.calls + 1)
  BY <1>1, <1>2, <1>7 DEF IInv, DriverTypeOK
<1>12. open'.pending = CallsFrom(0, driver.calls, driver.next - 1)'
  <2>1. open'.pending = [open.pending EXCEPT ![k].started = TRUE]
    BY <1>1, <1>8 DEF IInv, LogInv, OpenMatchesLog
  <2>2. \A i \in 1..n : [open.pending EXCEPT ![k].started = TRUE][i] =
           [call |-> Call(driver.turn, driver.step, i), step |-> driver.step, started |-> i <= k]
    <3> SUFFICES ASSUME NEW i \in 1..n
                 PROVE  [open.pending EXCEPT ![k].started = TRUE][i] =
           [call |-> Call(driver.turn, driver.step, i), step |-> driver.step, started |-> i <= k]
      BY ZenonT(30)
    <3>1. CASE i = k
      <4>1. [open.pending EXCEPT ![k].started = TRUE][k] = [open.pending[k] EXCEPT !.started = TRUE]
        BY <1>3
      <4>2. [open.pending[k] EXCEPT !.started = TRUE] = [call |-> call, step |-> driver.step, started |-> TRUE]
        <5>0. open.pending \in Seq(PendingCalls)
          BY DEF IInv, LogInv, OpenMatchesLog
        <5>1. open.pending[k] \in PendingCalls
          <6> HIDE DEF call, IInv
          <6> QED BY <1>3, <5>0
        <5>2. open.pending[k].call = call /\ open.pending[k].step = driver.step
          <6> HIDE DEF call, IInv
          <6> QED BY <1>4
        <5> QED BY <5>1, <5>2, MarkStarted
      <4>3. (k <= k) = TRUE
        BY <1>1
      <4> QED BY <3>1, <4>1, <4>2, <4>3, ZenonT(30)
    <3>2. CASE i # k
      <4>1. [open.pending EXCEPT ![k].started = TRUE][i] = open.pending[i]
        BY <1>3, <3>2
      <4>2. (i <= k - 1) = (i <= k)
        BY <1>1, <3>2
      <4> QED BY <1>3, <4>1, <4>2
    <3> QED BY <3>1, <3>2
  <2>3. [open.pending EXCEPT ![k].started = TRUE] =
          [i \in 1..n |->
             [call |-> Call(driver.turn, driver.step, i), step |-> driver.step, started |-> i <= k]]
    BY <1>3, <2>2, ZenonT(30)
  <2>4. CallsFrom(0, driver.calls, driver.next - 1)' =
          [i \in 1..n |->
             [call |-> Call(driver.turn, driver.step, i), step |-> driver.step, started |-> i <= k]]
    <3>1. n - 0 = n /\ (k + 1) - 1 = k /\ \A i \in 1..n : 0 + i = i
      BY <1>1
    <3> QED BY <1>1, <1>11, <3>1 DEF CallsFrom
  <2> QED BY <2>1, <2>3, <2>4
<1>13. OpenIs(driver.step, CallsFrom(0, driver.calls, driver.next - 1))'
  <2>1. open'.turn = open.turn /\ open'.step = open.step
        /\ open' = [turn |-> open'.turn, step |-> open'.step, pending |-> open'.pending]
    BY <1>8, ZenonT(30) DEF IInv, LogInv, OpenMatchesLog
  <2> QED BY <1>1, <1>11, <1>12, <2>1 DEF OpenIs
<1>14. DriverMatchesLog'
  BY <1>7, <1>11, <1>13 DEF DriverMatchesLog
<1> QED BY <1>8, <1>10, <1>14, Committed DEF PCs

\* The append of a tool/result: the first pending call is answered.
LEMMA CommitToolResult ==
  ASSUME IInv, Commit, NEW k, k = driver.next - 1,
         writing.event = ToolResult(driver.turn, driver.step, Call(driver.turn, driver.step, k), "returned"),
         writing.then = "result", k \in 1..driver.calls,
         OpenIs(driver.step, CallsFrom(k - 1, driver.calls, driver.calls))
  PROVE  IInv'
<1>1. /\ driver.turn \in Turns /\ open.turn = driver.turn /\ open.turn # 0
      /\ driver.step \in 1..MaxSteps /\ open.step = driver.step /\ open.step # 0
      /\ open.pending = CallsFrom(k - 1, driver.calls, driver.calls)
      /\ driver.calls \in 0..MaxCalls /\ driver.calls \in Nat /\ k \in Nat
  BY TurnAssumption DEF IInv, Commit, DriverTypeOK, InTurn, OpenIs, Turns
<1>2. PICK n \in 0..MaxCalls : n = driver.calls
  BY <1>1
<1> DEFINE C(i) == [call |-> Call(driver.turn, driver.step, i), step |-> driver.step, started |-> i <= n]
<1>3. /\ open.pending = [i \in 1..(n - (k - 1)) |-> C((k - 1) + i)]
      /\ n - (k - 1) \in Nat \ {0} /\ n - k \in Nat
      /\ (n - (k - 1)) - 1 = n - k /\ (k - 1) + 1 = k
  <2>1. open.pending = [i \in 1..(n - (k - 1)) |-> C((k - 1) + i)]
    BY <1>1, <1>2 DEF CallsFrom
  <2>2. k \in 1..n /\ n \in Nat
    BY <1>1, <1>2
  <2> QED BY <2>1, <2>2
<1>4. open.pending \in Seq(PendingCalls) /\ Len(open.pending) = n - (k - 1)
      /\ open.pending # <<>> /\ open.pending[1] = C(k)
  <2>1. open.pending \in Seq(PendingCalls)
    BY DEF IInv, LogInv, OpenMatchesLog
  <2> HIDE DEF C
  <2> QED BY <1>3, <2>1
<1>5. PICK e : e = ToolResult(open.turn, open.step, open.pending[1].call, "returned")
  OBVIOUS
<1>6. /\ log' = Append(log, e) /\ ran' = ran /\ driver' = [driver EXCEPT !.pc = "result"]
  BY <1>1, <1>2, <1>4, <1>5 DEF Commit, Kept, ToolResult
<1>7. LogInv' /\ open' = [open EXCEPT !.pending = Tail(@)]
  BY <1>4, <1>5, <1>6, AppendToolResult DEF IInv
<1>8. log \in Seq(LogEvents) /\ e \in LogEvents
  <2>1. Call(driver.turn, driver.step, k) \in Calls
    BY <1>1, TurnAssumption DEF Call, Calls, Turns
  <2>2. open.pending[1].call = Call(driver.turn, driver.step, k)
    BY <1>4
  <2> QED BY <1>1, <1>5, <2>1, <2>2 DEF IInv, LogInv, LogEvents, ToolResult
<1>9. TurnsStarted'
  BY <1>1, <1>5, <1>6, <1>8, TurnsStartedStep DEF IInv, LogInv, ToolResult
<1>10. /\ driver'.pc = "result" /\ driver'.turn = driver.turn /\ driver'.step = driver.step
       /\ driver'.next = k + 1 /\ driver'.calls = n /\ driver'.next \in 1..(driver'.calls + 1)
  BY <1>1, <1>2, <1>6 DEF IInv, DriverTypeOK
<1>11. open'.pending = CallsFrom(driver.next - 1, driver.calls, driver.calls)'
  <2>1. open'.pending = Tail(open.pending)
    BY <1>1, <1>7 DEF IInv, LogInv, OpenMatchesLog
  <2>2. Tail(open.pending) = [i \in 1..(n - k) |-> C(k + i)]
    <3>1. /\ Tail(open.pending) \in Seq(PendingCalls) /\ Len(Tail(open.pending)) = n - k
          /\ DOMAIN Tail(open.pending) = 1..(n - k)
          /\ \A i \in 1..(n - k) : Tail(open.pending)[i] = open.pending[i + 1]
      <4>1. /\ Tail(open.pending) \in Seq(PendingCalls) /\ Len(Tail(open.pending)) = Len(open.pending) - 1
            /\ \A i \in 1..(Len(open.pending) - 1) : Tail(open.pending)[i] = open.pending[i + 1]
        BY <1>4, HeadTailProperties
      <4>2. Len(open.pending) - 1 = n - k
        BY <1>3, <1>4
      <4> QED BY <4>1, <4>2, LenProperties
    <3>2. \A i \in 1..(n - k) : i + 1 \in 1..(n - (k - 1)) /\ (k - 1) + (i + 1) = k + i
      BY <1>1
    <3>3. \A i \in 1..(n - k) : Tail(open.pending)[i] = C(k + i)
      <4> HIDE DEF C
      <4> QED BY <1>3, <3>1, <3>2
    <3> HIDE DEF C
    <3> QED BY <3>1, <3>3
  <2>3. CallsFrom(driver.next - 1, driver.calls, driver.calls)' = [i \in 1..(n - k) |-> C(k + i)]
    <3>1. (k + 1) - 1 = k
      BY <1>1
    <3> QED BY <1>1, <1>10, <3>1 DEF CallsFrom
  <2> QED BY <2>1, <2>2, <2>3, ZenonT(30)
<1>12. OpenIs(driver.step, CallsFrom(driver.next - 1, driver.calls, driver.calls))'
  <2>1. open'.turn = open.turn /\ open'.step = open.step
        /\ open' = [turn |-> open'.turn, step |-> open'.step, pending |-> open'.pending]
    BY <1>7, ZenonT(30) DEF IInv, LogInv, OpenMatchesLog
  <2> QED BY <1>1, <1>10, <1>11, <2>1 DEF OpenIs
<1>13. DriverMatchesLog'
  BY <1>6, <1>10, <1>12 DEF DriverMatchesLog
<1> QED BY <1>7, <1>9, <1>13, Committed DEF PCs

\* Every append of the driver keeps the invariant.
LEMMA CommitKeeps == IInv /\ Commit => IInv'
<1> SUFFICES ASSUME IInv, Commit PROVE IInv'
  OBVIOUS
<1>1. BeforeAppend
  BY DEF IInv, Commit, DriverMatchesLog
<1>2. PICK k : k = driver.next - 1
  OBVIOUS
<1>3. driver.next - 2 = k - 1
  BY <1>2 DEF IInv, DriverTypeOK
<1> QED BY <1>1, <1>2, <1>3, CommitTurnStart, CommitTurnEnd, CommitStepStart, CommitStepEnd, CommitUnkept,
       CommitMessage, CommitToolCall, CommitToolResult DEF BeforeAppend

\* The control points at which run_turn goes on inside a turn.
LEMMA Resident ==
  ASSUME IInv, driver.pc # "idle"
  PROVE  /\ driver.turn \in Turns /\ driver.step \in 1..MaxSteps /\ driver.step \in Nat \ {0}
         /\ driver.calls \in Nat /\ session = "resident" /\ closers = <<>>
BY TurnAssumption DEF IInv, DriverTypeOK, InTurn, ClosersMatchLog

\* end_turn is called between two steps.
LEMMA EndTurnKeeps ==
  ASSUME IInv, driver.pc # "idle", Between, EndTurn
  PROVE  IInv'
<1>1. /\ driver' = [driver EXCEPT !.pc = "append"]
      /\ writing'.event = Event("turn/end", driver.turn, 0) /\ writing'.then = "idle"
      /\ UNCHANGED <<log, session, cancelled, closers, ran, stops>>
  BY DEF EndTurn, Submit
<1>2. driver'.turn = driver.turn /\ driver'.step = driver.step
  BY <1>1 DEF IInv, DriverTypeOK
<1>3. Between'
  BY <1>1, <1>2, DriverStays
<1>4. BeforeAppend'
  BY <1>1, <1>2, <1>3 DEF BeforeAppend, Event
<1> QED BY <1>1, <1>4, Submitted

\* A step is closed with every wanted call of it answered.
LEMMA StepEndKeeps ==
  ASSUME IInv, driver.pc # "idle", Answering, open.pending = <<>> \/ CallsNotWanted,
         NEW then \in {"end", "tools-done", "stopped"}, Submit(Here("step/end"), then)
  PROVE  IInv'
<1>1. /\ driver' = [driver EXCEPT !.pc = "append"]
      /\ writing'.event = Event("step/end", driver.turn, driver.step) /\ writing'.then = then
      /\ UNCHANGED <<log, session, cancelled, closers, ran, stops>>
  BY DEF Submit, Here
<1>2. driver'.turn = driver.turn /\ driver'.step = driver.step
  BY <1>1 DEF IInv, DriverTypeOK
<1>3. (Answering' <=> Answering) /\ (CallsNotWanted' <=> CallsNotWanted) /\ open' = open
  BY <1>1, <1>2, DriverStays DEF open
<1>4. BeforeAppend'
  BY <1>1, <1>2, <1>3 DEF BeforeAppend, Event, Here
<1> QED BY <1>1, <1>4, Submitted

\* A step that has just begun is open and has no pending call.
LEMMA FreshIsAnswering ==
  ASSUME Fresh
  PROVE  Answering /\ open.pending = <<>>
BY DEF Fresh, OpenIs, Answering

\* The step's own events before its answer are not among those the log keeps.
LEMMA UnkeptKeeps ==
  ASSUME IInv, driver.pc # "idle", Fresh, NEW type \in {"user/message", "request", "llm/retry-started"},
         NEW then \in {"request", "generate"}, Submit(Here(type), then)
  PROVE  IInv'
<1>1. /\ driver' = [driver EXCEPT !.pc = "append"]
      /\ writing'.event = Event(type, driver.turn, driver.step) /\ writing'.then = then
      /\ UNCHANGED <<log, session, cancelled, closers, ran, stops>>
  BY DEF Submit, Here
<1>2. driver'.turn = driver.turn /\ driver'.step = driver.step
  BY <1>1 DEF IInv, DriverTypeOK
<1>3. Fresh'
  BY <1>1, <1>2, DriverStays
<1>4. BeforeAppend'
  BY <1>1, <1>2, <1>3 DEF BeforeAppend, Event, Here
<1> QED BY <1>1, <1>4, Submitted

\* When an append or an assembly fails, run_turn returns and leaves its turn open.
LEMMA RefuseKeeps == IInv /\ (Refuse \/ StepError) => IInv'
<1> SUFFICES ASSUME IInv, Refuse \/ StepError PROVE IInv'
  OBVIOUS
<1>1. driver' = At("idle") /\ driver.pc # "idle" /\ UNCHANGED <<log, session, cancelled, closers, ran, stops>>
  BY DEF Refuse, StepError, GoTo
<1>2. LogInv' /\ TurnsStarted' /\ ClosersMatchLog'
  BY <1>1, Quiet
<1>3. DriverTypeOK' /\ DriverMatchesLog'
  <2>1. /\ 0 \in 0..MaxTurns /\ 0 \in 0..MaxSteps /\ 0 \in 0..MaxCalls
        /\ 0 \in 0..(MaxCalls + 1) /\ 0 \in 0..MaxRetries
    BY TurnAssumption
  <2> QED BY <1>1, <2>1 DEF IInv, At, DriverTypeOK, InTurn, DriverMatchesLog
<1>4. StepsSoFar'
  BY <1>1 DEF At, StepsSoFar
<1> QED BY <1>2, <1>3, <1>4 DEF IInv

\* A claimed message starts a turn with a new number.
LEMMA BeginKeeps == IInv /\ Begin => IInv'
<1> SUFFICES ASSUME IInv, Begin PROVE IInv'
  OBVIOUS
<1>1. PICK n : n = NextTurn
  OBVIOUS
<1>2. n \in Turns /\ \A i \in DOMAIN log : log[i].turn < n
  BY <1>1, NextTurnIsNew, TurnAssumption DEF IInv, LogInv, Begin, Turns
<1>3. /\ driver' = [pc |-> "append", turn |-> n, step |-> 1, calls |-> 0, next |-> 0, retries |-> 0]
      /\ writing'.event = Event("turn/start", n, 0) /\ writing'.then = "step" /\ ran' = {}
      /\ UNCHANGED <<log, session, cancelled, closers, stops>> /\ session = "resident"
  BY <1>1, ZenonT(30) DEF Begin, At
<1>4. /\ 0 \in 0..MaxTurns /\ 1 \in 0..MaxSteps /\ 0 \in 0..MaxCalls /\ 1 \in 1..MaxSteps
      /\ 0 \in 0..(MaxCalls + 1) /\ 0 \in 0..MaxRetries /\ n \in 0..MaxTurns
  BY <1>2, TurnAssumption DEF Turns
<1>5. DriverTypeOK'
  BY <1>2, <1>3, <1>4 DEF IInv, DriverTypeOK, InTurn
<1>6. BeforeAppend'
  BY <1>2, <1>3 DEF BeforeAppend, Event
<1>7. DriverMatchesLog'
  BY <1>3, <1>6 DEF DriverMatchesLog
<1>8. LogInv' /\ TurnsStarted' /\ ClosersMatchLog'
  BY <1>3, Quiet
<1>9. StepsSoFar'
  <2>1. \A i \in DOMAIN log : log[i].turn \in Nat
    BY EventFields DEF IInv, LogInv
  <2> QED BY <1>2, <1>3, <2>1 DEF StepsSoFar, Turns
<1> QED BY <1>5, <1>7, <1>8, <1>9 DEF IInv

\* run_turn starts a step or, when cancelled, ends the turn.
LEMMA StepStartKeeps == IInv /\ StepStart => IInv'
<1> SUFFICES ASSUME IInv, StepStart PROVE IInv'
  OBVIOUS
<1>1. driver.pc = "step" /\ Between /\ FreshStep
  BY DEF IInv, StepStart, DriverMatchesLog
<1>2. CASE EndTurn
  BY <1>1, <1>2, EndTurnKeeps
<1>3. CASE Submit(Here("step/start"), "input")
  <2>1. /\ driver' = [driver EXCEPT !.pc = "append"]
        /\ writing'.event = Event("step/start", driver.turn, driver.step) /\ writing'.then = "input"
        /\ UNCHANGED <<log, session, cancelled, closers, ran, stops>>
    BY <1>3 DEF Submit, Here
  <2>2. driver'.turn = driver.turn /\ driver'.step = driver.step
    BY <2>1 DEF IInv, DriverTypeOK
  <2>3. Between' /\ FreshStep'
    BY <1>1, <2>1, <2>2, DriverStays
  <2>4. BeforeAppend'
    BY <2>1, <2>2, <2>3 DEF BeforeAppend, Event, Here
  <2> QED BY <1>1, <2>1, <2>4, Submitted
<1> QED BY <1>2, <1>3 DEF StepStart

\* The step's input, the request and a retry.
LEMMA BeforeAnswerKeeps == IInv /\ (Input \/ Request \/ Retry) => IInv'
<1> SUFFICES ASSUME IInv, Input \/ Request \/ Retry PROVE IInv'
  OBVIOUS
<1>1. driver.pc # "idle" /\ Fresh
  BY DEF IInv, Input, Request, Retry, DriverMatchesLog
<1>2. Answering /\ open.pending = <<>>
  BY <1>1, FreshIsAnswering
<1>3. CASE CloseTurn
  BY <1>1, <1>2, <1>3, StepEndKeeps DEF CloseTurn
<1>4. CASE \/ Submit(Here("user/message"), "request") \/ Submit(Here("request"), "generate")
           \/ Submit(Here("llm/retry-started"), "generate")
  BY <1>1, <1>4, UnkeptKeeps
<1> QED BY <1>3, <1>4 DEF Input, Request, Retry

\* The provider fails.
LEMMA GenerateFailedKeeps == IInv /\ GenerateFailed => IInv'
<1> SUFFICES ASSUME IInv, GenerateFailed PROVE IInv'
  OBVIOUS
<1>1. driver.pc = "generate" /\ Fresh
  BY DEF IInv, GenerateFailed, DriverMatchesLog
<1>2. Answering /\ open.pending = <<>>
  BY <1>1, FreshIsAnswering
<1>3. CASE CloseTurn
  BY <1>1, <1>2, <1>3, StepEndKeeps DEF CloseTurn
<1>4. CASE Submit(Here("user/message"), "generate")
  BY <1>1, <1>4, UnkeptKeeps
<1>5. CASE /\ driver.retries < MaxRetries
           /\ driver' = [driver EXCEPT !.pc = "append", !.retries = @ + 1]
           /\ writing' = [event |-> Here("llm/retry"), then |-> "retry", shielded |-> FALSE]
           /\ UNCHANGED <<log, session, cancelled, closers, ran, stops>>
  <2>1. /\ driver'.turn = driver.turn /\ driver'.step = driver.step /\ driver'.pc = "append"
        /\ driver.retries + 1 \in 0..MaxRetries
    BY <1>5, TurnAssumption DEF IInv, DriverTypeOK
  <2>2. Fresh'
    BY <1>1, <1>5, <2>1, DriverStays
  <2>3. BeforeAppend'
    BY <1>5, <2>1, <2>2 DEF BeforeAppend, Event, Here
  <2>4. DriverTypeOK' /\ StepsSoFar' /\ DriverMatchesLog'
    BY <1>1, <1>5, <2>1, <2>3, ZenonT(30) DEF IInv, DriverTypeOK, InTurn, StepsSoFar, DriverMatchesLog
  <2>5. LogInv' /\ TurnsStarted' /\ ClosersMatchLog'
    BY <1>5, Quiet
  <2> QED BY <2>4, <2>5 DEF IInv
<1> QED BY <1>3, <1>4, <1>5 DEF GenerateFailed

\* The provider answers.
LEMMA GeneratedKeeps == IInv /\ Generated => IInv'
<1> SUFFICES ASSUME IInv, Generated PROVE IInv'
  OBVIOUS
<1>1. driver.pc = "generate" /\ Fresh
  BY ZenonT(30) DEF IInv, Generated, DriverMatchesLog
<1>2. Answering /\ open.pending = <<>>
  BY <1>1, FreshIsAnswering
<1>3. CASE CloseTurn
  BY <1>1, <1>2, <1>3, StepEndKeeps DEF CloseTurn
<1>4. CASE \E n \in 0..MaxCalls, finish \in {"call", "stop", "max-tokens"} :
            /\ driver' = [driver EXCEPT !.pc = "append", !.calls = n, !.next = 1, !.retries = 0]
            /\ writing' = [event |-> Message(driver.turn, driver.step, n, finish),
                           then |-> finish, shielded |-> FALSE]
            /\ UNCHANGED <<log, session, cancelled, closers, ran, stops>>
  <2>1. PICK n \in 0..MaxCalls, finish \in {"call", "stop", "max-tokens"} :
            /\ driver' = [driver EXCEPT !.pc = "append", !.calls = n, !.next = 1, !.retries = 0]
            /\ writing' = [event |-> Message(driver.turn, driver.step, n, finish),
                           then |-> finish, shielded |-> FALSE]
            /\ UNCHANGED <<log, session, cancelled, closers, ran, stops>>
    BY <1>4, ZenonT(30)
  <2>2. /\ driver'.turn = driver.turn /\ driver'.step = driver.step /\ driver'.pc = "append"
        /\ driver'.calls = n /\ driver'.next = 1
        /\ 1 \in 0..(MaxCalls + 1) /\ 0 \in 0..MaxRetries
    BY <2>1, TurnAssumption DEF IInv, DriverTypeOK
  <2>3. Fresh'
    BY <1>1, <2>1, <2>2, DriverStays
  <2>4. BeforeAppend'
    BY <2>1, <2>2, <2>3 DEF BeforeAppend, Message
  <2>5. DriverTypeOK' /\ StepsSoFar' /\ DriverMatchesLog'
    BY <1>1, <2>1, <2>2, <2>4, ZenonT(30) DEF IInv, DriverTypeOK, InTurn, StepsSoFar, DriverMatchesLog
  <2>6. LogInv' /\ TurnsStarted' /\ ClosersMatchLog'
    BY <2>1, Quiet
  <2> QED BY <2>5, <2>6 DEF IInv
<1> QED BY <1>3, <1>4, ZenonT(30) DEF Generated

\* An answer that ends the step without running calls.
LEMMA AfterAnswerKeeps == IInv /\ (MaxTokens \/ Stop) => IInv'
<1> SUFFICES ASSUME IInv, MaxTokens \/ Stop PROVE IInv'
  OBVIOUS
<1>1. driver.pc # "idle" /\ Answering /\ CallsNotWanted
  BY DEF IInv, MaxTokens, Stop, DriverMatchesLog
<1>2. CASE CloseTurn
  BY <1>1, <1>2, StepEndKeeps DEF CloseTurn
<1>3. CASE Submit(Here("step/end"), "stopped")
  BY <1>1, <1>3, StepEndKeeps
<1> QED BY <1>2, <1>3 DEF MaxTokens, Stop

\* run_tools records the calls in order.
LEMMA ToolCallKeeps == IInv /\ ToolCall => IInv'
<1> SUFFICES ASSUME IInv, ToolCall PROVE IInv'
  OBVIOUS
<1>1. /\ driver.pc = "call" /\ driver.next \in 1..(driver.calls + 1) /\ ran = {}
      /\ OpenIs(driver.step, CallsFrom(0, driver.calls, driver.next - 1))
      /\ driver.calls \in 0..MaxCalls /\ driver.calls \in Nat
      /\ driver.turn \in Turns /\ driver.step \in 1..MaxSteps
  BY TurnAssumption DEF IInv, ToolCall, DriverMatchesLog, DriverTypeOK, InTurn
<1>2. CASE driver.next > driver.calls
  <2>1. /\ driver' = [driver EXCEPT !.pc = "execute", !.next = 1]
        /\ UNCHANGED <<log, session, cancelled, closers, ran, stops>>
    BY <1>2 DEF ToolCall, GoTo
  <2>2. /\ driver'.turn = driver.turn /\ driver'.step = driver.step /\ driver'.pc = "execute"
        /\ driver'.calls = driver.calls /\ driver'.next = 1 /\ 1 \in 0..(MaxCalls + 1)
        /\ driver.next - 1 = driver.calls
    BY <1>1, <1>2, <2>1, TurnAssumption DEF IInv, DriverTypeOK
  <2>3. OpenIs(driver.step, CallsFrom(0, driver.calls, driver.calls))'
    <3>1. OpenIs(driver.step, CallsFrom(0, driver.calls, driver.calls))
      BY <1>1, <2>2
    <3> QED BY <2>1, <2>2, <3>1 DEF OpenIs, CallsFrom, open
  <2>4. DriverTypeOK' /\ StepsSoFar' /\ DriverMatchesLog'
    BY <1>1, <2>1, <2>2, <2>3, ZenonT(30) DEF IInv, DriverTypeOK, InTurn, StepsSoFar, DriverMatchesLog
  <2>5. LogInv' /\ TurnsStarted' /\ ClosersMatchLog'
    BY <2>1, Quiet
  <2> QED BY <2>4, <2>5 DEF IInv
<1>3. CASE ~(driver.next > driver.calls)
  <2>1. /\ driver' = [driver EXCEPT !.pc = "append", !.next = @ + 1]
        /\ writing'.event = ToolCallEvent(driver.turn, driver.step,
                                     Call(driver.turn, driver.step, driver.next))
        /\ writing'.then = "call"
        /\ UNCHANGED <<log, session, cancelled, closers, ran, stops>>
    BY <1>3 DEF ToolCall
  <2>2. /\ driver'.turn = driver.turn /\ driver'.step = driver.step /\ driver'.pc = "append"
        /\ driver'.calls = driver.calls /\ driver'.next = driver.next + 1
        /\ driver.next + 1 \in 0..(MaxCalls + 1) /\ driver.next \in 1..driver.calls
        /\ (driver.next + 1) - 1 = driver.next /\ (driver.next + 1) - 2 = driver.next - 1
    BY <1>1, <1>3, <2>1, TurnAssumption DEF IInv, DriverTypeOK
  <2>3. OpenIs(driver.step, CallsFrom(0, driver.calls, driver.next - 2))'
    BY <1>1, <2>1, <2>2 DEF OpenIs, CallsFrom, open
  <2>4. BeforeAppend'
    BY <1>1, <2>1, <2>2, <2>3 DEF BeforeAppend, ToolCallEvent, Call
  <2>5. DriverTypeOK' /\ StepsSoFar' /\ DriverMatchesLog'
    BY <1>1, <2>1, <2>2, <2>4, ZenonT(30) DEF IInv, DriverTypeOK, InTurn, StepsSoFar, DriverMatchesLog
  <2>6. LogInv' /\ TurnsStarted' /\ ClosersMatchLog'
    BY <2>1, Quiet
  <2> QED BY <2>5, <2>6 DEF IInv
<1> QED BY <1>2, <1>3

\* A call that runs is pending and recorded as started.
LEMMA ToolRunKeeps == IInv /\ ToolRun => IInv'
<1> SUFFICES ASSUME IInv, ToolRun PROVE IInv'
  OBVIOUS
<1>1. /\ driver.pc = "execute" /\ OpenIs(driver.step, CallsFrom(0, driver.calls, driver.calls))
      /\ driver.calls \in Nat /\ LogInv
  BY TurnAssumption DEF IInv, ToolRun, DriverMatchesLog, DriverTypeOK
<1>2. PICK i \in 1..driver.calls : ran' = ran \cup {Call(driver.turn, driver.step, i)}
  BY DEF ToolRun
<1>3. UNCHANGED <<log, session, cancelled, driver, writing, closers, stops>> /\ open' = open
  BY DEF ToolRun, open
<1>4. /\ DOMAIN open.pending = 1..driver.calls
      /\ \A j \in 1..driver.calls : /\ open.pending[j].call = Call(driver.turn, driver.step, j)
                                    /\ open.pending[j].started
  <2>1. driver.calls - 0 = driver.calls /\ \A j \in 1..driver.calls : 0 + j = j /\ j <= driver.calls
    BY <1>1
  <2> QED BY <1>1, <2>1, ZenonT(30) DEF OpenIs, CallsFrom
<1>5. ~ Answered(Call(driver.turn, driver.step, i))
  BY <1>1, <1>2, <1>4 DEF LogInv, PendingMatchesLog, PendingUnanswered
<1>6. NotStartedNeverRan'
  BY <1>1, <1>2, <1>3, <1>5 DEF LogInv, NotStartedNeverRan, Answered
<1>7. PendingUnanswered'
  BY <1>1, <1>3, <1>4 DEF LogInv, PendingMatchesLog, PendingUnanswered, Answered
<1>8. LogInv'
  BY <1>1, <1>3, <1>6, <1>7, LogStays DEF LogInv, PendingMatchesLog
<1>9. TurnsStarted' /\ ClosersMatchLog' /\ DriverTypeOK' /\ StepsSoFar'
  BY <1>3 DEF IInv, TurnsStarted, ClosersMatchLog, DriverTypeOK, InTurn, StepsSoFar
<1>10. DriverMatchesLog'
  <2>1. driver.next = 1 /\ OpenIs(driver.step, CallsFrom(0, driver.calls, driver.calls))'
    BY <1>1, <1>3, ZenonT(30) DEF IInv, DriverMatchesLog, OpenIs, CallsFrom
  <2> QED BY <1>1, <1>3, <2>1 DEF DriverMatchesLog
<1> QED BY <1>8, <1>9, <1>10 DEF IInv

\* All tools have returned; none of their results is in the log.
LEMMA ToolsReturnedKeeps == IInv /\ ToolsReturned => IInv'
<1> SUFFICES ASSUME IInv, ToolsReturned PROVE IInv'
  OBVIOUS
<1>1. /\ driver.pc = "execute" /\ driver.next = 1
      /\ OpenIs(driver.step, CallsFrom(0, driver.calls, driver.calls)) /\ driver.calls \in Nat
  BY TurnAssumption DEF IInv, ToolsReturned, DriverMatchesLog, DriverTypeOK
<1>2. /\ driver' = [driver EXCEPT !.pc = "result"]
      /\ UNCHANGED <<log, session, cancelled, closers, ran, stops>>
  BY DEF ToolsReturned, GoTo
<1>3. /\ driver'.turn = driver.turn /\ driver'.step = driver.step /\ driver'.pc = "result"
      /\ driver'.calls = driver.calls /\ driver'.next = 1 /\ driver'.next - 1 = 0
      /\ driver'.next \in 1..(driver'.calls + 1)
  BY <1>1, <1>2 DEF IInv, DriverTypeOK
<1>4. OpenIs(driver.step, CallsFrom(driver.next - 1, driver.calls, driver.calls))'
  BY <1>1, <1>2, <1>3 DEF OpenIs, CallsFrom, open
<1>5. DriverTypeOK' /\ StepsSoFar' /\ DriverMatchesLog'
  BY <1>1, <1>2, <1>3, <1>4 DEF IInv, DriverTypeOK, InTurn, StepsSoFar, DriverMatchesLog
<1>6. LogInv' /\ TurnsStarted' /\ ClosersMatchLog'
  BY <1>2, Quiet
<1> QED BY <1>5, <1>6 DEF IInv

\* run_tools records the results in the order of the calls.
LEMMA ToolResultKeeps == IInv /\ ToolResultStep => IInv'
<1> SUFFICES ASSUME IInv, ToolResultStep PROVE IInv'
  OBVIOUS
<1>1. /\ driver.pc = "result" /\ driver.next \in 1..(driver.calls + 1)
      /\ OpenIs(driver.step, CallsFrom(driver.next - 1, driver.calls, driver.calls))
      /\ driver.calls \in 0..MaxCalls /\ driver.calls \in Nat
      /\ driver.turn \in Turns /\ driver.step \in 1..MaxSteps
  BY TurnAssumption DEF IInv, ToolResultStep, DriverMatchesLog, DriverTypeOK, InTurn
<1>2. CASE driver.next > driver.calls
  <2>1. driver.calls - (driver.next - 1) = 0
    BY <1>1, <1>2
  <2>2. Answering /\ open.pending = <<>>
    <3>1. CallsFrom(driver.next - 1, driver.calls, driver.calls) = <<>>
      BY <2>1 DEF CallsFrom
    <3> QED BY <1>1, <3>1 DEF OpenIs, Answering
  <2> QED BY <1>1, <1>2, <2>2, StepEndKeeps DEF ToolResultStep
<1>3. CASE ~(driver.next > driver.calls)
  <2>1. /\ driver' = [driver EXCEPT !.pc = "append", !.next = @ + 1]
        /\ writing'.event = ToolResult(driver.turn, driver.step,
                                     Call(driver.turn, driver.step, driver.next), "returned")
        /\ writing'.then = "result"
        /\ UNCHANGED <<log, session, cancelled, closers, ran, stops>>
    BY <1>3 DEF ToolResultStep
  <2>2. /\ driver'.turn = driver.turn /\ driver'.step = driver.step /\ driver'.pc = "append"
        /\ driver'.calls = driver.calls /\ driver'.next = driver.next + 1
        /\ driver.next + 1 \in 0..(MaxCalls + 1) /\ driver.next \in 1..driver.calls
        /\ (driver.next + 1) - 1 = driver.next /\ (driver.next + 1) - 2 = driver.next - 1
    BY <1>1, <1>3, <2>1, TurnAssumption DEF IInv, DriverTypeOK
  <2>3. OpenIs(driver.step, CallsFrom(driver.next - 2, driver.calls, driver.calls))'
    BY <1>1, <2>1, <2>2 DEF OpenIs, CallsFrom, open
  <2>4. BeforeAppend'
    BY <1>1, <2>1, <2>2, <2>3 DEF BeforeAppend, ToolResult, Call
  <2>5. DriverTypeOK' /\ StepsSoFar' /\ DriverMatchesLog'
    BY <1>1, <2>1, <2>2, <2>4, ZenonT(30) DEF IInv, DriverTypeOK, InTurn, StepsSoFar, DriverMatchesLog
  <2>6. LogInv' /\ TurnsStarted' /\ ClosersMatchLog'
    BY <2>1, Quiet
  <2> QED BY <2>5, <2>6 DEF IInv
<1> QED BY <1>2, <1>3

\* The next step is one the turn has no event of yet.
LEMMA NextStepKeeps ==
  ASSUME IInv, driver.pc # "idle", Between, driver.step # MaxSteps, NextStep
  PROVE  IInv'
<1>1. /\ driver' = [driver EXCEPT !.pc = "step", !.step = @ + 1, !.calls = 0, !.next = 0, !.retries = 0]
      /\ ran' = {} /\ UNCHANGED <<log, session, cancelled, closers, stops>>
  BY DEF NextStep
<1>2. /\ driver.turn \in Turns /\ driver.step \in 1..MaxSteps
      /\ driver'.turn = driver.turn /\ driver'.step = driver.step + 1 /\ driver'.pc = "step"
      /\ driver.step + 1 \in 1..MaxSteps /\ driver.step + 1 \in 0..MaxSteps /\ driver.step \in Nat
      /\ 0 \in 0..MaxCalls /\ 0 \in 0..(MaxCalls + 1) /\ 0 \in 0..MaxRetries
  BY <1>1, Resident, TurnAssumption DEF IInv, DriverTypeOK
<1>3. LogInv' /\ TurnsStarted' /\ ClosersMatchLog' /\ open' = open
  BY <1>1, Quiet
<1>4. DriverTypeOK'
  BY <1>1, <1>2, ZenonT(30) DEF IInv, DriverTypeOK, InTurn
<1>5. \A i \in DOMAIN log : log[i].turn = driver.turn => log[i].step <= driver.step /\ log[i].step \in Nat
  <2>1. \A i \in DOMAIN log : log[i].step \in 0..MaxSteps
    BY EventFields DEF IInv, LogInv
  <2> QED BY <2>1 DEF IInv, StepsSoFar
<1>6. StepsSoFar' /\ FreshStep'
  BY <1>1, <1>2, <1>5 DEF StepsSoFar, FreshStep
<1>7. Between'
  BY <1>2, <1>3 DEF Between, OpenIs
<1>8. DriverMatchesLog'
  BY <1>2, <1>6, <1>7 DEF DriverMatchesLog
<1> QED BY <1>3, <1>4, <1>6, <1>8 DEF IInv

\* What run_turn does between two steps.
LEMMA BetweenKeeps == IInv /\ (ToolsDone \/ ToolsEnd \/ Stopped \/ End) => IInv'
<1> SUFFICES ASSUME IInv, ToolsDone \/ ToolsEnd \/ Stopped \/ End PROVE IInv'
  OBVIOUS
<1>1. driver.pc \in {"tools-done", "tools-end", "stopped", "end"} /\ Between
  BY DEF IInv, ToolsDone, ToolsEnd, Stopped, End, DriverMatchesLog
<1>2. CASE EndTurn
  BY <1>1, <1>2, EndTurnKeeps
<1>3. CASE driver.step # MaxSteps /\ NextStep
  BY <1>1, <1>3, NextStepKeeps
<1>4. CASE GoTo([driver EXCEPT !.pc = "tools-end"])
  <2>1. /\ driver' = [driver EXCEPT !.pc = "tools-end"]
        /\ UNCHANGED <<log, session, cancelled, closers, ran, stops>>
    BY <1>4 DEF GoTo
  <2>2. driver'.turn = driver.turn /\ driver'.step = driver.step /\ driver'.pc = "tools-end"
    BY <2>1 DEF IInv, DriverTypeOK
  <2>3. Between'
    BY <1>1, <2>1, <2>2, DriverStays
  <2>4. DriverTypeOK' /\ StepsSoFar' /\ DriverMatchesLog'
    BY <1>1, <2>1, <2>2, <2>3 DEF IInv, DriverTypeOK, InTurn, StepsSoFar, DriverMatchesLog
  <2>5. LogInv' /\ TurnsStarted' /\ ClosersMatchLog'
    BY <2>1, Quiet
  <2> QED BY <2>4, <2>5 DEF IInv
<1>5. CASE Submit(Here("plan/mode"), "tools-end")
  <2>1. /\ driver' = [driver EXCEPT !.pc = "append"]
        /\ writing'.event = Event("plan/mode", driver.turn, driver.step) /\ writing'.then = "tools-end"
        /\ UNCHANGED <<log, session, cancelled, closers, ran, stops>>
    BY <1>5 DEF Submit, Here
  <2>2. driver'.turn = driver.turn /\ driver'.step = driver.step
    BY <2>1 DEF IInv, DriverTypeOK
  <2>3. Between'
    BY <1>1, <2>1, <2>2, DriverStays
  <2>4. BeforeAppend'
    BY <2>1, <2>2, <2>3 DEF BeforeAppend, Event, Here
  <2> QED BY <1>1, <2>1, <2>4, Submitted
<1>6. driver.step < MaxSteps => driver.step # MaxSteps
  BY TurnAssumption DEF IInv, DriverTypeOK
<1> QED BY <1>2, <1>3, <1>4, <1>5, <1>6 DEF ToolsDone, ToolsEnd, Stopped, End

\* The driver's claims hold on while the driver, its append and the log stay.
LEMMA DriverUnchanged ==
  ASSUME DriverMatchesLog, log' = log, ran' = ran, driver' = driver, writing' = writing
  PROVE  DriverMatchesLog'
<1>1. open' = open
  BY DEF open
<1>2. /\ Between' <=> Between
      /\ FreshStep' <=> FreshStep
      /\ Fresh' <=> Fresh
      /\ Answering' <=> Answering
      /\ CallsNotWanted' <=> CallsNotWanted
  BY DriverStays
<1>3. /\ OpenIs(driver.step, CallsFrom(0, driver.calls, driver.next - 1))'
           <=> OpenIs(driver.step, CallsFrom(0, driver.calls, driver.next - 1))
      /\ OpenIs(driver.step, CallsFrom(0, driver.calls, driver.next - 2))'
           <=> OpenIs(driver.step, CallsFrom(0, driver.calls, driver.next - 2))
      /\ OpenIs(driver.step, CallsFrom(0, driver.calls, driver.calls))'
           <=> OpenIs(driver.step, CallsFrom(0, driver.calls, driver.calls))
      /\ OpenIs(driver.step, CallsFrom(driver.next - 1, driver.calls, driver.calls))'
           <=> OpenIs(driver.step, CallsFrom(driver.next - 1, driver.calls, driver.calls))
      /\ OpenIs(driver.step, CallsFrom(driver.next - 2, driver.calls, driver.calls))'
           <=> OpenIs(driver.step, CallsFrom(driver.next - 2, driver.calls, driver.calls))
  BY <1>1, ZenonT(30) DEF OpenIs, CallsFrom
<1>4. BeforeAppend => BeforeAppend'
  <2>1. /\ \A kind : Here(kind)' = Here(kind)
        /\ (\A i \in DOMAIN log : log[i].turn < driver.turn)'
             <=> \A i \in DOMAIN log : log[i].turn < driver.turn
    BY DEF Here
  <2> QED BY <1>1, <1>2, <1>3, <2>1, ZenonT(30) DEF BeforeAppend
<1> QED BY <1>2, <1>3, <1>4 DEF DriverMatchesLog

\* Cancellation, another agent and a crash leave the log alone.
LEMMA StopKeeps == IInv /\ (Cancel \/ NewAgent \/ Crash) => IInv'
<1> SUFFICES ASSUME IInv, Cancel \/ NewAgent \/ Crash PROVE IInv'
  OBVIOUS
<1>1. log' = log /\ ran' = ran
  BY DEF Cancel, NewAgent, Crash
<1>2. LogInv' /\ TurnsStarted' /\ open' = open /\ (session' = session /\ closers' = closers => ClosersMatchLog')
  BY <1>1, Quiet
<1>3. CASE Cancel \/ NewAgent
  <2>1. UNCHANGED <<driver, writing, session, closers>> /\ cancelled' \in BOOLEAN
    BY <1>3, ZenonT(30) DEF Cancel, NewAgent
  <2>2. stops' \in 0..MaxStops
    <3>1. stops \in 0..MaxStops
      BY DEF IInv, DriverTypeOK
    <3>2. (stops' = stops + 1 /\ stops < MaxStops) \/ stops' = stops
      BY <1>3 DEF Cancel, NewAgent
    <3> QED BY <3>1, <3>2, TurnAssumption
  <2>3. DriverTypeOK' /\ StepsSoFar'
    BY <1>1, <2>1, <2>2 DEF IInv, DriverTypeOK, InTurn, StepsSoFar
  <2>4. DriverMatchesLog'
    BY <1>1, <2>1, DriverUnchanged DEF IInv
  <2> QED BY <1>2, <2>1, <2>3, <2>4 DEF IInv
<1>4. CASE Crash
  <2>1. /\ 0 \in 0..MaxTurns /\ 0 \in 0..MaxSteps /\ 0 \in 0..MaxCalls
        /\ 0 \in 0..(MaxCalls + 1) /\ 0 \in 0..MaxRetries /\ stops' \in 0..MaxStops
    BY <1>4, TurnAssumption DEF IInv, DriverTypeOK, Crash
  <2>2. DriverTypeOK' /\ DriverMatchesLog' /\ ClosersMatchLog' /\ StepsSoFar'
    BY <1>4, <2>1, ZenonT(30) DEF Crash, At, DriverTypeOK, InTurn, DriverMatchesLog, ClosersMatchLog, StepsSoFar
  <2> QED BY <1>2, <2>2 DEF IInv
<1> QED BY <1>3, <1>4

\* A restoration starts, or an append of it is refused.
LEMMA RestoreKeeps == IInv /\ ((\E mode \in RestoreModes : Restore(mode)) \/ CloserRefused) => IInv'
<1> SUFFICES ASSUME IInv, (\E mode \in RestoreModes : Restore(mode)) \/ CloserRefused PROVE IInv'
  OBVIOUS
<1>1. /\ UNCHANGED <<log, cancelled, driver, writing, ran, stops>> /\ session # "resident"
      /\ session' \in {"down", "restoring", "resident"}
  BY DEF Restore, CloserRefused
<1>2. driver.pc = "idle"
  BY <1>1 DEF IInv, DriverTypeOK
<1>3. LogInv' /\ TurnsStarted'
  BY <1>1, Quiet
<1>4. ClosersMatchLog'
  <2>1. InterruptedTurnClosers(log)' = InterruptedTurnClosers(log)
    BY <1>1
  <2> QED BY <1>1, <2>1 DEF IInv, ClosersMatchLog, Restore, CloserRefused
<1>5. DriverTypeOK' /\ StepsSoFar' /\ DriverMatchesLog'
  BY <1>1, <1>2 DEF IInv, DriverTypeOK, InTurn, StepsSoFar, DriverMatchesLog
<1> QED BY <1>3, <1>4, <1>5 DEF IInv

\* What a restoration still has to append closes the turn that is open.
LEMMA Restoring ==
  ASSUME IInv, session = "restoring"
  PROVE  closers = ClosersOf(open) /\ closers # <<>> /\ open.turn # 0 /\ driver.pc = "idle"
<1>1. closers = ClosersOf(open) /\ closers # <<>>
  BY DEF IInv, ClosersMatchLog, InterruptedTurnClosers, open
<1> QED BY <1>1 DEF ClosersOf, IInv, DriverTypeOK

\* A restoration appends the next closer.
LEMMA CloserAppendKeeps == IInv /\ CloserAppend => IInv'
<1> SUFFICES ASSUME IInv, CloserAppend PROVE IInv'
  OBVIOUS
<1>1. /\ closers = ClosersOf(open) /\ closers # <<>> /\ open.turn # 0 /\ driver.pc = "idle"
      /\ session = "restoring"
  BY Restoring DEF CloserAppend
<1>2. /\ log' = Append(log, Head(ClosersOf(open))) /\ ran' = ran /\ closers' = Tail(closers)
      /\ UNCHANGED <<cancelled, driver, writing, stops>>
      /\ session' = IF Len(closers) = 1 THEN "resident" ELSE session
  BY <1>1 DEF CloserAppend
<1>3. /\ LogInv' /\ ClosersOf(open)' = Tail(closers) /\ Len(closers) \in Nat \ {0}
      /\ Len(closers) = 1 => closers = <<Event("turn/end", open.turn, 0)>>
      /\ Head(ClosersOf(open)) \in LogEvents /\ Head(ClosersOf(open)).turn = open.turn
  BY <1>1, <1>2, AppendCloser DEF IInv
<1>4. TurnsStarted'
  <2>1. PICK e \in LogEvents : e = Head(ClosersOf(open))
    BY <1>3
  <2> QED BY <1>1, <1>2, <1>3, <2>1, TurnsStartedStep DEF IInv, LogInv
<1>5. InterruptedTurnClosers(log)' = Tail(closers)
  BY <1>3 DEF InterruptedTurnClosers, open
<1>6. Tail(closers) = <<>> <=> Len(closers) = 1
  BY <1>1, <1>2, AppendCloser DEF IInv
<1>7. ClosersMatchLog'
  BY <1>1, <1>2, <1>5, <1>6 DEF ClosersMatchLog
<1>8. DriverTypeOK' /\ StepsSoFar' /\ DriverMatchesLog'
  BY <1>1, <1>2 DEF IInv, DriverTypeOK, InTurn, StepsSoFar, DriverMatchesLog
<1> QED BY <1>3, <1>4, <1>7, <1>8 DEF IInv

\* A stuttering step keeps the invariant.
LEMMA StutterKeeps == IInv /\ UNCHANGED vars => IInv'
<1> SUFFICES ASSUME IInv, UNCHANGED vars PROVE IInv'
  OBVIOUS
<1> USE DEF vars
<1>1. LogInv' /\ TurnsStarted' /\ ClosersMatchLog' /\ open' = open
  BY Quiet
<1>2. DriverTypeOK' /\ StepsSoFar'
  BY DEF IInv, DriverTypeOK, InTurn, StepsSoFar
<1>3. DriverMatchesLog'
  BY DriverUnchanged DEF IInv
<1> QED BY <1>1, <1>2, <1>3 DEF IInv

\* Every step keeps the invariant.
LEMMA StepKeeps == IInv /\ [Next]_vars => IInv'
<1>1. IInv /\ DriverNext => IInv'
  BY CommitKeeps, RefuseKeeps, BeginKeeps, StepStartKeeps, BeforeAnswerKeeps, GenerateFailedKeeps,
     GeneratedKeeps, AfterAnswerKeeps, ToolCallKeeps, ToolRunKeeps, ToolsReturnedKeeps, ToolResultKeeps,
     BetweenKeeps DEF DriverNext
<1>2. IInv /\ RestoreNext => IInv'
  BY RestoreKeeps, CloserAppendKeeps DEF RestoreNext
<1> QED BY <1>1, <1>2, StopKeeps, StutterKeeps DEF Next

-----------------------------------------------------------------------------
(* The theorems *)

\* IInv holds in every reachable state, for every bound on turns, steps, calls,
\* retries and stops, with or without faults, and for every way of restoring.
THEOREM Invariance == Spec => []IInv
<1>1. Init => IInv
  BY InitInvariant
<1>2. IInv /\ [Next]_vars => IInv'
  BY StepKeeps
<1> QED BY <1>1, <1>2, PTL DEF Spec

\* Events name turns and steps in range, run_turn exceeds neither max_steps nor
\* its retry budget, and it runs only on a resident session.
THEOREM TypeCorrect == Spec => []TypeOK
<1>1. IInv => TypeOK
  <2> SUFFICES ASSUME IInv PROVE TypeOK
    OBVIOUS
  <2>1. \A i \in DOMAIN log : log[i].turn \in 1..MaxTurns /\ log[i].step \in 0..MaxSteps
    BY EventFields DEF IInv, LogInv, Turns
  <2>2. session = "restoring" <=> closers # <<>>
    BY DEF IInv, ClosersMatchLog
  <2> QED BY <2>1, <2>2 DEF IInv, DriverTypeOK, TypeOK
<1> QED BY <1>1, Invariance, PTL

\* next_turn gives a turn a number no earlier turn had, whatever was cancelled,
\* lost or restored before.
THEOREM TurnsAreNumbered == Spec => []TurnNumbersIncrease
<1>1. IInv => TurnNumbersIncrease
  BY DEF IInv, LogInv
<1> QED BY <1>1, Invariance, PTL

\* run_turn and interrupted_turn_closers close only the open step and the open
\* turn, each once, and no turn over an open step.
THEOREM ClosesAreMatched == Spec => []ClosesMatch
<1>1. IInv => ClosesMatch
  BY DEF IInv, LogInv
<1> QED BY <1>1, Invariance, PTL

\* A call is answered at most once, by run_tools or by a restoration, and only
\* in the step that announced it.
THEOREM ResultsAreUnique == Spec => []OneResultPerCall
<1>1. IInv => OneResultPerCall
  BY DEF IInv, LogInv
<1> QED BY <1>1, Invariance, PTL

\* interrupted_turn_closers reports no call as not started that has run.
THEOREM NotStartedIsTrue == Spec => []NotStartedNeverRan
<1>1. IInv => NotStartedNeverRan
  BY DEF IInv, LogInv
<1> QED BY <1>1, Invariance, PTL

\* The last event of some types, as seen from the end of the log.
LEMMA LastOfEnd ==
  ASSUME log \in Seq(LogEvents), NEW types, NEW j, IsLast(types, j)
  PROVE  LastOf(types, Len(log) + 1) = j
<1> DEFINE T == {0} \cup {k \in 1..((Len(log) + 1) - 1) : log[k].type \in types}
<1>1. /\ Len(log) \in Nat /\ (Len(log) + 1) - 1 = Len(log) /\ DOMAIN log = 1..Len(log)
      /\ j \in 1..Len(log) /\ log[j].type \in types
      /\ \A k \in 1..Len(log) : log[k].type \in types => k <= j
  BY DEF IsLast
<1>2. T \in SUBSET Nat /\ j \in T /\ \A y \in T : y <= j
  BY <1>1
<1> HIDE DEF T
<1>3. Max(T) = j
  BY <1>2, MaxIs
<1> QED BY <1>3 DEF LastOf, T

\* The append that completes a cold restoration closes the turn, and by then
\* every call the turn was to run is answered.
LEMMA RestorationCloses ==
  ASSUME IInv, [Next]_vars, session = "restoring", session' = "resident"
  PROVE  LET start == LastOf({"turn/start"}, Len(log) + 1)
         IN /\ log'[Len(log')].type = "turn/end"
            /\ \A i \in start..Len(log) : log[i].type = "assistant/message" /\ log[i].finish = "call" =>
                 \A n \in 1..log[i].calls : Answered(Call(log[i].turn, log[i].step, n))
<1>1. /\ closers = ClosersOf(open) /\ open.turn # 0 /\ driver.pc = "idle"
  BY Restoring
<1>2. CloserAppend /\ Len(closers) = 1
  BY <1>1 DEF Next, vars, DriverNext, RestoreNext, Commit, Refuse, Begin, StepStart, Input, StepError,
     Request, GenerateFailed, Retry, Generated, MaxTokens, ToolCall, ToolRun, ToolsReturned,
     ToolResultStep, ToolsDone, ToolsEnd, Stop, Stopped, End, Cancel, NewAgent, Crash, Restore,
     CloserAppend, CloserRefused
<1>3. log' = Append(log, Head(ClosersOf(open))) /\ ran' = ran
  BY <1>1, <1>2 DEF CloserAppend
<1>4. open.step = 0 /\ ClosersOf(open) = <<Event("turn/end", open.turn, 0)>>
  BY <1>1, <1>2, <1>3, AppendCloser DEF IInv
<1>5. log'[Len(log')].type = "turn/end"
  <2>1. log' = Append(log, Event("turn/end", open.turn, 0))
    BY <1>3, <1>4
  <2>2. log'[Len(log')] = Event("turn/end", open.turn, 0)
    BY <2>1 DEF IInv, LogInv
  <2> QED BY <2>2 DEF Event
<1>6. open.pending = <<>>
  BY <1>4 DEF IInv, LogInv, OpenMatchesLog
<1>7. PICK t \in DOMAIN log :
        /\ IsLast(TurnBounds, t) /\ log[t] = Event("turn/start", open.turn, 0)
        /\ \A i \in DOMAIN log : IF i < t THEN log[i].turn < open.turn ELSE log[i].turn = open.turn
  BY <1>1 DEF IInv, LogInv, OpenMatchesLog
<1>8. IsLast({"turn/start"}, t)
  BY <1>7 DEF IsLast, TurnBounds, Event
<1>9. LastOf({"turn/start"}, Len(log) + 1) = t
  BY <1>8, LastOfEnd DEF IInv, LogInv
<1>10. ASSUME NEW i \in t..Len(log), log[i].type = "assistant/message", log[i].finish = "call",
              NEW n \in 1..log[i].calls
       PROVE  Answered(Call(log[i].turn, log[i].step, n))
  <2>1. i \in DOMAIN log /\ ~(i < t)
    BY DEF IInv, LogInv
  <2>2. log[i].turn = open.turn
    BY <1>7, <2>1
  <2>3. DOMAIN open.pending = {}
    BY <1>6
  <2> QED BY <1>10, <2>1, <2>2, <2>3 DEF IInv, LogInv, PendingMatchesLog, WantedIsCovered
<1> QED BY <1>5, <1>9, <1>10

\* A cold SessionStore::restore hands out the session with its last turn closed
\* and every call that turn was to run answered.
THEOREM ColdRestorationCloses == Spec => ColdRestoreCloses
<1>1. IInv /\ [Next]_vars =>
        [session = "restoring" /\ session' = "resident" =>
           LET start == LastOf({"turn/start"}, Len(log) + 1)
           IN /\ log'[Len(log')].type = "turn/end"
              /\ \A i \in start..Len(log) : log[i].type = "assistant/message" /\ log[i].finish = "call" =>
                   \A n \in 1..log[i].calls : Answered(Call(log[i].turn, log[i].step, n))]_vars
  BY RestorationCloses
<1> QED BY <1>1, Invariance, PTL DEF Spec, ColdRestoreCloses

\* What a cold restoration has yet to append is at any time what a new one would
\* append: a crash or a refused append in the middle loses or repeats nothing.
THEOREM RestorationResumes ==
  Spec => [](session = "restoring" => closers = InterruptedTurnClosers(log))
<1>1. IInv => (session = "restoring" => closers = InterruptedTurnClosers(log))
  BY DEF IInv, ClosersMatchLog
<1> QED BY <1>1, Invariance, PTL
=============================================================================
