------------------------------ MODULE Workflow ------------------------------
(***************************************************************************)
(* Workflow runs (src/src/workflow.rs): a parsed straight-line script whose *)
(* children are started one after another (or replayed from a recording),  *)
(* the admission gate that cleanup closes, the durable record in the parent *)
(* session, and the end of the run.  The engine in use is                  *)
(* NativeWorkflowEngine; Extra are tasks of another WorkflowEngine that     *)
(* keep a clone of the context.  Prompts, labels and names are left out; a  *)
(* script is its statements, a child's reply is its number.                *)
(***************************************************************************)
EXTENDS Integers, Sequences, FiniteSets, SequencesExt

CONSTANTS
  Scripts,    \* scripts: sequences of statements
  Recordings, \* <<>> (live), or <<rows>>: the recording the engine is made from
  Extra,      \* tasks of an engine that keep the context
  MaxAgents,  \* max_total_agents
  MaxRuns,    \* bound: runs, one after another
  MaxOther,   \* bound: events that others append to the parent session
  Faults      \* children and appends may fail

VARIABLES
  queue,   \* NativeWorkflowMode: the recorded results left
  run,     \* the run and its RunState
  task,    \* where Main and the Extra tasks are
  adm,     \* ChildAdmissions
  cleanup, \* the task begin_cleanup spawns
  record,  \* recording_failed, its lock, and the members
  child,   \* the children accepted so far, of every run
  log,     \* the workflow events of the parent session
  other,   \* the number of its other events
  caller,  \* the caller's or the parent's token is cancelled
  value    \* what the runs returned

vars == <<queue, run, task, adm, cleanup, record, child, log, other, caller, value>>

Main == "main"
Tasks == {Main} \cup Extra
Failed == [ok |-> FALSE, ops |-> <<>>]

-----------------------------------------------------------------------------
(* Scripts and recordings *)

Bindings(ops) == {ops[i].name : i \in {j \in DOMAIN ops : ops[j].is = "const"}}
Agents(ops) == SelectSeq(ops, LAMBDA o : o.is = "const")

\* WorkflowParser::parse: phase and const statements, then one return of
\* every binding exactly once, and nothing after it.
Parse(script) ==
  LET last == IF script = <<>> THEN [is |-> "bad", name |-> 0, names |-> <<>>] ELSE Last(script)
      ops == IF script = <<>> THEN <<>> ELSE Front(script)
  IN IF /\ last.is = "return"
        /\ \A i \in DOMAIN ops : ops[i].is \in {"phase", "const"}
        /\ Agents(ops) # <<>> /\ Len(Agents(ops)) = Cardinality(Bindings(ops))
        /\ Len(last.names) = Cardinality(Bindings(ops)) /\ ToSet(last.names) = Bindings(ops)
     THEN [ok |-> TRUE, ops |-> ops] ELSE Failed

\* recorded_workflow_results: the results of the workflow calls in the order
\* of the results; <<>> when the recording is refused.
RecordedResults(rows) ==
  LET call(i) == rows[i].is = "call"
      closes(i, j) == i < j /\ rows[j].is = "result" /\ rows[j].id = rows[i].id
      answered(i) == \E j \in DOMAIN rows : closes(i, j)
      open(id, j) == \E i \in DOMAIN rows :
        /\ call(i) /\ rows[i].id = id /\ i < j
        /\ ~\E m \in (i + 1)..(j - 1) : rows[m].is = "result" /\ rows[m].id = id
      taken == {j \in DOMAIN rows : rows[j].is = "result" /\ open(rows[j].id, j)}
  IN IF \/ \E j \in DOMAIN rows : call(j) /\ open(rows[j].id, j)
        \/ \E i \in DOMAIN rows : call(i) /\ ~answered(i)
        \/ \E j \in taken : ~rows[j].success
     THEN <<>>
     ELSE <<[k \in 1..Cardinality(taken) |->
              rows[CHOOSE j \in taken : Cardinality({m \in taken : m <= j}) = k].value]>>

\* validate_recorded_result
ValidRecorded(result, ops) == DOMAIN result = Bindings(ops)

-----------------------------------------------------------------------------
(* The state of a run *)

Idle == [at |-> "idle", child |-> 0, seq |-> 0, event |-> <<>>, next |-> "none"]
NoRun == [at |-> "none", ops |-> <<>>, i |-> 1, recorded |-> <<>>, replies |-> <<>>,
          cancelled |-> FALSE, outcome |-> "none", count |-> 0, phase |-> "none",
          first |-> 1, began |-> FALSE]

Init ==
  /\ \E r \in Recordings :
       /\ queue = IF r = <<>> THEN <<>> ELSE RecordedResults(r[1])
       /\ r # <<>> => queue # <<>>
  /\ run = NoRun /\ task = [t \in Tasks |-> Idle]
  /\ adm = [closing |-> FALSE, pending |-> 0, children |-> <<>>, late |-> <<>>]
  /\ cleanup = [at |-> "none", todo |-> <<>>, results |-> <<>>]
  /\ record = [failed |-> FALSE, lock |-> "none", members |-> {}, ended |-> {}]
  /\ child = <<>> /\ log = <<>> /\ other = 0 /\ caller = FALSE /\ value = <<>>

Goto(t, at) == task' = [task EXCEPT ![t].at = at]
Live(c) == child[c].at = "live"
Settled(c) == child[c].at \in {"completed", "cancelled", "error"}

\* run_workflow up to the engine: the state of the run, then append_run.
Begin(script) ==
  /\ task[Main].at = "idle" /\ Len(value) < MaxRuns
  /\ run' = [NoRun EXCEPT !.at = "running", !.first = Len(child) + 1, !.ops = Parse(script).ops,
                          !.outcome = IF Parse(script).ok THEN "none" ELSE "error"]
  /\ adm' = [closing |-> FALSE, pending |-> 0, children |-> <<>>, late |-> <<>>]
  /\ cleanup' = [at |-> "none", todo |-> <<>>, results |-> <<>>]
  /\ record' = [failed |-> FALSE, lock |-> "none", members |-> {}, ended |-> {}]
  /\ task' = [task EXCEPT ![Main] = [Idle EXCEPT !.at = "record", !.event = <<"run-start", 0>>,
                                                 !.next = "engine"]]
  /\ UNCHANGED <<queue, child, log, other, caller, value>>

\* The caller's token is checked, then NativeWorkflowEngine::run starts: the
\* script was parsed, and recorded_result pops a result that fits it.
Engine ==
  /\ task[Main].at = "engine"
  /\ \/ /\ caller /\ run' = [run EXCEPT !.cancelled = TRUE, !.outcome = "cancelled"]
        /\ Goto(Main, "close") /\ UNCHANGED queue
     \/ /\ ~caller /\ run.outcome = "error" /\ run' = [run EXCEPT !.began = TRUE]
        /\ Goto(Main, "settle") /\ UNCHANGED queue
     \/ /\ ~caller /\ run.outcome = "none" /\ queue = <<>> /\ run' = [run EXCEPT !.began = TRUE]
        /\ Goto(Main, "op") /\ UNCHANGED queue
     \/ /\ ~caller /\ run.outcome = "none" /\ queue # <<>>
        /\ IF queue[1] # <<>> /\ ValidRecorded(queue[1][1], run.ops)
           THEN /\ run' = [run EXCEPT !.began = TRUE, !.recorded = <<queue[1][1]>>]
                /\ queue' = <<Tail(queue[1])>> /\ Goto(Main, "op")
           ELSE /\ run' = [run EXCEPT !.began = TRUE, !.outcome = "error"]
                /\ Goto(Main, "settle") /\ UNCHANGED queue
  /\ UNCHANGED <<adm, cleanup, record, child, log, other, caller, value>>

\* The caller, or the parent agent, cancels.
Cancel ==
  /\ ~caller /\ run.at # "none" /\ caller' = TRUE
  /\ UNCHANGED <<queue, run, task, adm, cleanup, record, child, log, other, value>>

\* The cancelled arms of the select! in run_workflow.
Propagate ==
  /\ caller /\ run.began /\ run.at = "running" /\ ~run.cancelled
  /\ task[Main].at \notin {"close", "closing", "finish", "record-end", "returned"}
  /\ run' = [run EXCEPT !.cancelled = TRUE]
  /\ UNCHANGED <<queue, task, adm, cleanup, record, child, log, other, caller, value>>

\* One statement of the engine's loop that starts no child.
Operate ==
  /\ task[Main].at = "op"
  /\ \/ /\ run.i > Len(run.ops)
        /\ run' = [run EXCEPT !.phase = "none", !.outcome = "completed"] /\ Goto(Main, "settle")
     \/ /\ run.i <= Len(run.ops) /\ run.ops[run.i].is = "phase"
        /\ run' = [run EXCEPT !.phase = run.ops[run.i].name, !.i = @ + 1] /\ UNCHANGED task
     \/ /\ run.i <= Len(run.ops) /\ run.ops[run.i].is = "const"
        /\ IF run.cancelled
           THEN run' = [run EXCEPT !.outcome = "error"] /\ Goto(Main, "settle")
           ELSE /\ run' = [run EXCEPT !.phase = IF @ = "none" THEN "Run" ELSE @]
                /\ Goto(Main, "admit")
  /\ UNCHANGED <<queue, adm, cleanup, record, child, log, other, caller, value>>

-----------------------------------------------------------------------------
(* Children *)

\* An error of a task: the engine's run fails, an Extra task ends.
Failing(t) == IF t = Main THEN "settle" ELSE "gone"
Erred(t) == IF t = Main THEN [run EXCEPT !.outcome = "error"] ELSE run

\* The limit and reserve_admission of start_agent.
Reserve(t) ==
  /\ \/ task[t].at = "admit"
     \/ t \in Extra /\ task[t].at = "idle" /\ run.began
  /\ IF run.count + 1 > MaxAgents
     THEN Goto(t, Failing(t)) /\ run' = Erred(t) /\ UNCHANGED adm
     ELSE IF adm.closing
     THEN /\ run' = [Erred(t) EXCEPT !.count = @ + 1] /\ Goto(t, Failing(t)) /\ UNCHANGED adm
     ELSE /\ run' = [run EXCEPT !.count = @ + 1]
          /\ task' = [task EXCEPT ![t].at = "starting", ![t].seq = run.count + 1]
          /\ adm' = [adm EXCEPT !.pending = @ + 1]
  /\ UNCHANGED <<queue, cleanup, record, child, log, other, caller, value>>

\* The start of the subagent returns: an error drops the permit, an activation
\* passes admit_or_queue.
Start(t) ==
  /\ task[t].at = "starting"
  /\ \/ /\ Faults \/ run.cancelled
        /\ adm' = [adm EXCEPT !.pending = @ - 1] /\ run' = Erred(t) /\ Goto(t, Failing(t))
        /\ UNCHANGED child
     \/ /\ child' = Append(child, [at |-> "live", text |-> FALSE, refused |-> FALSE])
        /\ adm' = IF adm.closing THEN [adm EXCEPT !.late = Append(@, Len(child) + 1)]
                                 ELSE [adm EXCEPT !.children = Append(@, Len(child) + 1)]
        /\ task' = [task EXCEPT ![t].at = IF adm.closing THEN "late" ELSE "admitted",
                                ![t].child = Len(child) + 1]
        /\ UNCHANGED run
  /\ UNCHANGED <<queue, cleanup, record, log, other, caller, value>>

\* begin_cleanup
BeginCleanup(r) ==
  /\ run' = [r EXCEPT !.cancelled = TRUE]
  /\ cleanup' = IF cleanup.at = "none" THEN [cleanup EXCEPT !.at = "spawned"] ELSE cleanup

\* The rest of start_agent up to its record: the permit is released.
Release(t) ==
  /\ task[t].at \in {"admitted", "late"} /\ adm' = [adm EXCEPT !.pending = @ - 1]
  /\ IF task[t].at = "late"
     THEN BeginCleanup(Erred(t)) /\ Goto(t, Failing(t))
     ELSE /\ task' = [task EXCEPT ![t].at = "record", ![t].next = "member",
                                  ![t].event = <<"agent-start", task[t].seq>>]
          /\ UNCHANGED <<run, cleanup>>
  /\ UNCHANGED <<queue, record, child, log, other, caller, value>>

\* record: nothing once an append failed, else the next sequence number is read.
RecordRead(t) ==
  /\ task[t].at = "record" /\ record.lock = "none"
  /\ IF record.failed THEN Goto(t, task[t].next) /\ UNCHANGED record
     ELSE /\ record' = [record EXCEPT !.lock = t]
          /\ task' = [task EXCEPT ![t].at = "append", ![t].event = <<@[1], @[2], Len(log) + other>>]
  /\ UNCHANGED <<queue, run, adm, cleanup, child, log, other, caller, value>>

\* ... and appended, which the session refuses when another event came first.
RecordAppend(t) ==
  /\ task[t].at = "append" /\ Goto(t, task[t].next)
  /\ \/ /\ task[t].event[3] = Len(log) + other
        /\ log' = Append(log, [run |-> Len(value) + 1, is |-> task[t].event[1],
                               of |-> task[t].event[2]])
        /\ record' = [record EXCEPT !.lock = "none"]
     \/ /\ Faults \/ task[t].event[3] # Len(log) + other
        /\ record' = [record EXCEPT !.lock = "none", !.failed = TRUE] /\ UNCHANGED log
  /\ UNCHANGED <<queue, run, adm, cleanup, child, other, caller, value>>

\* record_agent_start inserts the member if the event was recorded.
Member(t) ==
  /\ task[t].at = "member"
  /\ record' = IF [run |-> Len(value) + 1, is |-> "agent-start", of |-> task[t].seq]
                    \in ToSet(log)
               THEN [record EXCEPT !.members = @ \cup {<<task[t].child, task[t].seq>>}]
               ELSE record
  /\ Goto(t, "running")
  /\ UNCHANGED <<queue, run, adm, cleanup, child, log, other, caller, value>>

\* The child's run settles by itself, or because its token was cancelled; a
\* replayed child is settled by record_replay_child.
Settle(c) ==
  /\ Live(c) /\ (run.recorded = <<>> \/ run.cancelled)
  /\ \E s \in {"completed", "error", "cancelled"}, text \in BOOLEAN :
       /\ s = "cancelled" => run.cancelled
       /\ s = "error" => Faults
       /\ ~text => s # "completed" \/ Faults
       /\ text => s = "completed"
       /\ child' = [child EXCEPT ![c].at = s, ![c].text = text]
  /\ UNCHANGED <<queue, run, task, adm, cleanup, record, log, other, caller, value>>

\* record_agent_end marks the member, then records.
EndOf(t, c, then, tk) ==
  IF \E m \in record.members : m[1] = c /\ c \notin record.ended
  THEN /\ record' = [record EXCEPT !.ended = @ \cup {c}]
       /\ task' = [tk EXCEPT ![t].at = "record", ![t].next = then,
            ![t].event = <<"agent-end", (CHOOSE m \in record.members : m[1] = c)[2]>>]
  ELSE task' = [tk EXCEPT ![t].at = then] /\ UNCHANGED record

\* run_child, or record_replay_child: the child's result, then end_agent.  An
\* activation whose run fails, or a replay that cannot write, ends the engine.
Finished(t) ==
  /\ task[t].at = "running"
  /\ LET c == task[t].child replay == t = Main /\ run.recorded # <<>> IN
     \/ /\ ~replay /\ ~Live(c) /\ EndOf(t, c, "reply", task) /\ UNCHANGED <<child, run>>
     \/ /\ replay
        /\ child' = IF Live(c) THEN [child EXCEPT ![c].at = "completed", ![c].text = TRUE]
                    ELSE child
        /\ EndOf(t, c, "reply", task) /\ UNCHANGED run
     \/ /\ Faults /\ Goto(t, Failing(t)) /\ run' = Erred(t) /\ UNCHANGED <<child, record>>
  /\ UNCHANGED <<queue, adm, cleanup, log, other, caller, value>>

\* The reply is kept under its binding; no assistant text is an error.
Reply(t) ==
  /\ task[t].at = "reply"
  /\ \/ t \in Extra /\ Goto(t, "gone") /\ UNCHANGED run
     \/ /\ t = Main /\ (run.recorded # <<>> \/ child[task[t].child].text)
        /\ run' = [run EXCEPT !.i = @ + 1,
             !.replies = Append(@, [name |-> run.ops[run.i].name, of |-> task[t].child])]
        /\ Goto(t, "op")
     \/ /\ t = Main /\ run.recorded = <<>> /\ ~child[task[t].child].text
        /\ run' = Erred(t) /\ Goto(t, "settle")
  /\ UNCHANGED <<queue, adm, cleanup, record, child, log, other, caller, value>>

\* WorkflowRun::dispose by a task of the engine.
Dispose(t) ==
  /\ t \in Extra /\ task[t].at = "idle" /\ run.began /\ BeginCleanup(run) /\ Goto(t, "gone")
  /\ UNCHANGED <<queue, adm, record, child, log, other, caller, value>>

-----------------------------------------------------------------------------
(* The end of a run *)

\* The engine returned; close_and_dispose starts the cleanup.
Close ==
  /\ task[Main].at \in {"settle", "close"}
  /\ BeginCleanup([run EXCEPT !.outcome = IF run.cancelled THEN "cancelled" ELSE @])
  /\ Goto(Main, "closing")
  /\ UNCHANGED <<queue, adm, record, child, log, other, caller, value>>

\* cleanup_children: the gate closes and the admitted children are taken, ...
CleanupTake ==
  /\ \/ /\ cleanup.at = "spawned" /\ adm' = [adm EXCEPT !.closing = TRUE, !.children = <<>>]
        /\ cleanup' = [cleanup EXCEPT !.at = "children", !.todo = adm.children]
     \/ /\ cleanup.at = "children" /\ cleanup.todo = <<>> /\ adm.pending = 0
        /\ adm' = [adm EXCEPT !.late = <<>>]
        /\ cleanup' = [cleanup EXCEPT !.at = "late", !.todo = adm.late]
     \/ /\ cleanup.at = "late" /\ cleanup.todo = <<>>
        /\ cleanup' = [cleanup EXCEPT !.at = "done"] /\ UNCHANGED adm
  /\ UNCHANGED <<queue, run, task, record, child, log, other, caller, value>>

\* ... and each is disposed; one whose disposal fails is left out of the results.
CleanupDispose ==
  /\ cleanup.todo # <<>>
  /\ LET c == Head(cleanup.todo) IN
     \E s \in {"completed", "cancelled", "error", "refused"} :
       /\ s \in {"error", "refused"} => Faults \/ child[c].at = s
       /\ Settled(c) /\ s # "refused" => s = child[c].at
       /\ Live(c) => s # "completed"
       /\ child' = [child EXCEPT ![c].at = IF Live(c) THEN s ELSE @, ![c].refused = s = "refused"]
       /\ cleanup' = [cleanup EXCEPT !.todo = Tail(@),
            !.results = IF s = "refused" THEN @ ELSE Append(@, <<c, s>>)]
  /\ UNCHANGED <<queue, run, task, adm, record, log, other, caller, value>>

\* A failed child makes the run an error; finish_members starts.
Closed ==
  /\ task[Main].at = "closing" /\ cleanup.at = "done"
  /\ run' = IF \E i \in DOMAIN cleanup.results : cleanup.results[i][2] = "error"
            THEN [run EXCEPT !.outcome = "error"] ELSE run
  /\ Goto(Main, "finish")
  /\ UNCHANGED <<queue, adm, cleanup, record, child, log, other, caller, value>>

\* finish_members, one result at a time, then append_run_end.
Finish ==
  /\ task[Main].at = "finish"
  /\ LET left == SelectSeq(cleanup.results, LAMBDA r :
           r[1] \notin record.ended /\ \E m \in record.members : m[1] = r[1]) IN
     IF left # <<>> THEN EndOf(Main, left[1][1], "finish", task)
     ELSE /\ task' = [task EXCEPT ![Main].at = "record", ![Main].next = "returned",
                                  ![Main].event = <<"run-end", run.outcome>>]
          /\ UNCHANGED record
  /\ UNCHANGED <<queue, run, adm, cleanup, child, log, other, caller, value>>

\* The result is returned to the tool call.
Return ==
  /\ task[Main].at = "returned"
  /\ value' = Append(value, [outcome |-> run.outcome, recorded |-> run.recorded,
       replies |-> IF run.outcome = "completed" THEN run.replies ELSE <<>>])
  /\ run' = [run EXCEPT !.at = "none"] /\ Goto(Main, "idle")
  /\ UNCHANGED <<queue, adm, cleanup, record, child, log, other, caller>>

\* Another writer appends to the parent session.
AppendOther ==
  /\ other < MaxOther /\ other' = other + 1
  /\ UNCHANGED <<queue, run, task, adm, cleanup, record, child, log, caller, value>>

Next ==
  \/ \E s \in Scripts : Begin(s)
  \/ Engine \/ Cancel \/ Propagate \/ Operate
  \/ \E t \in Tasks : \/ Reserve(t) \/ Start(t) \/ Release(t) \/ RecordRead(t) \/ RecordAppend(t)
                      \/ Member(t) \/ Finished(t) \/ Reply(t) \/ Dispose(t)
  \/ \E c \in DOMAIN child : Settle(c)
  \/ Close \/ CleanupTake \/ CleanupDispose \/ Closed \/ Finish \/ Return \/ AppendOther

-----------------------------------------------------------------------------
Of(n) == SelectSeq(log, LAMBDA e : e.run = n)
At(es, is, of) == {i \in DOMAIN es : es[i].is = is /\ es[i].of = of}

\* The parent's record of a run is a prefix of a whole one: it starts with
\* run-start, ends a child at most once and after its start, has nothing after
\* run-end, and leaves no started child open at run-end unless its disposal was
\* refused.  A run whose record is not cut by a refused append ends with its
\* returned outcome (run_workflow, finish_members).
RecordIsWhole ==
  Extra = {} => \A n \in 1..(Len(value) + 1) :
    LET es == Of(n) IN
    /\ es # <<>> => es[1].is = "run-start"
    /\ \A i \in DOMAIN es : es[i].is = "agent-end" =>
         /\ At(es, "agent-end", es[i].of) = {i}
         /\ \E j \in At(es, "agent-start", es[i].of) : j < i
    /\ \A i \in DOMAIN es : es[i].is = "run-end" =>
         /\ i = Len(es)
         /\ n <= Len(value) => es[i].of = value[n].outcome
         /\ (\A c \in DOMAIN child : ~child[c].refused) =>
              \A j \in DOMAIN es : es[j].is = "agent-start" => At(es, "agent-end", es[j].of) # {}

\* A run that returned has left no child of its own running: each is settled
\* or disposed, or its disposal failed (close_and_dispose, late_children).
RunJoinsChildren ==
  run.at = "none" => \A c \in DOMAIN child : ~Live(c)

\* A completed run returns a reply for every agent of its script, in order,
\* each from a child that completed, and at most max_total_agents children are
\* ever started by it; with a recording the runs that take a recorded result
\* take them in the recorded order.
RepliesComplete ==
  /\ \A n \in DOMAIN value : value[n].outcome = "completed" =>
       /\ value[n].replies # <<>>
       /\ \A i \in DOMAIN value[n].replies :
            /\ child[value[n].replies[i].of].at = "completed"
            /\ \A j \in 1..(i - 1) : value[n].replies[j].of < value[n].replies[i].of
            /\ value[n].recorded # <<>> =>
                 value[n].replies[i].name \in DOMAIN value[n].recorded[1]
  /\ Len(child) - run.first + 1 <= MaxAgents
=============================================================================
