----------------------------- MODULE SqliteStore -----------------------------
(***************************************************************************)
(* The SQLite session store (src/src/persistence_sqlite.rs): one database  *)
(* file opened by several instances.  An instance serialises its calls     *)
(* with a mutex, so it has one call under way; a call that writes runs in  *)
(* one IMMEDIATE transaction, a call that reads issues its SELECTs outside *)
(* any transaction, and commits of other instances may fall between them.  *)
(*                                                                         *)
(* A row of the model is what the three tables hold of one session: its    *)
(* header, its persistence_state and its events.  Only the session of the  *)
(* running transaction differs between its image and the database.         *)
(***************************************************************************)
EXTENDS Integers, Sequences, FiniteSets

CONSTANTS
  Instances,  \* instances opened on the database file
  Sessions,   \* session ids, numbers because a listing is ordered by id
  Bodies,     \* what an event carries
  Kinds,      \* the calls made
  Legacies,   \* the columns the database file may start with
  MaxSeq,     \* bound: events of a session
  MaxCalls    \* bound: calls started

SqliteAssumption ==
  Sessions \subseteq Int /\ MaxSeq \in Nat /\ Legacies \subseteq {"no", "only", "both"}

VARIABLES
  db,      \* the committed rows
  legacy,  \* the columns of the table sessions: "no" preset, preset "only", or "both"
  opened,  \* the instances whose open succeeded
  writer,  \* the instances inside a transaction (the lock of the file)
  image,   \* the row of the running transaction's session
  task,    \* the call of each instance
  acked,   \* appends that were acknowledged
  calls    \* calls started so far

vars == <<db, legacy, opened, writer, image, task, acked, calls>>

NoHeader == [at |-> 0, mode |-> "none"]
NoState == [revision |-> 0, incarnation |-> 0, next |-> 0, flushes |-> 0]
Nothing == [header |-> NoHeader, state |-> NoState, events |-> {}]

Present(row) == row.header.at # 0
Event(seq, body) == [seq |-> seq, body |-> body]

\* validate_committed: the events are numbered from 0 to next - 1.
Validated(state, events) ==
  /\ state.incarnation > 0
  /\ {e.seq : e \in events} = 0 .. state.next - 1

Idle == [op |-> "none", at |-> "idle", s |-> 0, bodies |-> <<>>, seq |-> 0, ids |-> {},
         header |-> NoHeader, state |-> NoState, moved |-> FALSE, out |-> "none"]

\* A database of an earlier release names a preset where this one names a mode.
OldRow(mode) ==
  [header |-> [at |-> 1, mode |-> mode], state |-> [NoState EXCEPT !.incarnation = 1], events |-> {}]

Init ==
  /\ legacy \in Legacies
  /\ db \in [Sessions -> {Nothing} \cup {OldRow(mode) : mode \in {"preset", "unknown", "set"}}]
  /\ legacy = "no" => \A s \in Sessions : db[s].header.mode \in {"none", "set"}
  /\ opened = {} /\ writer = {} /\ image = Nothing
  /\ task = [i \in Instances |-> Idle] /\ acked = {} /\ calls = 1

Becomes(i, new) == task' = [task EXCEPT ![i] = new]
Moves(i, at) == Becomes(i, [task[i] EXCEPT !.at = at])
Ends(i, out) == Becomes(i, [task[i] EXCEPT !.at = "idle", !.out = out])

-----------------------------------------------------------------------------
(* Opening: the columns are read before the migrating transaction begins *)

Open(i) ==
  /\ i \notin opened /\ task[i].at = "idle"
  /\ \/ legacy = "no" /\ opened' = opened \cup {i} /\ UNCHANGED task
     \/ legacy # "no" /\ UNCHANGED opened
        /\ Becomes(i, [Idle EXCEPT !.op = "open", !.at = "migrate", !.out = legacy])
  /\ UNCHANGED <<db, legacy, writer, image, acked, calls>>

Migrated(row) == IF row.header.mode = "preset" THEN [row EXCEPT !.header.mode = "set"] ELSE row

\* The column is added twice when another instance migrated in between, and an unknown
\* preset needs a hand: the transaction rolls back and the open fails.
Migrate(i) ==
  /\ task[i].at = "migrate" /\ writer = {}
  /\ \/ /\ task[i].out = "only" => legacy = "only"
        /\ \A s \in Sessions : db[s].header.mode # "unknown"
        /\ db' = [s \in Sessions |-> Migrated(db[s])]
        /\ legacy' = "both" /\ opened' = opened \cup {i} /\ Becomes(i, Idle)
     \/ /\ \/ task[i].out = "only" /\ legacy # "only"
           \/ \E s \in Sessions : db[s].header.mode = "unknown"
        /\ Ends(i, "failed") /\ UNCHANGED <<db, legacy, opened>>
  /\ UNCHANGED <<writer, image, acked, calls>>

-----------------------------------------------------------------------------
(* Calls *)

Call(op, s, bodies, seq) == [Idle EXCEPT !.op = op, !.s = s, !.bodies = bodies, !.seq = seq,
                                         !.at = CASE op = "read" -> "header"
                                                  [] op = "list" -> "ids"
                                                  [] OTHER -> "begin"]

Start(i, call) ==
  /\ call.op \in Kinds /\ i \in opened /\ task[i].at = "idle" /\ calls < MaxCalls /\ calls' = calls + 1
  /\ Becomes(i, [call EXCEPT !.header = [at |-> calls + 1, mode |-> "set"]])
  /\ UNCHANGED <<db, legacy, opened, writer, image, acked>>

Seeds == UNION {[1 .. n -> Bodies] : n \in 0 .. MaxSeq}

\* create and create_seeded, append, rollback, flush, delete; load, inspect and read_from;
\* list.
Calls ==
  {Call("create", s, bodies, 0) : s \in Sessions, bodies \in Seeds}
  \cup {Call("append", s, <<b>>, n) : s \in Sessions, b \in Bodies, n \in 0 .. MaxSeq - 1}
  \cup {Call("rollback", s, <<>>, n) : s \in Sessions, n \in 0 .. MaxSeq}
  \cup {Call(op, s, <<>>, 0) : op \in {"flush", "delete", "read"}, s \in Sessions}
  \cup {Call("list", 0, <<>>, 0)}

\* An error or a cancellation: the transaction, if there is one, is dropped.
Fails(i, out) ==
  /\ Ends(i, out) /\ writer' = writer \ {i}
  /\ UNCHANGED <<db, legacy, opened, image, acked, calls>>

Fail(i) == task[i].at \notin {"idle", "ack"} /\ Fails(i, "failed")

\* The process of an instance ends; what it committed stays, unacknowledged or not.
Crash(i) ==
  /\ i \in opened \/ task[i].at # "idle"
  /\ opened' = opened \ {i} /\ writer' = writer \ {i} /\ Becomes(i, Idle)
  /\ UNCHANGED <<db, legacy, image, acked, calls>>

-----------------------------------------------------------------------------
(* Transactions *)

Begin(i) ==
  /\ task[i].at = "begin" /\ writer = {}
  /\ writer' = {i} /\ image' = db[task[i].s] /\ Moves(i, "check")
  /\ UNCHANGED <<db, legacy, opened, acked, calls>>

\* The lock was not free within the busy timeout.
Busy(i) == task[i].at = "begin" /\ writer # {} /\ Fails(i, "busy")

\* What the call asks of the row its transaction sees; the state it read stays with it.
Refusal(call, row) ==
  IF call.op = "create" THEN IF Present(row) THEN "exists" ELSE "none"
  ELSE IF ~Present(row) THEN "missing"
  ELSE IF call.op # "delete" /\ ~Validated(row.state, row.events) THEN "corrupt"
  ELSE IF call.op = "append" /\ call.seq # row.state.next THEN "gap"
  ELSE IF call.op = "rollback" /\ call.seq > row.state.next THEN "gap"
  ELSE "none"

Check(i) ==
  /\ task[i].at = "check"
  /\ LET why == Refusal(task[i], image)
     IN \/ why # "none" /\ Fails(i, why)
        \/ /\ why = "none"
           /\ Becomes(i, [task[i] EXCEPT !.at = "rows", !.state = image.state,
                                      !.header = IF task[i].op = "create" THEN @ ELSE image.header])
           /\ UNCHANGED <<db, legacy, opened, writer, image, acked, calls>>

Executes(i, row, at) ==
  /\ image' = row /\ Moves(i, at)
  /\ UNCHANGED <<db, legacy, opened, writer, acked, calls>>

\* The statement on the rows: the new header, the new event, the suffix that goes, or (ON
\* DELETE CASCADE) everything.
WriteRows(i) ==
  LET call == task[i] IN
  /\ call.at = "rows"
  /\ \/ /\ call.op = "create"
        /\ Executes(i, [image EXCEPT !.header = call.header], "state")
     \/ /\ call.op = "append"
        /\ Executes(i, [image EXCEPT !.events = @ \cup {Event(call.seq, call.bodies[1])}], "state")
     \/ /\ call.op = "rollback"
        /\ Executes(i, [image EXCEPT !.events = {e \in @ : e.seq < call.seq}], "state")
     \/ call.op = "flush" /\ Executes(i, image, "state")
     \/ call.op = "delete" /\ Executes(i, Nothing, "commit")

\* Mutant: an append that leaves the revision alone.
AdvancedQuietly(call, state) ==
  CASE call.op = "create" -> [revision |-> Len(call.bodies), incarnation |-> 1,
                              next |-> Len(call.bodies), flushes |-> 0]
    [] call.op = "append" -> [state EXCEPT !.next = call.seq + 1]
    [] call.op = "rollback" -> [state EXCEPT !.revision = @ + 1, !.next = call.seq,
                                             !.incarnation = @ + 1]
    [] OTHER -> [state EXCEPT !.revision = @ + 1, !.flushes = @ + 1]

\* The state row a call writes over the one it read.
Advanced(call, state) ==
  CASE call.op = "create" -> [revision |-> Len(call.bodies), incarnation |-> 1,
                              next |-> Len(call.bodies), flushes |-> 0]
    [] call.op = "append" -> [state EXCEPT !.revision = @ + 1, !.next = call.seq + 1]
    [] call.op = "rollback" -> [state EXCEPT !.revision = @ + 1, !.next = call.seq,
                                             !.incarnation = @ + 1]
    [] OTHER -> [state EXCEPT !.revision = @ + 1, !.flushes = @ + 1]

WriteState(i) ==
  /\ task[i].at = "state"
  /\ Executes(i, [image EXCEPT !.state = Advanced(task[i], @)],
              IF task[i].op = "create" THEN "seed" ELSE "commit")

\* The events of a seeded creation, one INSERT each.
WriteSeed(i) ==
  LET call == task[i] IN
  /\ call.at = "seed"
  /\ \/ /\ call.seq < Len(call.bodies)
        /\ image' = [image EXCEPT !.events = @ \cup {Event(call.seq, call.bodies[call.seq + 1])}]
        /\ Becomes(i, [call EXCEPT !.seq = @ + 1])
        /\ UNCHANGED <<db, legacy, opened, writer, acked, calls>>
     \/ call.seq = Len(call.bodies) /\ Executes(i, image, "commit")

\* A read that is under way when the row it reads is replaced has `moved'.
Concerned(call, s) == call.at \in {"header", "columns", "events"} /\ (call.s = s \/ s \in call.ids)

Commit(i) ==
  /\ task[i].at = "commit"
  /\ db' = [db EXCEPT ![task[i].s] = image] /\ writer' = {}
  /\ task' = [j \in Instances |->
       IF j = i THEN [task[i] EXCEPT !.at = "ack"]
       ELSE [task[j] EXCEPT !.moved = @ \/ Concerned(task[j], task[i].s)]]
  /\ UNCHANGED <<legacy, opened, image, acked, calls>>

\* The call returns Ok: an append promises its event to this incarnation of the session.
Promise(call) == [s |-> call.s, born |-> call.header.at, incarnation |-> call.state.incarnation,
                  event |-> Event(call.seq, call.bodies[1])]

Ack(i) ==
  LET call == task[i] IN
  /\ call.at = "ack" /\ Ends(i, "ok")
  /\ acked' = IF call.op # "append" THEN acked
              ELSE acked \cup {Promise(call)}
  /\ UNCHANGED <<db, legacy, opened, writer, image, calls>>

-----------------------------------------------------------------------------
(* Reads: read_session and list, a SELECT at a time *)

Reads(i, new) == Becomes(i, new) /\ UNCHANGED <<db, legacy, opened, writer, image, acked, calls>>

SelectIds(i) ==
  /\ task[i].at = "ids"
  /\ LET ids == {s \in Sessions : Present(db[s])}
     IN \/ ids = {} /\ Fails(i, "ok")
        \/ \E s \in ids :
             /\ \A other \in ids : s <= other
             /\ Reads(i, [task[i] EXCEPT !.at = "header", !.s = s, !.ids = ids \ {s}])

\* A listed session that has gone is reported as corruption, a session asked for as absent.
SelectHeader(i) ==
  LET call == task[i] IN
  /\ call.at = "header"
  /\ \/ ~Present(db[call.s]) /\ Fails(i, IF call.op = "list" THEN "corrupt" ELSE "missing")
     \/ /\ Present(db[call.s])
        /\ Reads(i, [call EXCEPT !.at = "columns", !.header = db[call.s].header])

SelectState(i) ==
  LET call == task[i] IN
  /\ call.at = "columns"
  /\ \/ db[call.s].state = NoState /\ Fails(i, "corrupt")
     \/ /\ db[call.s].state # NoState
        /\ Reads(i, [call EXCEPT !.at = "events", !.state = db[call.s].state])

SelectEvents(i) ==
  LET call == task[i] IN
  /\ call.at = "events"
  /\ \/ ~Validated(call.state, db[call.s].events) /\ Fails(i, "corrupt")
     \/ /\ Validated(call.state, db[call.s].events)
        /\ \/ call.ids = {} /\ Fails(i, "ok")
           \/ \E s \in call.ids :
                /\ \A other \in call.ids : s <= other
                /\ Reads(i, [call EXCEPT !.at = "header", !.s = s, !.ids = @ \ {s}])

Next ==
  \E i \in Instances :
    \/ Open(i) \/ Migrate(i) \/ Fail(i) \/ Crash(i)
    \/ \E call \in Calls : Start(i, call)
    \/ Begin(i) \/ Busy(i) \/ Check(i) \/ WriteRows(i) \/ WriteState(i) \/ WriteSeed(i)
    \/ Commit(i) \/ Ack(i)
    \/ SelectIds(i) \/ SelectHeader(i) \/ SelectState(i) \/ SelectEvents(i)

Spec == Init /\ [][Next]_vars

-----------------------------------------------------------------------------
(* Properties *)

\* What is committed is whole: a session has a header, a persistence state and events
\* numbered without a gap up to next_seq, or it has nothing at all, whichever statement of
\* which transaction failed, was cancelled or was cut short by a crash.
CommittedIsWhole ==
  \A s \in Sessions :
    db[s] = Nothing \/ (Present(db[s]) /\ Validated(db[s].state, db[s].events))

\* An acknowledged append stays stored until its session is rolled back (another
\* incarnation) or deleted (another header, or none).
AcknowledgedIsStored ==
  \A a \in acked :
    (/\ db[a.s].header.at = a.born
     /\ db[a.s].state.incarnation = a.incarnation) => a.event \in db[a.s].events

\* read_session issues its SELECTs outside any transaction: it takes a session for corrupt
\* only when another instance committed to that session between them.
CorruptionIsARace ==
  \A i \in Instances : task[i].out = "corrupt" => task[i].moved /\ task[i].op \in {"read", "list"}

\* A commit that changes a session advances its revision, so that equal revisions of one
\* header mean equal rows.
RevisionStep ==
  \A s \in Sessions :
    db'[s] # db[s] /\ db'[s].header.at = db[s].header.at /\ Present(db[s])
      => \/ db'[s].state.revision = db[s].state.revision + 1
         \/ db'[s] = Migrated(db[s])

RevisionAdvances == [][RevisionStep]_vars
=============================================================================
