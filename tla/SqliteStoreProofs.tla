------------------------- MODULE SqliteStoreProofs -------------------------
(***************************************************************************)
(* What every transaction of the SQLite session store keeps, for any       *)
(* number of instances, sessions, events and calls.                        *)
(***************************************************************************)
EXTENDS SqliteStore, SequenceTheorems, TLAPS

\* Time, and further attempts, for a leaf on a loaded machine.
USE SMTT(30), ZenonT(30), SMTT(40), SMTT(50), SMTT(60)

Headers == [at : Nat, mode : {"none", "preset", "unknown", "set"}]
States == [revision : Nat, incarnation : Nat, next : Nat, flushes : Nat]
Rows == [header : Headers, state : States, events : SUBSET [seq : Nat, body : Bodies]]

Ops == {"none", "open", "create", "append", "rollback", "flush", "delete", "read", "list"}
Inside == {"check", "rows", "state", "seed", "commit"}
Reading == {"header", "columns", "events"}
Outside == {"idle", "migrate", "begin", "ack", "ids"} \cup Reading

Outs == {"none", "no", "only", "both", "ok", "failed", "busy", "exists", "missing", "gap", "corrupt"}

Tasks == [op : Ops, at : Inside \cup Outside, s : Sessions \cup {0}, bodies : Seq(Bodies), seq : Nat,
          ids : SUBSET Sessions, header : Headers, state : States, moved : BOOLEAN, out : Outs]

\* validate_committed, or no session at all.
Whole(row) == row = Nothing \/ (Present(row) /\ Validated(row.state, row.events))

\* The types.
Shape ==
  /\ db \in [Sessions -> Rows] /\ image \in Rows /\ task \in [Instances -> Tasks]
  /\ writer \subseteq Instances /\ calls \in Nat /\ legacy \in {"no", "only", "both"}

\* The lock of the file: whoever is inside a transaction holds it, and holds it alone.
Locked ==
  /\ \A i \in Instances : i \in writer <=> task[i].at \in Inside
  /\ \A i, j \in writer : i = j

\* What a call is about, by its kind.
Meant(t) ==
  /\ t.at \in Inside \cup {"begin", "ack"} =>
       t.s \in Sessions /\ t.op \in {"create", "append", "rollback", "flush", "delete"}
  /\ t.at \in Reading => t.s \in Sessions /\ t.op \in {"read", "list"}
  /\ t.at = "ids" => t.op = "list"
  /\ t.op = "append" => Len(t.bodies) = 1
  /\ t.op = "create" /\ t.at \in {"begin", "check", "rows", "state"} => t.seq = 0

\* What the call has agreed to before it writes its first row.
Agreed(t, row) ==
  /\ t.op = "create" => row = Nothing
  /\ t.op # "create" => /\ Present(row) /\ t.state = row.state /\ t.header = row.header
  /\ t.op = "append" => t.seq = row.state.next
  /\ t.op = "rollback" => t.seq <= row.state.next

\* Where its transaction has got to, from the row the database holds.
Written(t, row, im) ==
  /\ t.at = "check" => im = row
  /\ t.at \in {"rows", "state", "seed", "commit"} => Agreed(t, row)
  /\ t.at = "rows" => im = row
  /\ t.at = "state" =>
       /\ t.op # "delete"
       /\ t.op = "create" => im = [Nothing EXCEPT !.header = t.header]
       /\ t.op = "append" =>
            im = [row EXCEPT !.events = @ \cup {Event(t.seq, t.bodies[1])}]
       /\ t.op = "rollback" => im = [row EXCEPT !.events = {e \in @ : e.seq < t.seq}]
       /\ t.op = "flush" => im = row
  /\ t.at = "seed" =>
       /\ t.op = "create" /\ im.header = t.header
       /\ im.state.incarnation = 1 /\ im.state.next = Len(t.bodies)
       /\ {e.seq : e \in im.events} = 0 .. t.seq - 1 /\ t.seq <= Len(t.bodies)
  /\ t.at = "commit" =>
       /\ Whole(im)
       /\ t.op = "delete" <=> im = Nothing
       /\ t.op = "create" => im.header = t.header
       /\ t.op \in {"append", "rollback", "flush"} =>
            im.header = row.header /\ im.state.revision = row.state.revision + 1
       /\ t.op = "append" => im.events = row.events \cup {Event(t.seq, t.bodies[1])}
       /\ t.op = "flush" => im.events = row.events
       /\ t.op \in {"append", "flush"} => im.state.incarnation = row.state.incarnation
       /\ t.op = "rollback" => im.state.incarnation = row.state.incarnation + 1

\* What a read holds is what the database holds, as long as nobody moved it.
Unmoved(t) ==
  (t.at \in Reading /\ ~t.moved) =>
    /\ \A s \in t.ids : Present(db[s])
    /\ t.op = "list" \/ t.at # "header" => Present(db[t.s])
    /\ t.at = "events" => t.state = db[t.s].state

\* Corruption is what a read reports that somebody moved.
Races(t) == t.out = "corrupt" => t.moved /\ t.op \in {"read", "list"}

\* A promise holds in its incarnation, and no later incarnation can have made it.
Kept(a) ==
  /\ a.s \in Sessions /\ a.born \in Nat /\ a.born > 0 /\ a.incarnation \in Nat
  /\ db[a.s].header.at = a.born => a.incarnation <= db[a.s].state.incarnation
  /\ db[a.s].header.at = a.born /\ db[a.s].state.incarnation = a.incarnation =>
       a.event \in db[a.s].events

\* Appends that are acknowledged, or committed and about to be.
Promises == acked \cup {Promise(task[i]) : i \in {j \in Instances :
                                               task[j].at = "ack" /\ task[j].op = "append"}}

\* A header is stamped with the number of the call that makes it, and no other has it.
Creating(t) == t.op = "create" /\ t.at \in Inside \cup {"begin"}

Stamped ==
  /\ \A s \in Sessions : db[s].header.at <= calls
  /\ \A i \in Instances : task[i].header.at <= calls
  /\ \A a \in Promises : a.born <= calls
  /\ \A i \in Instances : Creating(task[i]) =>
       /\ task[i].header.at > 0
       /\ \A s \in Sessions : db[s].header.at # task[i].header.at
       /\ \A a \in Promises : a.born # task[i].header.at
       /\ \A j \in Instances \ {i} : Creating(task[j]) => task[j].header.at # task[i].header.at

IInv ==
  /\ Shape /\ Locked
  /\ \A s \in Sessions : Whole(db[s])
  /\ \A i \in Instances : Meant(task[i]) /\ Unmoved(task[i]) /\ Races(task[i])
                          /\ (task[i].at \in Inside => Written(task[i], db[task[i].s], image))
  /\ \A a \in Promises : Kept(a)
  /\ Stamped

-----------------------------------------------------------------------------
(* Facts about the events of a row *)

\* The sequence numbers after an INSERT.
LEMMA SeqsAdd ==
  ASSUME NEW S, NEW x
  PROVE  {e.seq : e \in S \cup {x}} = {e.seq : e \in S} \cup {x.seq}
OBVIOUS

\* The sequence numbers after the DELETE of a suffix.
LEMMA SeqsCut ==
  ASSUME NEW S, NEW n
  PROVE  {e.seq : e \in {d \in S : d.seq < n}} = {k \in {e.seq : e \in S} : k < n}
OBVIOUS

\* An event has a number and a body.
LEMMA EventIs ==
  ASSUME NEW n \in Nat, NEW b \in Bodies
  PROVE  Event(n, b) \in [seq : Nat, body : Bodies] /\ Event(n, b).seq = n
BY DEF Event

\* Whether a row is there, in a database that is whole.
LEMMA WholeIs ==
  ASSUME NEW row \in Rows, Whole(row)
  PROVE  /\ ~Present(row) => row = Nothing
         /\ Present(row) => Validated(row.state, row.events) /\ row.state # NoState
         /\ Nothing \in Rows /\ ~Present(Nothing) /\ Whole(Nothing)
<1>1. Nothing \in Rows /\ ~Present(Nothing) /\ Whole(Nothing)
  BY DEF Nothing, NoHeader, NoState, Rows, Headers, States, Present, Whole
<1>2. Present(row) => Validated(row.state, row.events)
  BY <1>1 DEF Whole
<1>3. Validated(row.state, row.events) => row.state # NoState
  BY DEF Validated, NoState
<1> QED BY <1>1, <1>2, <1>3 DEF Whole

-----------------------------------------------------------------------------
(* A step of one instance that leaves the database alone *)

\* A step of one call that commits nothing keeps the invariant when it keeps what the
\* invariant says of this call, of the lock, of its promise and of the stamp it carries.
LEMMA Frame ==
  ASSUME IInv, NEW i \in Instances, NEW t \in Tasks, NEW im \in Rows, NEW w,
         task' = [task EXCEPT ![i] = t], image' = im, writer' = w,
         UNCHANGED <<db, legacy>>, calls' = calls \/ calls' = calls + 1,
         \/ acked' = acked
         \/ /\ task[i].at = "ack" /\ task[i].op = "append"
            /\ acked' = acked \cup {Promise(task[i])},
         im = image \/ writer \subseteq {i},
         w = (IF t.at \in Inside THEN {i} ELSE writer \ {i}),
         t.at \in Inside => writer \subseteq {i},
         Meant(t), Unmoved(t), Races(t), t.at # "ack",
         t.at \in Inside => Written(t, db[t.s], im),
         t.header.at <= calls',
         Creating(t) => \/ Creating(task[i]) /\ t.header = task[i].header
                        \/ t.header.at = calls + 1
  PROVE  IInv'
<1>1. /\ task'[i] = t /\ \A j \in Instances \ {i} : task'[j] = task[j]
      /\ task' \in [Instances -> Tasks] /\ task \in [Instances -> Tasks]
  BY DEF IInv, Shape
<1>2. Shape'
  BY <1>1 DEF IInv, Shape
<1>3. Locked'
  BY <1>1 DEF IInv, Locked, Shape
<1>4. Promises' \subseteq Promises
  <2>1. acked' \subseteq Promises
    BY DEF Promises
  <2>2. ASSUME NEW j \in Instances, task'[j].at = "ack", task'[j].op = "append"
        PROVE  Promise(task'[j]) \in Promises
    BY <1>1, <2>2 DEF Promises
  <2> QED BY <2>1, <2>2 DEF Promises
<1>5. ASSUME NEW j \in Instances
      PROVE  (Meant(task[j]) /\ Unmoved(task[j]) /\ Races(task[j])
              /\ (task[j].at \in Inside => Written(task[j], db[task[j].s], image)))'
  <2>1. CASE j = i
    BY <1>1, <2>1 DEF Meant, Unmoved, Races
  <2>2. CASE j # i
    <3>1. task'[j] = task[j] /\ Meant(task[j]) /\ Unmoved(task[j]) /\ Races(task[j])
      BY <1>1, <2>2 DEF IInv
    <3>2. Meant(task'[j]) /\ Unmoved(task[j])' /\ Races(task'[j])
      BY <3>1 DEF Unmoved
    <3>3. ASSUME task[j].at \in Inside PROVE Written(task[j], db[task[j].s], im)
      <4>1. j \in writer /\ ~(writer \subseteq {i})
        BY <2>2, <3>3 DEF IInv, Locked
      <4> QED BY <3>3, <4>1 DEF IInv
    <3> QED BY <3>1, <3>2, <3>3
  <2> QED BY <2>1, <2>2
<1>6. \A a \in Promises' : Kept(a)'
  BY <1>4 DEF IInv, Kept
<1>7. Stamped'
  <2>1. \A j \in Instances : Creating(task'[j]) =>
          \/ Creating(task[j]) /\ task'[j].header = task[j].header
          \/ j = i /\ task'[i].header.at = calls + 1
    BY <1>1
  <2>2. /\ \A j \in Instances : task[j].header.at \in Nat /\ task'[j].header.at \in Nat
        /\ \A s \in Sessions : db[s].header.at \in Nat
        /\ calls \in Nat /\ calls' \in Nat /\ calls <= calls'
    BY <1>1 DEF IInv, Shape, Tasks, Headers, Rows
  <2>3. \A j \in Instances : task'[j].header.at <= calls'
    BY <1>1, <2>2 DEF IInv, Stamped
  <2>4. \A s \in Sessions : db[s].header.at <= calls /\ db'[s].header.at <= calls'
    BY <2>2 DEF IInv, Stamped
  <2>5. \A a \in Promises : a.born <= calls /\ a.born \in Nat
    BY DEF IInv, Stamped, Kept
  <2>6. \A a \in Promises' : a.born <= calls'
    BY <1>4, <2>2, <2>5
  <2>7. ASSUME NEW j \in Instances, Creating(task'[j])
        PROVE  /\ task'[j].header.at > 0
               /\ \A s \in Sessions : db'[s].header.at # task'[j].header.at
               /\ \A a \in Promises' : a.born # task'[j].header.at
               /\ \A k \in Instances \ {j} : Creating(task'[k]) => task'[k].header.at # task'[j].header.at
    <3>1. CASE j = i /\ task'[i].header.at = calls + 1
      <4>1. \A k \in Instances \ {i} : task'[k].header.at <= calls
        BY <1>1 DEF IInv, Stamped
      <4> QED BY <1>4, <2>2, <2>4, <2>5, <3>1, <4>1
    <3>2. CASE Creating(task[j]) /\ task'[j].header = task[j].header
      <4>1. /\ task[j].header.at > 0 /\ task[j].header.at <= calls
            /\ \A s \in Sessions : db[s].header.at # task[j].header.at
            /\ \A a \in Promises : a.born # task[j].header.at
            /\ \A k \in Instances \ {j} : Creating(task[k]) => task[k].header.at # task[j].header.at
        BY <3>2 DEF IInv, Stamped
      <4> QED BY <1>4, <2>1, <2>2, <3>2, <4>1
    <3> QED BY <2>1, <2>7, <3>1, <3>2
  <2> QED BY <2>3, <2>4, <2>6, <2>7 DEF Stamped
<1> QED BY <1>2, <1>3, <1>5, <1>6, <1>7 DEF IInv

\* An error, a refusal, a cancellation or the end of a read.
LEMMA EndStep ==
  ASSUME IInv, NEW i \in Instances, NEW out \in Outs,
         task[i].at # "ack",
         out = "corrupt" => task[i].moved /\ task[i].op \in {"read", "list"},
         task' = [task EXCEPT ![i] = [task[i] EXCEPT !.at = "idle", !.out = out]],
         writer' = writer \ {i}, UNCHANGED <<db, legacy, image, acked, calls>>
  PROVE  IInv'
<1>1. PICK t : t = [task[i] EXCEPT !.at = "idle", !.out = out]
  OBVIOUS
<1>2. task[i] \in Tasks /\ image \in Rows /\ Meant(task[i])
  BY DEF IInv, Shape
<1>3. /\ t \in Tasks /\ t.at = "idle" /\ t.out = out /\ t.moved = task[i].moved /\ t.op = task[i].op
      /\ t.header = task[i].header /\ t.bodies = task[i].bodies
  BY <1>1, <1>2, ZenonT(30) DEF Tasks, Outside
<1>4. t.header.at <= calls
  BY <1>3 DEF IInv, Stamped
<1>5. Meant(t) /\ Unmoved(t) /\ Races(t) /\ ~Creating(t) /\ t.at \notin Inside
  BY <1>2, <1>3 DEF Meant, Unmoved, Races, Creating, Inside, Reading
<1>6. task' = [task EXCEPT ![i] = t]
  BY <1>1
<1> QED BY <1>2, <1>3, <1>4, <1>5, <1>6, Frame, ZenonT(30)

\* An error or a cancellation anywhere in a call keeps the invariant.
LEMMA FailStep == ASSUME IInv, NEW i \in Instances, Fail(i) PROVE IInv'
<1>1. /\ task[i].at # "ack" /\ writer' = writer \ {i}
      /\ task' = [task EXCEPT ![i] = [task[i] EXCEPT !.at = "idle", !.out = "failed"]]
      /\ UNCHANGED <<db, legacy, image, acked, calls>>
  BY DEF Fail, Fails, Ends, Becomes
<1> QED BY <1>1, EndStep, ZenonT(30) DEF Outs

\* A busy timeout keeps the invariant.
LEMMA BusyStep == ASSUME IInv, NEW i \in Instances, Busy(i) PROVE IInv'
<1>1. /\ task[i].at # "ack" /\ writer' = writer \ {i}
      /\ task' = [task EXCEPT ![i] = [task[i] EXCEPT !.at = "idle", !.out = "busy"]]
      /\ UNCHANGED <<db, legacy, image, acked, calls>>
  BY DEF Busy, Fails, Ends, Becomes
<1> QED BY <1>1, EndStep, ZenonT(30) DEF Outs

\* An idle instance holds nothing.
LEMMA IdleIs ==
  /\ Idle \in Tasks /\ Idle.at = "idle" /\ Idle.op = "none" /\ Idle.header.at = 0 /\ Idle.out = "none"
  /\ Idle.moved = FALSE /\ Idle.bodies = <<>>
<1>1. NoHeader \in Headers /\ NoState \in States
  BY DEF NoHeader, NoState, Headers, States
<1>2. <<>> \in Seq(Bodies)
  OBVIOUS
<1>3. Idle.header.at = 0
  BY DEF Idle, NoHeader
<1>5. "none" \in Ops /\ "idle" \in Inside \cup Outside /\ {} \in SUBSET Sessions
      /\ FALSE \in BOOLEAN /\ 0 \in Sessions \cup {0} /\ 0 \in Nat /\ "none" \in Outs
  BY DEF Ops, Outside, Outs
<1>4. Idle \in Tasks
  BY <1>1, <1>2, <1>5 DEF Idle, Tasks
<1> QED BY <1>3, <1>4 DEF Idle

\* A crash of an instance inside or outside a transaction keeps the invariant.
LEMMA CrashStep == ASSUME IInv, NEW i \in Instances, Crash(i) PROVE IInv'
<1>1. /\ task' = [task EXCEPT ![i] = Idle] /\ writer' = writer \ {i}
      /\ UNCHANGED <<db, legacy, image, acked, calls>>
  BY DEF Crash, Becomes
<1>2. Meant(Idle) /\ Unmoved(Idle) /\ Races(Idle) /\ ~Creating(Idle) /\ Idle.at \notin Inside
  BY IdleIs DEF Meant, Unmoved, Races, Creating, Inside, Reading
<1>3. Idle.header.at <= calls /\ image \in Rows
  BY IdleIs DEF IInv, Shape
<1> QED BY <1>1, <1>2, <1>3, IdleIs, Frame, ZenonT(30)

\* Opening, with or without a migration to come, keeps the invariant.
LEMMA OpenStep == ASSUME IInv, NEW i \in Instances, Open(i) PROVE IInv'
<1>1. CASE UNCHANGED task
  BY <1>1 DEF Open, IInv, Shape, Locked, Promises, Stamped, Unmoved, Kept
<1>2. CASE task' = [task EXCEPT ![i] = [Idle EXCEPT !.op = "open", !.at = "migrate", !.out = legacy]]
  <2>1. PICK t : t = [Idle EXCEPT !.op = "open", !.at = "migrate", !.out = legacy]
    OBVIOUS
  <2>2. /\ t \in Tasks /\ t.at = "migrate" /\ t.op = "open" /\ t.header = Idle.header
        /\ t.out \in {"no", "only", "both"}
    BY <2>1, IdleIs, ZenonT(30) DEF IInv, Shape, Tasks, Ops, Outside, Outs
  <2>3. Meant(t) /\ Unmoved(t) /\ Races(t) /\ ~Creating(t) /\ t.at \notin Inside
    BY <2>2 DEF Meant, Unmoved, Races, Creating, Inside, Reading
  <2>4. /\ task' = [task EXCEPT ![i] = t] /\ writer' = writer /\ i \notin writer
        /\ UNCHANGED <<db, legacy, image, acked, calls>>
    BY <1>2, <2>1 DEF Open, IInv, Locked, Inside
  <2>5. t.header.at <= calls /\ image \in Rows
    BY <2>2, IdleIs DEF IInv, Shape
  <2> QED BY <2>2, <2>3, <2>4, <2>5, Frame, ZenonT(30)
<1> QED BY <1>1, <1>2 DEF Open, Becomes

-----------------------------------------------------------------------------
(* The statements of a transaction *)

\* A call that goes to its next statement.
LEMMA MoveIs ==
  ASSUME NEW t \in Tasks, NEW at \in Inside \cup Outside, NEW u, u = [t EXCEPT !.at = at]
  PROVE  /\ u \in Tasks /\ u.at = at /\ u.op = t.op /\ u.s = t.s /\ u.bodies = t.bodies
         /\ u.seq = t.seq /\ u.ids = t.ids /\ u.header = t.header /\ u.state = t.state
         /\ u.moved = t.moved /\ u.out = t.out
BY DEF Tasks

\* BEGIN IMMEDIATE takes the free lock and sees the committed row.
LEMMA BeginStep == ASSUME IInv, NEW i \in Instances, Begin(i) PROVE IInv'
<1>1. PICK u : u = [task[i] EXCEPT !.at = "check"]
  BY ZenonT(30)
<1>2. /\ task[i] \in Tasks /\ Meant(task[i]) /\ Races(task[i]) /\ task[i].at = "begin"
      /\ task[i].header.at <= calls
  BY DEF IInv, Shape, Stamped, Begin
<1>3. "check" \in Inside
  BY DEF Inside
<1>4. /\ u \in Tasks /\ u.at = "check" /\ u.op = task[i].op /\ u.s = task[i].s /\ u.bodies = task[i].bodies
      /\ u.seq = task[i].seq /\ u.header = task[i].header /\ u.moved = task[i].moved /\ u.out = task[i].out
  BY <1>1, <1>2, <1>3, MoveIs
<1>5. Meant(u) /\ Unmoved(u) /\ Races(u) /\ (Creating(u) => Creating(task[i]))
  BY <1>2, <1>4 DEF Meant, Unmoved, Races, Creating, Inside, Reading
<1>6. u.s \in Sessions /\ db[u.s] \in Rows
  BY <1>2, <1>4 DEF Meant, IInv, Shape
<1>7. Written(u, db[u.s], db[u.s])
  BY <1>4 DEF Written
<1>8. /\ task' = [task EXCEPT ![i] = u] /\ image' = db[u.s] /\ writer' = {i} /\ writer = {}
      /\ UNCHANGED <<db, legacy, acked, calls>>
  BY <1>1, <1>4 DEF Begin, Moves, Becomes
<1> QED BY <1>2, <1>3, <1>4, <1>5, <1>6, <1>7, <1>8, Frame, ZenonT(30)

\* Who is inside a transaction is the only one.
LEMMA InsideIs ==
  ASSUME IInv, NEW i \in Instances, task[i].at \in Inside
  PROVE  /\ writer = {i} /\ task[i] \in Tasks /\ task[i].s \in Sessions /\ db[task[i].s] \in Rows
         /\ image \in Rows /\ Whole(db[task[i].s]) /\ Meant(task[i]) /\ Races(task[i])
         /\ task[i].header.at <= calls /\ Written(task[i], db[task[i].s], image)
         /\ task[i].op \in {"create", "append", "rollback", "flush", "delete"}
<1>1. task[i].s \in Sessions /\ task[i].op \in {"create", "append", "rollback", "flush", "delete"}
  BY DEF IInv, Meant
<1>2. writer = {i}
  BY DEF IInv, Locked, Shape
<1> QED BY <1>1, <1>2 DEF IInv, Shape, Stamped

\* A statement of a transaction, given that it leaves the image as Written says.
LEMMA StatementStep ==
  ASSUME IInv, NEW i \in Instances, task[i].at \in Inside, NEW u \in Tasks, NEW row \in Rows,
         u.at \in Inside, u.op = task[i].op, u.s = task[i].s, u.bodies = task[i].bodies,
         u.moved = task[i].moved, u.out = task[i].out,
         u.header = task[i].header \/ (u.op # "create" /\ u.header = db[u.s].header),
         u.seq = task[i].seq \/ u.at = "seed",
         u.op = "create" /\ u.at \in {"check", "rows", "state"} => task[i].at \in {"begin", "check", "rows", "state"},
         Written(u, db[u.s], row),
         task' = [task EXCEPT ![i] = u], image' = row,
         UNCHANGED <<db, legacy, writer, acked, calls>>
  PROVE  IInv'
<1>1. /\ writer = {i} /\ Meant(task[i]) /\ Races(task[i]) /\ task[i].header.at <= calls /\ u.s \in Sessions
      /\ task[i].op \in {"create", "append", "rollback", "flush", "delete"}
  BY InsideIs
<1>2. Meant(u) /\ Unmoved(u) /\ Races(u)
  BY <1>1 DEF Meant, Unmoved, Races, Reading, Inside
<1>3. Creating(u) => Creating(task[i]) /\ u.header = task[i].header
  BY DEF Creating
<1>4. u.header.at <= calls
  BY <1>1 DEF IInv, Stamped
<1>5. u.at # "ack"
  BY DEF Inside
<1> QED BY <1>1, <1>2, <1>3, <1>4, <1>5, Frame, ZenonT(30)

\* The checks of a call agree with the committed row or end the call.
LEMMA CheckStep == ASSUME IInv, NEW i \in Instances, Check(i) PROVE IInv'
<1>1. task[i].at = "check" /\ task[i].at \in Inside
  BY DEF Check, Inside
<1>2. /\ task[i] \in Tasks /\ image = db[task[i].s] /\ image \in Rows /\ Whole(image) /\ Meant(task[i])
      /\ task[i].op \in {"create", "append", "rollback", "flush", "delete"} /\ writer = {i}
  BY <1>1, InsideIs DEF Written
<1>3. PICK why : why = Refusal(task[i], image)
  OBVIOUS
<1>4. why \in {"none", "exists", "missing", "gap"}
  BY <1>2, <1>3, WholeIs DEF Refusal
<1>5. CASE why # "none"
  <2>1. /\ task' = [task EXCEPT ![i] = [task[i] EXCEPT !.at = "idle", !.out = why]]
        /\ writer' = writer \ {i} /\ UNCHANGED <<db, legacy, image, acked, calls>>
    BY <1>3, <1>5 DEF Check, Fails, Ends, Becomes
  <2> QED BY <1>1, <1>4, <2>1, EndStep, ZenonT(30) DEF Outs
<1>6. CASE why = "none"
  <2>1. PICK u : u = [task[i] EXCEPT !.at = "rows", !.state = image.state,
                                     !.header = IF task[i].op = "create" THEN @ ELSE image.header]
    OBVIOUS
  <2>2. "rows" \in Inside /\ image.state \in States /\ image.header \in Headers /\ task[i].header \in Headers
    BY <1>2 DEF Inside, Rows, Tasks
  <2>3. /\ u.at = "rows" /\ u.op = task[i].op /\ u.s = task[i].s /\ u.bodies = task[i].bodies
        /\ u.seq = task[i].seq /\ u.moved = task[i].moved /\ u.out = task[i].out
        /\ u.state = image.state
        /\ u.header = (IF task[i].op = "create" THEN task[i].header ELSE image.header)
    BY <1>2, <2>1 DEF Tasks
  <2>4. u \in Tasks
    BY <1>2, <2>1, <2>2, ZenonT(30) DEF Tasks
  <2>5. Agreed(u, image)
    <3>1. u.op = "create" => image = Nothing
      BY <1>2, <1>3, <1>6, <2>3, WholeIs DEF Refusal
    <3>2. u.op # "create" => Present(image) /\ u.header = image.header
      BY <1>3, <1>6, <2>3 DEF Refusal
    <3>3. u.op = "append" => u.seq = image.state.next
      BY <1>3, <1>6, <2>3 DEF Refusal
    <3>4. u.op = "rollback" => u.seq <= image.state.next
      BY <1>2, <1>3, <1>6, <2>3 DEF Refusal, Tasks, Rows, States
    <3> QED BY <2>3, <3>1, <3>2, <3>3, <3>4 DEF Agreed
  <2>6. Written(u, db[u.s], image)
    BY <1>2, <2>3, <2>5 DEF Written
  <2>7. /\ task' = [task EXCEPT ![i] = u] /\ image' = image
        /\ UNCHANGED <<db, legacy, writer, acked, calls>>
    BY <1>3, <1>6, <2>1 DEF Check, Fails, Becomes
  <2> QED BY <1>1, <1>2, <2>2, <2>3, <2>4, <2>6, <2>7, StatementStep, ZenonT(30)
<1> QED BY <1>5, <1>6

\* Executes is a statement that changes nothing of its call but where it stands.
LEMMA ExecutesStep ==
  ASSUME IInv, NEW i \in Instances, task[i].at \in Inside, NEW at \in Inside, NEW row \in Rows,
         Executes(i, row, at), at \notin {"check", "rows", "seed"} \/ task[i].at = "state",
         at = "state" => task[i].at = "rows",
         \A u \in Tasks :
           /\ u.at = at /\ u.op = task[i].op /\ u.s = task[i].s /\ u.bodies = task[i].bodies
           /\ u.seq = task[i].seq /\ u.header = task[i].header /\ u.state = task[i].state
           => Written(u, db[task[i].s], row)
  PROVE  IInv'
<1>1. PICK u : u = [task[i] EXCEPT !.at = at]
  BY ZenonT(30)
<1>2. task[i] \in Tasks
  BY InsideIs
<1>3. /\ u \in Tasks /\ u.at = at /\ u.op = task[i].op /\ u.s = task[i].s /\ u.bodies = task[i].bodies
      /\ u.seq = task[i].seq /\ u.header = task[i].header /\ u.state = task[i].state
      /\ u.moved = task[i].moved /\ u.out = task[i].out
  BY <1>1, <1>2, MoveIs
<1>4. Written(u, db[u.s], row)
  BY <1>3
<1>5. /\ task' = [task EXCEPT ![i] = u] /\ image' = row
      /\ UNCHANGED <<db, legacy, writer, acked, calls>>
  BY <1>1 DEF Executes, Moves, Becomes
<1>6. u.at \in {"check", "rows", "state"} => task[i].at \in {"begin", "check", "rows", "state"}
  BY <1>3
<1> QED BY <1>3, <1>4, <1>5, <1>6, StatementStep, ZenonT(30)

\* The statement on the rows leaves the image as the call means it.
LEMMA WriteRowsStep == ASSUME IInv, NEW i \in Instances, WriteRows(i) PROVE IInv'
<1>1. task[i].at = "rows" /\ task[i].at \in Inside /\ "state" \in Inside /\ "commit" \in Inside
  BY DEF WriteRows, Inside
<1>2. /\ task[i] \in Tasks /\ image = db[task[i].s] /\ image \in Rows /\ Whole(image) /\ Meant(task[i])
      /\ Agreed(task[i], image)
  BY <1>1, InsideIs DEF Written
<1>3. CASE task[i].op = "create"
  <2>1. PICK row : row = [image EXCEPT !.header = task[i].header]
    BY ZenonT(30)
  <2>2. row \in Rows /\ image = Nothing
    BY <1>2, <1>3, <2>1 DEF Rows, Tasks, Agreed
  <2>3. Executes(i, row, "state")
    BY <1>3, <2>1 DEF WriteRows
  <2>4. ASSUME NEW u \in Tasks, u.at = "state", u.op = task[i].op, u.header = task[i].header,
               u.s = task[i].s, u.bodies = task[i].bodies, u.seq = task[i].seq, u.state = task[i].state
        PROVE  Written(u, db[task[i].s], row)
    BY <1>2, <1>3, <2>1, <2>2, <2>4 DEF Written, Agreed
  <2> QED BY <1>1, <2>2, <2>3, <2>4, ExecutesStep
<1>4. CASE task[i].op = "append"
  <2>1. PICK row : row = [image EXCEPT !.events = @ \cup {Event(task[i].seq, task[i].bodies[1])}]
    BY ZenonT(30)
  <2>2. task[i].bodies[1] \in Bodies /\ task[i].seq \in Nat
    BY <1>2, <1>4 DEF Meant, Tasks
  <2>3. row \in Rows
    BY <1>2, <2>1, <2>2, EventIs DEF Rows
  <2>4. Executes(i, row, "state")
    BY <1>4, <2>1 DEF WriteRows
  <2>5. ASSUME NEW u \in Tasks, u.at = "state", u.op = task[i].op, u.header = task[i].header,
               u.s = task[i].s, u.bodies = task[i].bodies, u.seq = task[i].seq, u.state = task[i].state
        PROVE  Written(u, db[task[i].s], row)
    BY <1>2, <1>4, <2>1, <2>5 DEF Written, Agreed
  <2> QED BY <1>1, <2>3, <2>4, <2>5, ExecutesStep
<1>5. CASE task[i].op = "rollback"
  <2>1. PICK row : row = [image EXCEPT !.events = {e \in @ : e.seq < task[i].seq}]
    BY ZenonT(30)
  <2>2. row \in Rows
    BY <1>2, <2>1 DEF Rows
  <2>3. Executes(i, row, "state")
    BY <1>5, <2>1 DEF WriteRows
  <2>4. ASSUME NEW u \in Tasks, u.at = "state", u.op = task[i].op, u.header = task[i].header,
               u.s = task[i].s, u.bodies = task[i].bodies, u.seq = task[i].seq, u.state = task[i].state
        PROVE  Written(u, db[task[i].s], row)
    BY <1>2, <1>5, <2>1, <2>4 DEF Written, Agreed
  <2> QED BY <1>1, <2>2, <2>3, <2>4, ExecutesStep
<1>6. CASE task[i].op = "flush"
  <2>1. Executes(i, image, "state")
    BY <1>6 DEF WriteRows
  <2>2. ASSUME NEW u \in Tasks, u.at = "state", u.op = task[i].op, u.header = task[i].header,
               u.s = task[i].s, u.bodies = task[i].bodies, u.seq = task[i].seq, u.state = task[i].state
        PROVE  Written(u, db[task[i].s], image)
    BY <1>2, <1>6, <2>2 DEF Written, Agreed
  <2> QED BY <1>1, <1>2, <2>1, <2>2, ExecutesStep
<1>7. CASE task[i].op = "delete"
  <2>1. Executes(i, Nothing, "commit")
    BY <1>7 DEF WriteRows
  <2>2. Nothing \in Rows /\ Whole(Nothing)
    BY <1>2, WholeIs
  <2>3. ASSUME NEW u \in Tasks, u.at = "commit", u.op = task[i].op, u.header = task[i].header,
               u.s = task[i].s, u.bodies = task[i].bodies, u.seq = task[i].seq, u.state = task[i].state
        PROVE  Written(u, db[task[i].s], Nothing)
    BY <1>2, <1>7, <2>2, <2>3 DEF Written, Agreed
  <2> QED BY <1>1, <2>1, <2>2, <2>3, ExecutesStep
<1> QED BY <1>3, <1>4, <1>5, <1>6, <1>7 DEF WriteRows

\* The statement on persistence_state leaves the image whole again, a seeded creation aside.
LEMMA WriteStateStep == ASSUME IInv, NEW i \in Instances, WriteState(i) PROVE IInv'
<1>1. task[i].at = "state" /\ task[i].at \in Inside /\ "seed" \in Inside /\ "commit" \in Inside
  BY DEF WriteState, Inside
<1>2. PICK call : call = task[i]
  OBVIOUS
<1>3. PICK old : old = db[call.s]
  OBVIOUS
<1>4. /\ call \in Tasks /\ old \in Rows /\ Whole(old) /\ image \in Rows /\ Meant(call) /\ Agreed(call, old)
      /\ Written(call, old, image)
      /\ call.op \in {"create", "append", "rollback", "flush"}
  BY <1>1, <1>2, <1>3, InsideIs DEF Written
<1>5. PICK row : row = [image EXCEPT !.state = Advanced(call, @)]
  BY ZenonT(30)
<1>6. /\ row.header = image.header /\ row.events = image.events /\ row.state = Advanced(call, image.state)
      /\ Advanced(call, image.state) \in States => row \in Rows
  BY <1>4, <1>5 DEF Rows
<1>7. CASE call.op = "create"
  <2>1. /\ image.header = call.header /\ image.events = {} /\ call.seq = 0 /\ Len(call.bodies) \in Nat
    BY <1>1, <1>2, <1>4, <1>7 DEF Written, Meant, Nothing, Tasks
  <2>2. /\ row.state = [revision |-> Len(call.bodies), incarnation |-> 1, next |-> Len(call.bodies), flushes |-> 0]
    BY <1>6, <1>7 DEF Advanced
  <2>3. row \in Rows /\ row.state.incarnation = 1 /\ row.state.next = Len(call.bodies)
    BY <1>6, <2>1, <2>2 DEF States
  <2>4. {e.seq : e \in row.events} = 0 .. call.seq - 1
    BY <1>6, <2>1
  <2>5. Executes(i, row, "seed")
    BY <1>2, <1>5, <1>7 DEF WriteState
  <2>6. ASSUME NEW u \in Tasks, u.at = "seed", u.op = call.op, u.header = call.header,
               u.s = call.s, u.bodies = call.bodies, u.seq = call.seq, u.state = call.state
        PROVE  Written(u, old, row)
    BY <1>4, <1>6, <1>7, <2>1, <2>3, <2>4, <2>6 DEF Written, Agreed
  <2> QED BY <1>1, <1>2, <1>3, <2>3, <2>5, <2>6, ExecutesStep
<1>8. CASE call.op # "create"
  <2>1. /\ Present(old) /\ Validated(old.state, old.events) /\ old.state \in States
        /\ old.events \in SUBSET [seq : Nat, body : Bodies]
    BY <1>4, <1>8, WholeIs DEF Agreed, Rows
  <2>2. image.header = old.header /\ image.state = old.state
    BY <1>1, <1>2, <1>4, <1>8 DEF Written, Rows
  <2>3. /\ row.state \in States /\ row.state.revision = old.state.revision + 1 /\ row.state.incarnation > 0
        /\ call.op \in {"append", "flush"} => row.state.incarnation = old.state.incarnation
        /\ call.op = "rollback" => row.state.incarnation = old.state.incarnation + 1
        /\ call.op = "append" => row.state.next = call.seq + 1
        /\ call.op = "rollback" => row.state.next = call.seq
        /\ call.op = "flush" => row.state.next = old.state.next
    <3>1. call.seq \in Nat /\ old.state.incarnation > 0 /\ row.state = Advanced(call, old.state)
      BY <1>4, <1>6, <2>1, <2>2 DEF Validated, Tasks
    <3>2. CASE call.op = "append"
      <4>1. PICK st, new, n : st = old.state /\ new = row.state /\ n = call.seq + 1
        OBVIOUS
      <4>2. new = [st EXCEPT !.revision = @ + 1, !.next = n]
        BY <3>1, <3>2, <4>1 DEF Advanced
      <4>3. st \in States /\ n \in Nat /\ st.revision + 1 \in Nat
        BY <2>1, <3>1, <4>1 DEF States
      <4>4. /\ new \in States /\ new.revision = st.revision + 1
            /\ new.next = n /\ new.incarnation = st.incarnation
        BY <4>2, <4>3, ZenonT(30) DEF States
      <4> QED BY <3>1, <3>2, <4>1, <4>4
    <3>3. CASE call.op = "rollback"
      <4>1. PICK st, new, n, m : /\ st = old.state /\ new = row.state /\ n = call.seq
                                 /\ m = old.state.incarnation + 1
        OBVIOUS
      <4>2. new = [st EXCEPT !.revision = @ + 1, !.next = n, !.incarnation = m]
        BY <3>1, <3>3, <4>1 DEF Advanced
      <4>3. st \in States /\ n \in Nat /\ st.revision + 1 \in Nat /\ m \in Nat /\ m > 0
        BY <2>1, <3>1, <4>1 DEF States
      <4>4. /\ new \in States /\ new.revision = st.revision + 1
            /\ new.next = n /\ new.incarnation = m /\ new.incarnation > 0
        BY <4>2, <4>3, ZenonT(30) DEF States
      <4> QED BY <3>1, <3>3, <4>1, <4>4
    <3>4. CASE call.op = "flush"
      <4>1. PICK st, new : st = old.state /\ new = row.state
        OBVIOUS
      <4>2. new = [st EXCEPT !.revision = @ + 1, !.flushes = @ + 1]
        BY <3>1, <3>4, <4>1 DEF Advanced
      <4>3. st \in States /\ st.revision + 1 \in Nat /\ st.flushes + 1 \in Nat
        BY <2>1, <3>1, <4>1 DEF States
      <4>4. /\ new \in States /\ new.revision = st.revision + 1
            /\ new.next = st.next /\ new.incarnation = st.incarnation
        BY <4>2, <4>3, ZenonT(30) DEF States
      <4> QED BY <3>1, <3>4, <4>1, <4>4
    <3> QED BY <1>4, <1>8, <3>2, <3>3, <3>4
  <2>4. /\ call.op = "append" => row.events = old.events \cup {Event(call.seq, call.bodies[1])}
        /\ call.op = "rollback" => row.events = {e \in old.events : e.seq < call.seq}
        /\ call.op = "flush" => row.events = old.events
    BY <1>1, <1>2, <1>4, <1>6 DEF Written, Rows
  <2>5. {e.seq : e \in row.events} = 0 .. row.state.next - 1
    <3>1. CASE call.op = "append"
      <4>1. {e.seq : e \in row.events} = (0 .. old.state.next - 1) \cup {Event(call.seq, call.bodies[1]).seq}
        BY <2>1, <2>4, <3>1, SeqsAdd DEF Validated
      <4>2. call.seq = old.state.next /\ Event(call.seq, call.bodies[1]).seq = call.seq
        BY <1>4, <3>1 DEF Agreed, Event
      <4> QED BY <2>1, <2>3, <3>1, <4>1, <4>2 DEF States
    <3>2. CASE call.op = "rollback"
      <4>1. {e.seq : e \in row.events} = {k \in 0 .. old.state.next - 1 : k < call.seq}
        BY <2>1, <2>4, <3>2, SeqsCut DEF Validated
      <4>2. call.seq <= old.state.next /\ call.seq \in Nat
        BY <1>4, <3>2 DEF Agreed, Tasks
      <4> QED BY <2>1, <2>3, <3>2, <4>1, <4>2 DEF States
    <3>3. CASE call.op = "flush"
      BY <2>1, <2>3, <2>4, <3>3 DEF Validated
    <3> QED BY <1>4, <1>8, <3>1, <3>2, <3>3
  <2>6. Whole(row) /\ row # Nothing /\ row.header = old.header
    BY <1>6, <2>1, <2>2, <2>3, <2>5 DEF Whole, Validated, Present, Nothing, NoHeader
  <2>7. Executes(i, row, "commit") /\ row \in Rows
    BY <1>2, <1>5, <1>6, <1>8, <2>3 DEF WriteState
  <2>8. ASSUME NEW u \in Tasks, u.at = "commit", u.op = call.op, u.header = call.header,
               u.s = call.s, u.bodies = call.bodies, u.seq = call.seq, u.state = call.state
        PROVE  Written(u, old, row)
    <3>1. Agreed(u, old)
      BY <1>4, <2>8 DEF Agreed
    <3> QED BY <1>4, <1>8, <2>3, <2>4, <2>6, <2>8, <3>1 DEF Written
  <2> QED BY <1>1, <1>2, <1>3, <2>7, <2>8, ExecutesStep
<1> QED BY <1>7, <1>8

\* Each INSERT of a seed numbers one more event; after the last the image is whole.
LEMMA WriteSeedStep == ASSUME IInv, NEW i \in Instances, WriteSeed(i) PROVE IInv'
<1>1. task[i].at = "seed" /\ task[i].at \in Inside /\ "commit" \in Inside
  BY DEF WriteSeed, Inside
<1>2. PICK call : call = task[i]
  OBVIOUS
<1>3. /\ call \in Tasks /\ image \in Rows /\ Agreed(call, db[call.s]) /\ Written(call, db[call.s], image)
      /\ call.op = "create" /\ image.header = call.header
      /\ image.state.incarnation = 1 /\ image.state.next = Len(call.bodies)
      /\ {e.seq : e \in image.events} = 0 .. call.seq - 1 /\ call.seq <= Len(call.bodies)
      /\ call.header.at > 0
  <2>1. Written(call, db[call.s], image) /\ call \in Tasks /\ image \in Rows
    BY <1>1, <1>2, InsideIs
  <2>2. call.op = "create"
    BY <1>1, <1>2, <2>1 DEF Written
  <2>3. call.header.at > 0
    BY <1>1, <1>2, <2>2 DEF IInv, Stamped, Creating
  <2> QED BY <1>1, <1>2, <2>1, <2>2, <2>3 DEF Written
<1>4. call.bodies \in Seq(Bodies) /\ Len(call.bodies) \in Nat /\ call.seq \in Nat
  BY <1>3 DEF Tasks
<1>5. CASE call.seq < Len(call.bodies)
  <2>1. PICK row : row = [image EXCEPT !.events = @ \cup {Event(call.seq, call.bodies[call.seq + 1])}]
    BY ZenonT(30)
  <2>2. PICK u : u = [call EXCEPT !.seq = @ + 1]
    BY ZenonT(30)
  <2>3. call.bodies[call.seq + 1] \in Bodies
    BY <1>4, <1>5
  <2>4. /\ row \in Rows /\ row.header = image.header /\ row.state = image.state
        /\ row.events = image.events \cup {Event(call.seq, call.bodies[call.seq + 1])}
    BY <1>3, <1>4, <2>1, <2>3, EventIs DEF Rows
  <2>5. /\ u \in Tasks /\ u.at = "seed" /\ u.op = call.op /\ u.header = call.header
        /\ u.s = call.s /\ u.bodies = call.bodies /\ u.seq = call.seq + 1 /\ u.state = call.state
        /\ u.moved = call.moved /\ u.out = call.out
    BY <1>1, <1>2, <1>3, <1>4, <2>2 DEF Tasks
  <2>6. {e.seq : e \in row.events} = 0 .. u.seq - 1
    <3>1. {e.seq : e \in row.events} = (0 .. call.seq - 1) \cup {Event(call.seq, call.bodies[call.seq + 1]).seq}
      BY <1>3, <2>4, SeqsAdd
    <3>2. Event(call.seq, call.bodies[call.seq + 1]).seq = call.seq
      BY DEF Event
    <3> QED BY <1>4, <2>5, <3>1, <3>2
  <2>7. Written(u, db[u.s], row)
    BY <1>3, <1>4, <1>5, <2>4, <2>5, <2>6 DEF Written, Agreed
  <2>8. /\ task' = [task EXCEPT ![i] = u] /\ image' = row
        /\ UNCHANGED <<db, legacy, writer, acked, calls>>
    BY <1>2, <1>4, <1>5, <2>1, <2>2 DEF WriteSeed, Becomes
  <2> QED BY <1>1, <1>2, <2>4, <2>5, <2>7, <2>8, StatementStep, ZenonT(30)
<1>6. CASE call.seq = Len(call.bodies)
  <2>1. Executes(i, image, "commit")
    BY <1>2, <1>4, <1>6 DEF WriteSeed
  <2>2. Whole(image) /\ image # Nothing
    BY <1>3, <1>6 DEF Whole, Present, Validated, Nothing, NoHeader
  <2>3. ASSUME NEW u \in Tasks, u.at = "commit", u.op = call.op, u.header = call.header,
               u.s = call.s, u.bodies = call.bodies, u.seq = call.seq, u.state = call.state
        PROVE  Written(u, db[call.s], image)
    BY <1>3, <2>2, <2>3 DEF Written, Agreed
  <2> QED BY <1>1, <1>2, <1>3, <2>1, <2>3, ExecutesStep
<1> QED BY <1>2, <1>5, <1>6 DEF WriteSeed

-----------------------------------------------------------------------------
(* The SELECTs of a read *)

\* A read that ends, with the reason it ends with, keeps the invariant.
LEMMA FailsStep ==
  ASSUME IInv, NEW i \in Instances, NEW out \in Outs, task[i].at # "ack", Fails(i, out),
         out = "corrupt" => task[i].moved /\ task[i].op \in {"read", "list"}
  PROVE  IInv'
<1>1. /\ writer' = writer \ {i} /\ UNCHANGED <<db, legacy, image, acked, calls>>
      /\ task' = [task EXCEPT ![i] = [task[i] EXCEPT !.at = "idle", !.out = out]]
  BY DEF Fails, Ends, Becomes
<1> QED BY <1>1, EndStep, ZenonT(30)

\* A SELECT that leaves the read with what the database holds, unless it has been moved.
LEMMA SelectStep ==
  ASSUME IInv, NEW i \in Instances, NEW u \in Tasks, Reads(i, u),
         task[i].at \in Reading \cup {"ids"}, u.at \in Reading, u.op \in {"read", "list"}, u.s \in Sessions,
         u.moved = task[i].moved, u.out = task[i].out, u.op = task[i].op, Unmoved(u),
         u.header.at <= calls
  PROVE  IInv'
<1>1. Meant(u) /\ Races(u) /\ ~Creating(u) /\ u.at \notin Inside /\ u.at # "ack"
  BY ZenonT(30) DEF Meant, Races, Creating, Reading, Inside, IInv
<1>2. i \notin writer /\ image \in Rows
  BY ZenonT(30) DEF IInv, Locked, Inside, Reading, Shape
<1>3. /\ task' = [task EXCEPT ![i] = u] /\ writer' = writer \ {i}
      /\ UNCHANGED <<db, legacy, image, acked, calls>>
  BY <1>2 DEF Reads, Becomes
<1> QED BY <1>1, <1>2, <1>3, Frame, ZenonT(30)

\* The SELECT of the ids of a listing keeps the invariant.
LEMMA SelectIdsStep == ASSUME IInv, NEW i \in Instances, SelectIds(i) PROVE IInv'
<1>1. task[i].at = "ids" /\ task[i] \in Tasks /\ task[i].op = "list" /\ task[i].header.at <= calls
  BY ZenonT(30) DEF SelectIds, IInv, Shape, Meant, Stamped
<1>2. PICK ids : ids = {s \in Sessions : Present(db[s])}
  BY ZenonT(30)
<1>3. CASE ids = {} /\ Fails(i, "ok")
  BY <1>1, <1>3, FailsStep DEF Outs
<1>4. ASSUME NEW s \in ids, Reads(i, [task[i] EXCEPT !.at = "header", !.s = s, !.ids = ids \ {s}])
      PROVE  IInv'
  <2>1. PICK u : u = [task[i] EXCEPT !.at = "header", !.s = s, !.ids = ids \ {s}]
    OBVIOUS
  <2>2. s \in Sessions /\ ids \ {s} \in SUBSET Sessions /\ "header" \in Outside /\ "header" \in Reading
    BY <1>2, <1>4 DEF Outside, Reading
  <2>3. /\ u.at = "header" /\ u.s = s /\ u.ids = ids \ {s} /\ u.op = task[i].op
        /\ u.moved = task[i].moved /\ u.out = task[i].out /\ u.header = task[i].header
    BY <1>1, <2>1 DEF Tasks
  <2>4. u \in Tasks
    BY <1>1, <2>1, <2>2, ZenonT(30) DEF Tasks
  <2>5. Unmoved(u)
    BY <1>2, <1>4, <2>3 DEF Unmoved
  <2> QED BY <1>1, <1>4, <2>1, <2>2, <2>3, <2>4, <2>5, SelectStep, ZenonT(30)
<1> QED BY <1>2, <1>3, <1>4, ZenonT(30) DEF SelectIds

\* A read under way, and what it may rely on.
LEMMA ReadingIs ==
  ASSUME IInv, NEW i \in Instances, task[i].at \in Reading
  PROVE  /\ task[i] \in Tasks /\ task[i].s \in Sessions /\ task[i].op \in {"read", "list"}
         /\ db[task[i].s] \in Rows /\ Whole(db[task[i].s]) /\ Unmoved(task[i])
         /\ task[i].header.at <= calls /\ db[task[i].s].header.at <= calls /\ task[i].ids \subseteq Sessions
         /\ task[i].moved \in BOOLEAN
<1>1. task[i] \in Tasks /\ task[i].s \in Sessions /\ task[i].op \in {"read", "list"} /\ Unmoved(task[i])
  BY DEF IInv, Shape, Meant
<1>2. task[i].ids \subseteq Sessions /\ task[i].moved \in BOOLEAN
  BY <1>1 DEF Tasks
<1> QED BY <1>1, <1>2, ZenonT(30) DEF IInv, Shape, Stamped

\* The SELECT of a header keeps the invariant: a session that is gone was deleted meanwhile.
LEMMA SelectHeaderStep == ASSUME IInv, NEW i \in Instances, SelectHeader(i) PROVE IInv'
<1>1. /\ task[i].at = "header" /\ task[i].at \in Reading /\ task[i].at # "ack"
      /\ "columns" \in Reading /\ "columns" \in Outside
  BY DEF SelectHeader, Reading, Outside
<1>2. PICK call : call = task[i]
  OBVIOUS
<1>3. /\ call \in Tasks /\ call.s \in Sessions /\ call.op \in {"read", "list"} /\ db[call.s] \in Rows
      /\ Unmoved(call) /\ db[call.s].header.at <= calls
  BY <1>1, <1>2, ReadingIs
<1>4. CASE ~Present(db[call.s])
  <2>1. call.op = "list" => call.moved
    BY <1>1, <1>2, <1>3, <1>4 DEF Unmoved
  <2>2. CASE call.op = "list"
    <3>1. Fails(i, "corrupt") /\ "corrupt" \in Outs
      BY <1>2, <1>4, <2>2 DEF SelectHeader, Outs
    <3> QED BY <1>1, <1>2, <2>1, <2>2, <3>1, FailsStep
  <2>3. CASE call.op # "list"
    <3>1. Fails(i, "missing") /\ "missing" \in Outs
      BY <1>2, <1>4, <2>3 DEF SelectHeader, Outs
    <3> QED BY <1>1, <3>1, FailsStep
  <2> QED BY <2>2, <2>3
<1>5. CASE Present(db[call.s])
  <2>1. PICK u : u = [call EXCEPT !.at = "columns", !.header = db[call.s].header]
    OBVIOUS
  <2>2. /\ u.at = "columns" /\ u.s = call.s /\ u.ids = call.ids /\ u.op = call.op
        /\ u.moved = call.moved /\ u.out = call.out /\ u.header = db[call.s].header
    BY <1>3, <2>1 DEF Tasks
  <2>3. u \in Tasks
    BY <1>1, <1>3, <2>1, ZenonT(30) DEF Tasks, Rows
  <2>4. Unmoved(u)
    BY <1>1, <1>2, <1>3, <1>5, <2>2 DEF Unmoved
  <2>5. Reads(i, u)
    BY <1>2, <1>5, <2>1 DEF SelectHeader
  <2> QED BY <1>1, <1>2, <1>3, <2>2, <2>3, <2>4, <2>5, SelectStep
<1> QED BY <1>4, <1>5

\* The SELECT of the state keeps the invariant: a state that is gone was deleted meanwhile.
LEMMA SelectStateStep == ASSUME IInv, NEW i \in Instances, SelectState(i) PROVE IInv'
<1>1. /\ task[i].at = "columns" /\ task[i].at \in Reading /\ task[i].at # "ack"
      /\ "events" \in Reading /\ "events" \in Outside
  BY DEF SelectState, Reading, Outside
<1>2. PICK call : call = task[i]
  OBVIOUS
<1>3. /\ call \in Tasks /\ call.s \in Sessions /\ call.op \in {"read", "list"} /\ db[call.s] \in Rows
      /\ Unmoved(call) /\ Whole(db[call.s]) /\ call.header.at <= calls
  BY <1>1, <1>2, ReadingIs
<1>4. ~call.moved => Present(db[call.s])
  BY <1>1, <1>2, <1>3 DEF Unmoved
<1>5. CASE db[call.s].state = NoState
  <2>1. call.moved
    BY <1>3, <1>4, <1>5, WholeIs
  <2>2. Fails(i, "corrupt") /\ "corrupt" \in Outs
    BY <1>2, <1>5 DEF SelectState, Outs
  <2> QED BY <1>1, <1>2, <1>3, <2>1, <2>2, FailsStep
<1>6. CASE db[call.s].state # NoState
  <2>1. PICK u : u = [call EXCEPT !.at = "events", !.state = db[call.s].state]
    OBVIOUS
  <2>2. /\ u.at = "events" /\ u.s = call.s /\ u.ids = call.ids /\ u.op = call.op
        /\ u.moved = call.moved /\ u.out = call.out /\ u.header = call.header
        /\ u.state = db[call.s].state
    BY <1>3, <2>1 DEF Tasks
  <2>3. u \in Tasks
    BY <1>1, <1>3, <2>1, ZenonT(30) DEF Tasks, Rows
  <2>4. Unmoved(u)
    BY <1>1, <1>2, <1>3, <1>4, <2>2 DEF Unmoved
  <2>5. Reads(i, u)
    BY <1>2, <1>6, <2>1 DEF SelectState
  <2> QED BY <1>1, <1>2, <1>3, <2>2, <2>3, <2>4, <2>5, SelectStep
<1> QED BY <1>5, <1>6

\* The SELECT of the events keeps the invariant: a gap means that somebody committed meanwhile.
LEMMA SelectEventsStep == ASSUME IInv, NEW i \in Instances, SelectEvents(i) PROVE IInv'
<1>1. /\ task[i].at = "events" /\ task[i].at \in Reading /\ task[i].at # "ack"
      /\ "header" \in Reading /\ "header" \in Outside
  BY ZenonT(30) DEF SelectEvents, Reading, Outside
<1>2. PICK call : call = task[i]
  OBVIOUS
<1>3. /\ call \in Tasks /\ call.s \in Sessions /\ call.op \in {"read", "list"} /\ db[call.s] \in Rows
      /\ Unmoved(call) /\ Whole(db[call.s]) /\ call.header.at <= calls /\ call.ids \subseteq Sessions
  BY <1>1, <1>2, ReadingIs
<1>4. ~call.moved => Present(db[call.s]) /\ call.state = db[call.s].state /\ \A s \in call.ids : Present(db[s])
  BY <1>1, <1>2, <1>3 DEF Unmoved
<1>5. CASE ~Validated(call.state, db[call.s].events)
  <2>1. call.moved
    BY <1>3, <1>4, <1>5, WholeIs
  <2>2. Fails(i, "corrupt") /\ "corrupt" \in Outs
    BY <1>2, <1>5, ZenonT(30) DEF SelectEvents, Outs
  <2> QED BY <1>1, <1>2, <1>3, <2>1, <2>2, FailsStep
<1>6. CASE Fails(i, "ok")
  BY <1>1, <1>6, FailsStep DEF Outs
<1>7. ASSUME NEW s \in call.ids, Reads(i, [call EXCEPT !.at = "header", !.s = s, !.ids = @ \ {s}])
      PROVE  IInv'
  <2>1. PICK u : u = [call EXCEPT !.at = "header", !.s = s, !.ids = @ \ {s}]
    OBVIOUS
  <2>2. /\ u.at = "header" /\ u.s = s /\ u.ids = call.ids \ {s} /\ u.op = call.op
        /\ u.moved = call.moved /\ u.out = call.out /\ u.header = call.header
    BY <1>3, <2>1 DEF Tasks
  <2>3. u \in Tasks /\ s \in Sessions
    BY <1>1, <1>3, <1>7, <2>1, ZenonT(30) DEF Tasks
  <2>4. Unmoved(u)
    BY <1>4, <1>7, <2>2 DEF Unmoved
  <2> QED BY <1>1, <1>2, <1>3, <1>7, <2>1, <2>2, <2>3, <2>4, SelectStep, ZenonT(30)
<1> QED BY <1>2, <1>5, <1>6, <1>7, ZenonT(30) DEF SelectEvents

-----------------------------------------------------------------------------
(* The beginning and the end of a call *)

\* A call before it starts, by the operation.
LEMMA CallIs ==
  ASSUME NEW op \in Ops \ {"none", "open"}, NEW s \in Sessions \cup {0}, NEW bodies \in Seq(Bodies),
         NEW seq \in Nat, op # "list" => s \in Sessions, op = "append" => Len(bodies) = 1,
         op = "create" => seq = 0, NEW call, call = Call(op, s, bodies, seq)
  PROVE  /\ call \in Tasks /\ call.out = "none" /\ call.ids = {} /\ Meant(call)
         /\ call.at \in {"header", "ids", "begin"} /\ (call.at = "header" => call.op = "read")
<1>1. PICK at : at = (CASE op = "read" -> "header" [] op = "list" -> "ids" [] OTHER -> "begin")
  OBVIOUS
<1>2. at \in {"header", "ids", "begin"} /\ at \in Outside
  BY <1>1 DEF Outside, Reading
<1>3. call = [Idle EXCEPT !.op = op, !.s = s, !.bodies = bodies, !.seq = seq, !.at = at]
  BY <1>1 DEF Call
<1>4. /\ call.op = op /\ call.s = s /\ call.bodies = bodies /\ call.seq = seq /\ call.at = at
      /\ call.out = "none" /\ call.ids = {}
  BY <1>3 DEF Idle
<1>5. call \in Tasks
  BY <1>2, <1>3, IdleIs, ZenonT(30) DEF Tasks
<1>6. Meant(call)
  BY <1>1, <1>2, <1>4 DEF Meant, Inside, Reading, Ops
<1> QED BY <1>1, <1>2, <1>4, <1>5, <1>6

\* Every call there is.
LEMMA CallsIs ==
  ASSUME MaxSeq \in Nat, NEW call \in Calls
  PROVE  /\ call \in Tasks /\ call.out = "none" /\ call.ids = {} /\ Meant(call)
         /\ call.at \in {"header", "ids", "begin"} /\ (call.at = "header" => call.op = "read")
<1>1. CASE call \in {Call("create", s, bodies, 0) : s \in Sessions, bodies \in Seeds}
  <2>1. PICK s \in Sessions, bodies \in Seeds : call = Call("create", s, bodies, 0)
    BY <1>1
  <2>2. PICK n \in 0 .. MaxSeq : bodies \in [1 .. n -> Bodies]
    BY DEF Seeds
  <2>3. bodies \in Seq(Bodies)
    BY <2>2, SeqDef
  <2> QED BY <2>1, <2>3, CallIs DEF Ops
<1>2. CASE call \in {Call("append", s, <<b>>, n) : s \in Sessions, b \in Bodies, n \in 0 .. MaxSeq - 1}
  <2>1. PICK s \in Sessions, b \in Bodies, n \in 0 .. MaxSeq - 1 : call = Call("append", s, <<b>>, n)
    BY <1>2
  <2>2. PICK bodies : bodies = <<b>>
    BY ZenonT(30)
  <2>3. bodies \in Seq(Bodies) /\ Len(bodies) = 1 /\ n \in Nat
    BY <2>2
  <2>4. call = Call("append", s, bodies, n) /\ "append" \in Ops \ {"none", "open"}
    BY <2>1, <2>2 DEF Ops
  <2> QED BY <2>3, <2>4, CallIs
<1>3. CASE call \in {Call("rollback", s, <<>>, n) : s \in Sessions, n \in 0 .. MaxSeq}
  <2>1. PICK s \in Sessions, n \in 0 .. MaxSeq : call = Call("rollback", s, <<>>, n)
    BY <1>3
  <2>2. PICK bodies : bodies = <<>>
    OBVIOUS
  <2>3. bodies \in Seq(Bodies) /\ n \in Nat
    BY <2>2
  <2>4. call = Call("rollback", s, bodies, n) /\ "rollback" \in Ops \ {"none", "open"}
    BY <2>1, <2>2 DEF Ops
  <2> QED BY <2>3, <2>4, CallIs
<1>4. CASE call \in {Call(op, s, <<>>, 0) : op \in {"flush", "delete", "read"}, s \in Sessions}
  <2>1. PICK op \in {"flush", "delete", "read"}, s \in Sessions : call = Call(op, s, <<>>, 0)
    BY <1>4
  <2>2. PICK bodies : bodies = <<>>
    OBVIOUS
  <2>3. bodies \in Seq(Bodies) /\ op \in Ops \ {"none", "open"} /\ op # "append"
    BY <2>2 DEF Ops
  <2>4. call = Call(op, s, bodies, 0)
    BY <2>1, <2>2
  <2> QED BY <2>3, <2>4, CallIs
<1>5. CASE call = Call("list", 0, <<>>, 0)
  <2>1. PICK bodies : bodies = <<>>
    OBVIOUS
  <2>2. bodies \in Seq(Bodies) /\ "list" \in Ops \ {"none", "open"} /\ 0 \in Sessions \cup {0}
    BY <2>1 DEF Ops
  <2>3. call = Call("list", 0, bodies, 0)
    BY <1>5, <2>1
  <2> QED BY <2>2, <2>3, CallIs
<1> QED BY <1>1, <1>2, <1>3, <1>4, <1>5 DEF Calls

\* The start of a call stamps it with a number nobody else has.
LEMMA StartStep ==
  ASSUME IInv, MaxSeq \in Nat, NEW i \in Instances, NEW call \in Calls, Start(i, call)
  PROVE  IInv'
<1>1. PICK n, h : n = calls + 1 /\ h = [at |-> n, mode |-> "set"]
  BY ZenonT(30)
<1>2. PICK t : t = [call EXCEPT !.header = h]
  BY ZenonT(30)
<1>3. /\ n \in Nat /\ image \in Rows /\ task[i].at = "idle" /\ i \notin writer
  BY <1>1 DEF IInv, Shape, Start, Locked, Inside
<1>4. h \in Headers /\ h.at = n
  BY <1>1, <1>3 DEF Headers
<1>5. /\ call \in Tasks /\ call.out = "none" /\ call.ids = {} /\ Meant(call)
      /\ call.at \in {"header", "ids", "begin"} /\ (call.at = "header" => call.op = "read")
  BY CallsIs
<1>6. /\ t \in Tasks /\ t.header = h /\ t.op = call.op /\ t.s = call.s /\ t.bodies = call.bodies
      /\ t.seq = call.seq /\ t.at = call.at /\ t.out = call.out /\ t.ids = call.ids
  BY <1>2, <1>4, <1>5 DEF Tasks
<1>7. Meant(t) /\ Unmoved(t) /\ Races(t) /\ t.at \notin Inside /\ t.at # "ack"
  BY <1>5, <1>6 DEF Meant, Unmoved, Races, Inside, Reading
<1>8. /\ task' = [task EXCEPT ![i] = t] /\ writer' = writer \ {i} /\ calls' = calls + 1
      /\ UNCHANGED <<db, legacy, image, acked>>
  BY <1>1, <1>2, <1>3 DEF Start, Becomes
<1>9. t.header.at <= calls' /\ t.header.at = calls + 1
  BY <1>1, <1>3, <1>4, <1>6, <1>8
<1> QED BY <1>3, <1>6, <1>7, <1>8, <1>9, Frame, ZenonT(30)

\* An acknowledgement makes the promise that its commit already kept.
LEMMA AckStep == ASSUME IInv, NEW i \in Instances, Ack(i) PROVE IInv'
<1>1. PICK t : t = [task[i] EXCEPT !.at = "idle", !.out = "ok"]
  OBVIOUS
<1>2. /\ task[i] \in Tasks /\ image \in Rows /\ Meant(task[i]) /\ task[i].at = "ack"
      /\ i \notin writer /\ task[i].header.at <= calls
  BY ZenonT(30) DEF IInv, Shape, Ack, Locked, Inside, Stamped
<1>3. /\ t.at = "idle" /\ t.out = "ok" /\ t.op = task[i].op /\ t.header = task[i].header
      /\ t.bodies = task[i].bodies
  BY <1>1, <1>2 DEF Tasks
<1>4. t \in Tasks
  BY <1>1, <1>2, ZenonT(30) DEF Tasks, Outside, Outs
<1>5. Meant(t) /\ Unmoved(t) /\ Races(t) /\ ~Creating(t) /\ t.at \notin Inside
  BY <1>2, <1>3 DEF Meant, Unmoved, Races, Creating, Inside, Reading
<1>6. /\ task' = [task EXCEPT ![i] = t] /\ writer' = writer \ {i}
      /\ UNCHANGED <<db, legacy, image, calls>>
      /\ \/ acked' = acked
         \/ task[i].op = "append" /\ acked' = acked \cup {Promise(task[i])}
  BY <1>1, <1>2 DEF Ack, Ends, Becomes
<1> QED BY <1>2, <1>3, <1>4, <1>5, <1>6, Frame, ZenonT(30)

-----------------------------------------------------------------------------
(* The steps that change what is committed *)

\* The migration renames a mode and touches nothing else of a row.
LEMMA MigratedIs ==
  ASSUME NEW row \in Rows
  PROVE  /\ Migrated(row) \in Rows /\ Migrated(row).header.at = row.header.at
         /\ Migrated(row).state = row.state /\ Migrated(row).events = row.events
         /\ Whole(row) => Whole(Migrated(row))
<1>1. CASE row.header.mode = "preset"
  <2>1. PICK h, r : h = [row.header EXCEPT !.mode = "set"] /\ r = [row EXCEPT !.header = h]
    BY ZenonT(30)
  <2>2. row.header \in Headers /\ row # Nothing
    BY <1>1 DEF Rows, Nothing, NoHeader
  <2>3. h \in Headers /\ h.at = row.header.at
    BY <2>1, <2>2 DEF Headers
  <2>4. r \in Rows /\ r.header = h /\ r.state = row.state /\ r.events = row.events
    BY <2>1, <2>3 DEF Rows
  <2>5. Migrated(row) = r
    BY <1>1, <2>1 DEF Migrated
  <2> QED BY <2>2, <2>3, <2>4, <2>5 DEF Whole, Present
<1>2. CASE row.header.mode # "preset"
  BY <1>2 DEF Migrated
<1> QED BY <1>1, <1>2

\* The migration of old headers, done or rolled back, keeps the invariant.
LEMMA MigrateStep == ASSUME IInv, NEW i \in Instances, Migrate(i) PROVE IInv'
<1>1. writer = {} /\ writer' = {} /\ UNCHANGED <<image, acked, calls>> /\ task[i].at = "migrate"
  BY DEF Migrate
<1>2. CASE Ends(i, "failed") /\ UNCHANGED <<db, legacy>>
  <2>1. /\ task' = [task EXCEPT ![i] = [task[i] EXCEPT !.at = "idle", !.out = "failed"]]
        /\ writer' = writer \ {i} /\ UNCHANGED <<db, legacy, image, acked, calls>>
    BY <1>1, <1>2 DEF Ends, Becomes
  <2> QED BY <1>1, <2>1, EndStep, ZenonT(30) DEF Outs
<1>3. CASE /\ db' = [s \in Sessions |-> Migrated(db[s])] /\ legacy' = "both"
           /\ task' = [task EXCEPT ![i] = Idle]
  <2>1. /\ db \in [Sessions -> Rows] /\ task \in [Instances -> Tasks] /\ Idle \in Tasks
        /\ image \in Rows /\ calls \in Nat
    BY IdleIs, ZenonT(30) DEF IInv, Shape
  <2>2. \A s \in Sessions : /\ db'[s] \in Rows /\ db'[s].header.at = db[s].header.at
                            /\ db'[s].state = db[s].state /\ db'[s].events = db[s].events
                            /\ Whole(db'[s])
    BY <1>3, <2>1, MigratedIs DEF IInv
  <2>3. task'[i] = Idle /\ \A j \in Instances \ {i} : task'[j] = task[j]
    BY <1>3, <2>1
  <2>4. Shape'
    <3>1. db' \in [Sessions -> Rows]
      BY <1>3, <2>2
    <3> QED BY <1>1, <1>3, <2>1, <3>1 DEF Shape
  <2>5. \A j \in Instances : task[j].at \notin Inside /\ task'[j].at \notin Inside
    BY <1>1, <2>3, IdleIs DEF IInv, Locked, Inside
  <2>6. Locked'
    BY <1>1, <2>5 DEF Locked
  <2>7. ASSUME NEW j \in Instances
        PROVE  (Meant(task[j]) /\ Unmoved(task[j]) /\ Races(task[j]))'
    <3>1. CASE j = i
      BY <2>3, <3>1, IdleIs DEF Meant, Unmoved, Races, Inside, Reading
    <3>2. CASE j # i
      <4>1. /\ task'[j] = task[j] /\ Meant(task[j]) /\ Unmoved(task[j]) /\ Races(task[j])
            /\ task[j].ids \subseteq Sessions /\ (task[j].at \in Reading => task[j].s \in Sessions)
        BY <2>1, <2>3, <3>2, ZenonT(30) DEF IInv, Meant, Tasks
      <4> QED BY <2>2, <4>1 DEF Unmoved, Present
    <3> QED BY <3>1, <3>2
  <2>8. Promises' \subseteq Promises
    BY <1>1, <2>3, IdleIs DEF Promises
  <2>9. \A a \in Promises' : Kept(a)'
    BY <2>2, <2>8, ZenonT(30) DEF IInv, Kept
  <2>10. \A j \in Instances : Creating(task'[j]) => j # i
    BY <2>3, IdleIs DEF Creating
  <2>11. \A j \in Instances : task'[j].header.at <= calls
    BY <2>1, <2>3, IdleIs DEF IInv, Stamped
  <2>12. Stamped'
    <3>1. calls' = calls /\ Stamped
      BY <1>1 DEF IInv
    <3>2. \A s \in Sessions : db'[s].header.at <= calls
      BY <2>2, <3>1 DEF Stamped
    <3>3. \A a \in Promises' : a.born <= calls
      BY <2>8, <3>1 DEF Stamped
    <3>4. ASSUME NEW j \in Instances, Creating(task'[j])
          PROVE  /\ task'[j].header.at > 0
                 /\ \A s \in Sessions : db'[s].header.at # task'[j].header.at
                 /\ \A a \in Promises' : a.born # task'[j].header.at
                 /\ \A k \in Instances \ {j} : Creating(task'[k]) => task'[k].header.at # task'[j].header.at
      <4>1. j # i /\ task'[j] = task[j]
        BY <2>3, <2>10, <3>4
      <4>2. /\ task[j].header.at > 0
            /\ \A s \in Sessions : db[s].header.at # task[j].header.at
            /\ \A a \in Promises : a.born # task[j].header.at
            /\ \A k \in Instances \ {j} : Creating(task[k]) => task[k].header.at # task[j].header.at
        BY <3>1, <3>4, <4>1 DEF Stamped
      <4>3. \A s \in Sessions : db'[s].header.at # task'[j].header.at
        BY <2>2, <4>1, <4>2
      <4>4. \A k \in Instances \ {j} : Creating(task'[k]) => task'[k].header.at # task'[j].header.at
        BY <2>3, <2>10, <4>1, <4>2
      <4> QED BY <2>8, <4>1, <4>2, <4>3, <4>4
    <3> QED BY <2>11, <3>1, <3>2, <3>3, <3>4, ZenonT(30) DEF Stamped
  <2> QED BY <2>2, <2>4, <2>5, <2>6, <2>7, <2>9, <2>12 DEF IInv
<1> QED BY <1>2, <1>3 DEF Migrate, Becomes

\* A commit replaces one row by a whole one, keeps every promise that is still owed, and
\* marks the reads it falls into.
LEMMA CommitStep == ASSUME IInv, NEW i \in Instances, Commit(i) PROVE IInv'
<1>1. task[i].at = "commit" /\ task[i].at \in Inside
  BY DEF Commit, Inside
<1>2. PICK call, old, im : call = task[i] /\ old = db[call.s] /\ im = image
  OBVIOUS
<1>3. /\ writer = {i} /\ call \in Tasks /\ call.s \in Sessions /\ old \in Rows /\ im \in Rows /\ Whole(old)
      /\ Meant(call) /\ Races(call) /\ call.header.at <= calls /\ Written(call, old, im)
      /\ call.op \in {"create", "append", "rollback", "flush", "delete"} /\ call.at = "commit"
  BY <1>1, <1>2, InsideIs
<1>4. /\ Agreed(call, old) /\ Whole(im) /\ (call.op = "delete" <=> im = Nothing)
      /\ call.op = "create" => im.header = call.header
      /\ call.op \in {"append", "rollback", "flush"} => im.header = old.header
      /\ call.op = "append" => im.events = old.events \cup {Event(call.seq, call.bodies[1])}
      /\ call.op = "flush" => im.events = old.events
      /\ call.op \in {"append", "flush"} => im.state.incarnation = old.state.incarnation
      /\ call.op = "rollback" => im.state.incarnation = old.state.incarnation + 1
  BY <1>3 DEF Written
<1>5. /\ db' = [db EXCEPT ![call.s] = im] /\ writer' = {} /\ UNCHANGED <<legacy, image, acked, calls>>
      /\ task' = [j \in Instances |->
           IF j = i THEN [call EXCEPT !.at = "ack"]
           ELSE [task[j] EXCEPT !.moved = @ \/ Concerned(task[j], call.s)]]
  BY <1>2 DEF Commit
<1>6. /\ db \in [Sessions -> Rows] /\ task \in [Instances -> Tasks] /\ calls \in Nat
      /\ legacy \in {"no", "only", "both"}
  BY DEF IInv, Shape
<1>7. /\ db' \in [Sessions -> Rows] /\ db'[call.s] = im
      /\ \A s \in Sessions \ {call.s} : db'[s] = db[s]
  BY <1>3, <1>5, <1>6
<1>8. PICK u : u = [call EXCEPT !.at = "ack"]
  BY ZenonT(30)
<1>9. /\ u \in Tasks /\ u.at = "ack" /\ u.op = call.op /\ u.s = call.s /\ u.bodies = call.bodies
      /\ u.seq = call.seq /\ u.header = call.header /\ u.state = call.state /\ u.moved = call.moved
      /\ u.out = call.out /\ task'[i] = u
  <2>1. "ack" \in Outside
    BY DEF Outside
  <2>2. task'[i] = u
    BY <1>5, <1>8
  <2> QED BY <1>3, <1>8, <2>1, <2>2, MoveIs
<1>10. ASSUME NEW j \in Instances \ {i}
       PROVE  /\ task'[j] \in Tasks /\ task'[j].at = task[j].at /\ task'[j].op = task[j].op
              /\ task'[j].s = task[j].s /\ task'[j].bodies = task[j].bodies /\ task'[j].seq = task[j].seq
              /\ task'[j].ids = task[j].ids /\ task'[j].header = task[j].header
              /\ task'[j].state = task[j].state /\ task'[j].out = task[j].out
              /\ (task[j].moved => task'[j].moved)
              /\ (Concerned(task[j], call.s) => task'[j].moved)
  <2>1. PICK t, m : t = task[j] /\ m = (task[j].moved \/ Concerned(task[j], call.s))
    OBVIOUS
  <2>2. t \in Tasks /\ m \in BOOLEAN
    BY <1>6, <2>1
  <2>3. task'[j] = [t EXCEPT !.moved = m]
    BY <1>5, <2>1
  <2>4. /\ task'[j] \in Tasks /\ task'[j].at = t.at /\ task'[j].op = t.op /\ task'[j].s = t.s
        /\ task'[j].bodies = t.bodies /\ task'[j].seq = t.seq /\ task'[j].ids = t.ids
        /\ task'[j].header = t.header /\ task'[j].state = t.state /\ task'[j].out = t.out
        /\ task'[j].moved = m
    BY <2>2, <2>3 DEF Tasks
  <2> QED BY <2>1, <2>4, ZenonT(30)
<1>11. Shape'
  <2>1. task' \in [Instances -> Tasks]
    BY <1>5, <1>9, <1>10
  <2> QED BY <1>2, <1>3, <1>5, <1>6, <1>7, <2>1 DEF Shape
<1>12. \A j \in Instances : task'[j].at \notin Inside
  BY <1>3, <1>9, <1>10, ZenonT(30) DEF IInv, Locked, Inside
<1>13. Locked'
  BY <1>5, <1>12 DEF Locked
<1>14. \A s \in Sessions : Whole(db'[s])
  BY <1>4, <1>7, ZenonT(30) DEF IInv
<1>15. ASSUME NEW j \in Instances PROVE (Meant(task[j]) /\ Unmoved(task[j]) /\ Races(task[j]))'
  <2>1. CASE j = i
    BY <1>3, <1>9, <2>1 DEF Meant, Unmoved, Races, Inside, Reading
  <2>2. CASE j # i
    <3>1. Meant(task[j]) /\ Unmoved(task[j]) /\ Races(task[j])
      BY DEF IInv
    <3>2. Meant(task'[j]) /\ Races(task'[j])
      BY <1>10, <2>2, <3>1 DEF Meant, Races
    <3>3. ASSUME task[j].at \in Reading, ~task'[j].moved
          PROVE  task[j].s # call.s /\ call.s \notin task[j].ids /\ ~task[j].moved /\ task[j].s \in Sessions
                 /\ task[j].ids \subseteq Sessions
      BY <1>6, <1>10, <2>2, <3>1, <3>3 DEF Concerned, Reading, Meant, Tasks
    <3>4. Unmoved(task[j])'
      BY <1>7, <1>10, <2>2, <3>1, <3>3 DEF Unmoved
    <3> QED BY <3>2, <3>4
  <2> QED BY <2>1, <2>2
<1>16. call.op = "append" => Kept(Promise(u))' /\ Promise(u).born = old.header.at
  <2>1. SUFFICES ASSUME call.op = "append"
                 PROVE  Kept(Promise(u))' /\ Promise(u).born = old.header.at
    OBVIOUS
  <2>2. /\ Promise(u).s = call.s /\ Promise(u).born = call.header.at
        /\ Promise(u).incarnation = call.state.incarnation
        /\ Promise(u).event = Event(call.seq, call.bodies[1])
    BY <1>9, ZenonT(30) DEF Promise
  <2>3. call.header = old.header /\ call.state = old.state /\ old.header.at # 0
    BY <1>4, <2>1 DEF Agreed, Present
  <2>4. old.header.at \in Nat /\ old.state.incarnation \in Nat
    BY <1>3 DEF Rows, Headers, States
  <2>5. im.state.incarnation = old.state.incarnation /\ Event(call.seq, call.bodies[1]) \in im.events
    BY <1>4, <2>1
  <2> QED BY <1>3, <1>7, <2>2, <2>3, <2>4, <2>5 DEF Kept
<1>17. \A a \in Promises' : a \in Promises \/ (call.op = "append" /\ a = Promise(u))
  <2>1. ASSUME NEW j \in Instances \ {i} PROVE Promise(task'[j]) = Promise(task[j])
    BY <1>10, ZenonT(30) DEF Promise
  <2>2. ASSUME NEW j \in Instances, task'[j].at = "ack", task'[j].op = "append"
        PROVE  Promise(task'[j]) \in Promises \/ (call.op = "append" /\ Promise(task'[j]) = Promise(u))
    <3>1. CASE j = i
      BY <1>9, <2>2, <3>1
    <3>2. CASE j # i
      <4>1. task[j].at = "ack" /\ task[j].op = "append" /\ Promise(task'[j]) = Promise(task[j])
        BY <1>10, <2>1, <2>2, <3>2
      <4> QED BY <4>1 DEF Promises
    <3> QED BY <3>1, <3>2
  <2>3. acked' \subseteq Promises
    BY <1>5 DEF Promises
  <2> QED BY <2>2, <2>3 DEF Promises
<1>18. ASSUME NEW a \in Promises PROVE Kept(a)'
  <2>1. Kept(a) /\ a.born <= calls
    BY ZenonT(30) DEF IInv, Stamped
  <2>2. CASE a.s # call.s
    BY <1>7, <2>1, <2>2 DEF Kept
  <2>3. CASE a.s = call.s
    <3>1. /\ old.header.at = a.born => a.incarnation <= old.state.incarnation
          /\ old.header.at = a.born /\ old.state.incarnation = a.incarnation => a.event \in old.events
          /\ a.s \in Sessions /\ a.born \in Nat /\ a.born > 0 /\ a.incarnation \in Nat
      BY <1>2, <2>1, <2>3 DEF Kept
    <3>2. old.state.incarnation \in Nat
      BY <1>3 DEF Rows, States
    <3>3. CASE call.op = "create"
      <4>1. a.born # call.header.at
        BY <1>1, <1>2, <3>3 DEF IInv, Stamped, Creating
      <4> QED BY <1>4, <1>7, <2>3, <3>1, <3>3, <4>1 DEF Kept
    <3>4. CASE call.op = "delete"
      <4>1. im.header.at = 0
        <5>1. im = Nothing
          BY <1>4, <3>4, ZenonT(30)
        <5>2. Nothing.header.at = 0
          BY ZenonT(30) DEF Nothing, NoHeader
        <5> QED BY <5>1, <5>2, ZenonT(30)
      <4> QED BY <1>7, <2>3, <3>1, <4>1 DEF Kept
    <3>5. CASE call.op \in {"append", "flush"}
      BY <1>4, <1>7, <2>3, <3>1, <3>5 DEF Kept
    <3>6. CASE call.op = "rollback"
      BY <1>4, <1>7, <2>3, <3>1, <3>2, <3>6 DEF Kept
    <3> QED BY <1>3, <3>3, <3>4, <3>5, <3>6
  <2> QED BY <2>2, <2>3
<1>19. \A a \in Promises' : Kept(a)'
  BY <1>16, <1>17, <1>18
<1>20. Stamped'
  <2>1. old.header.at <= calls /\ old.header.at \in Nat
    BY <1>2, <1>3, ZenonT(30) DEF IInv, Stamped, Rows, Headers
  <2>2. im.header.at \in {call.header.at, old.header.at, 0}
        /\ (im.header.at = call.header.at => call.op = "create" \/ call.header.at = old.header.at \/ im.header.at = 0)
    <3>1. call.op = "delete" => im.header.at = 0
      BY <1>4 DEF Nothing, NoHeader
    <3>2. call.op = "create" => im.header.at = call.header.at
      BY <1>4
    <3>3. call.op \in {"append", "rollback", "flush"} => im.header.at = old.header.at
      BY <1>4
    <3> QED BY <1>3, <3>1, <3>2, <3>3
  <2>3. \A s \in Sessions : db'[s].header.at <= calls
    <3>1. im.header.at <= calls
      BY <1>3, <1>6, <2>1, <2>2
    <3>2. \A s \in Sessions \ {call.s} : db[s].header.at <= calls
      BY DEF IInv, Stamped
    <3>3. \A s \in Sessions : s # call.s => db'[s] = db[s]
      BY <1>7
    <3> QED BY <1>7, <3>1, <3>2, <3>3
  <2>4. \A j \in Instances : task'[j].header.at <= calls
    BY <1>3, <1>9, <1>10, ZenonT(30) DEF IInv, Stamped
  <2>5. \A a \in Promises' : a.born <= calls
    BY <1>16, <1>17, <2>1 DEF IInv, Stamped
  <2>6. \A j \in Instances : Creating(task'[j]) =>
          j # i /\ Creating(task[j]) /\ task'[j].header = task[j].header
    BY <1>9, <1>10 DEF Creating, Inside
  <2>7. ASSUME NEW j \in Instances, Creating(task'[j])
        PROVE  /\ task'[j].header.at > 0
               /\ \A s \in Sessions : db'[s].header.at # task'[j].header.at
               /\ \A a \in Promises' : a.born # task'[j].header.at
               /\ \A k \in Instances \ {j} : Creating(task'[k]) => task'[k].header.at # task'[j].header.at
    <3>1. j # i /\ Creating(task[j]) /\ task'[j].header = task[j].header
      BY <2>6, <2>7
    <3>2. /\ task[j].header.at > 0
          /\ \A s \in Sessions : db[s].header.at # task[j].header.at
          /\ \A a \in Promises : a.born # task[j].header.at
          /\ \A k \in Instances \ {j} : Creating(task[k]) => task[k].header.at # task[j].header.at
      BY <3>1, ZenonT(30) DEF IInv, Stamped
    <3>3. old.header.at # task[j].header.at
      BY <1>2, <1>3, <3>2
    <3>4. call.op = "create" => call.header.at # task[j].header.at
      BY <1>1, <1>2, <3>1, <3>2 DEF Creating
    <3>5. task[j].header.at # 0
      BY <1>6, <3>2 DEF Tasks, Headers
    <3>6. im.header.at # task[j].header.at
      BY <2>2, <3>3, <3>4, <3>5
    <3>7. \A s \in Sessions : db'[s].header.at # task[j].header.at
      BY <1>3, <1>7, <3>2, <3>6, ZenonT(30)
    <3>8. \A a \in Promises' : a.born # task[j].header.at
      BY <1>16, <1>17, <3>2, <3>3
    <3> QED BY <2>6, <3>1, <3>2, <3>7, <3>8
  <2> QED BY <1>5, <2>3, <2>4, <2>5, <2>7, ZenonT(30) DEF Stamped
<1> QED BY <1>11, <1>12, <1>13, <1>14, <1>15, <1>19, <1>20 DEF IInv

-----------------------------------------------------------------------------
(* The invariant and what it establishes *)

\* The invariant holds of a database of this or of an earlier release that nobody has opened.
LEMMA InitIInv == ASSUME SqliteAssumption, Init PROVE IInv
<1>1. ASSUME NEW mode \in {"preset", "unknown", "set"}
      PROVE  OldRow(mode) \in Rows /\ Whole(OldRow(mode)) /\ OldRow(mode).header.at = 1
  <2>1. PICK h, st : h = [at |-> 1, mode |-> mode] /\ st = [NoState EXCEPT !.incarnation = 1]
    BY ZenonT(30)
  <2>2. h \in Headers /\ h.at = 1
    BY <2>1 DEF Headers
  <2>3. st \in States /\ st.incarnation = 1 /\ st.next = 0
    BY <2>1 DEF States, NoState
  <2>4. OldRow(mode) = [header |-> h, state |-> st, events |-> {}]
    BY <2>1 DEF OldRow
  <2>5. {e.seq : e \in {}} = 0 .. 0 - 1
    OBVIOUS
  <2> QED BY <2>2, <2>3, <2>4, <2>5 DEF Rows, Whole, Present, Validated
<1>2. Nothing \in Rows /\ Whole(Nothing) /\ Nothing.header.at = 0
  BY DEF Nothing, NoHeader, NoState, Rows, Headers, States, Whole
<1>3. /\ db \in [Sessions -> Rows] /\ \A s \in Sessions : Whole(db[s]) /\ db[s].header.at \in {0, 1}
  BY <1>1, <1>2 DEF Init
<1>4. \A i \in Instances : task[i] = Idle
  BY DEF Init
<1>5. Shape
  BY <1>2, <1>3, IdleIs DEF Init, Shape, SqliteAssumption
<1>6. Locked
  BY <1>4, IdleIs DEF Init, Locked, Inside
<1>7. \A i \in Instances : Meant(task[i]) /\ Unmoved(task[i]) /\ Races(task[i]) /\ task[i].at \notin Inside
  BY <1>4, IdleIs DEF Meant, Unmoved, Races, Inside, Reading
<1>8. Promises = {}
  BY <1>4, IdleIs DEF Init, Promises
<1>9. Stamped
  BY <1>3, <1>4, <1>8, IdleIs DEF Init, Stamped, Creating
<1> QED BY <1>3, <1>5, <1>6, <1>7, <1>8, <1>9 DEF IInv

\* Every step keeps the invariant.
LEMMA NextIInv == ASSUME SqliteAssumption, IInv, [Next]_vars PROVE IInv'
<1>1. CASE UNCHANGED vars
  <2>1. UNCHANGED <<db, legacy, writer, image, task, acked, calls>>
    BY <1>1 DEF vars
  <2>2. Promises' = Promises
    BY <2>1 DEF Promises
  <2>3. \A a \in Promises' : Kept(a)'
    BY <2>1, <2>2 DEF IInv, Kept
  <2>4. Shape' /\ Locked' /\ Stamped'
    BY <2>1, <2>2, ZenonT(30) DEF IInv, Shape, Locked, Stamped
  <2>5. \A i \in Instances : Unmoved(task[i])'
    BY <2>1, ZenonT(30) DEF IInv, Unmoved
  <2> QED BY <2>1, <2>3, <2>4, <2>5 DEF IInv
<1>2. ASSUME NEW i \in Instances, NEW call \in Calls, Start(i, call) PROVE IInv'
  BY <1>2, StartStep DEF SqliteAssumption
<1>3. ASSUME NEW i \in Instances,
             \/ Open(i) \/ Migrate(i) \/ Fail(i) \/ Crash(i) \/ Begin(i) \/ Busy(i) \/ Check(i)
             \/ WriteRows(i) \/ WriteState(i) \/ WriteSeed(i) \/ Commit(i) \/ Ack(i)
             \/ SelectIds(i) \/ SelectHeader(i) \/ SelectState(i) \/ SelectEvents(i)
      PROVE  IInv'
  BY <1>3, OpenStep, MigrateStep, FailStep, CrashStep, BeginStep, BusyStep, CheckStep, WriteRowsStep,
     WriteStateStep, WriteSeedStep, CommitStep, AckStep, SelectIdsStep, SelectHeaderStep,
     SelectStateStep, SelectEventsStep
<1> QED BY <1>1, <1>2, <1>3 DEF Next

\* Every state the store reaches satisfies the inductive invariant.
THEOREM Invariance == ASSUME SqliteAssumption PROVE Spec => []IInv
<1>1. Init => IInv
  BY InitIInv
<1>2. IInv /\ [Next]_vars => IInv'
  BY NextIInv
<1> QED BY <1>1, <1>2, PTL DEF Spec

\* A session in the database file is whole or absent, whichever statement of whichever
\* transaction fails, is cancelled, finds the lock taken or is cut short by a crash.
THEOREM CommittedWhole == ASSUME SqliteAssumption PROVE Spec => []CommittedIsWhole
<1>1. IInv => CommittedIsWhole
  BY ZenonT(30) DEF IInv, CommittedIsWhole, Whole
<1> QED BY <1>1, Invariance, PTL

\* An append the store acknowledged is in the file, through any number of crashes, restarts
\* and other instances' transactions, until its session is rolled back or deleted.
THEOREM AcknowledgedStored == ASSUME SqliteAssumption PROVE Spec => []AcknowledgedIsStored
<1>1. IInv => AcknowledgedIsStored
  BY DEF IInv, AcknowledgedIsStored, Promises, Kept
<1> QED BY <1>1, Invariance, PTL

\* SESSION_LOG_CORRUPT is reported only by a read between two of whose SELECTs another
\* instance committed to the session it reads; a transaction never meets a corrupt session.
THEOREM CorruptionRaces == ASSUME SqliteAssumption PROVE Spec => []CorruptionIsARace
<1>1. IInv => CorruptionIsARace
  BY DEF IInv, CorruptionIsARace, Races
<1> QED BY <1>1, Invariance, PTL

\* Only a commit and a migration change what is committed, and a commit to a session that
\* stays advances its revision by one.
LEMMA RevisionMoves ==
  ASSUME IInv, [Next]_vars, NEW s \in Sessions, db'[s] # db[s], db'[s].header.at = db[s].header.at,
         Present(db[s])
  PROVE  db'[s].state.revision = db[s].state.revision + 1 \/ db'[s] = Migrated(db[s])
<1>1. db' # db
  OBVIOUS
<1>2. PICK i \in Instances : Migrate(i) \/ Commit(i)
  BY <1>1, ZenonT(30) DEF Next, vars, Open, Start, Fail, Fails, Crash, Begin, Busy, Check, WriteRows, WriteState,
              WriteSeed, Executes, Ack, SelectIds, SelectHeader, SelectState, SelectEvents, Reads
<1>3. CASE Migrate(i)
  BY <1>1, <1>3 DEF Migrate
<1>4. CASE Commit(i)
  <2>1. task[i].at = "commit" /\ task[i].at \in Inside /\ db' = [db EXCEPT ![task[i].s] = image]
    BY <1>4 DEF Commit, Inside
  <2>2. /\ task[i].s \in Sessions /\ Written(task[i], db[task[i].s], image)
        /\ task[i].op \in {"create", "append", "rollback", "flush", "delete"} /\ db \in [Sessions -> Rows]
    BY <2>1, InsideIs, ZenonT(30) DEF IInv, Shape
  <2>3. s = task[i].s /\ db'[s] = image
    BY <2>1, <2>2, ZenonT(30)
  <2>4. task[i].op # "create"
    BY <2>1, <2>2, <2>3 DEF Written, Agreed, Present, Nothing, NoHeader
  <2>5. task[i].op # "delete"
    BY <2>1, <2>2, <2>3 DEF Written, Present, Nothing, NoHeader
  <2> QED BY <2>1, <2>2, <2>3, <2>4, <2>5 DEF Written
<1> QED BY <1>2, <1>3, <1>4

\* Two reads of one header with equal revisions saw the same row, a migration aside.
THEOREM RevisionsAdvance == ASSUME SqliteAssumption PROVE Spec => RevisionAdvances
<1>1. IInv /\ [Next]_vars => [RevisionStep]_vars
  BY RevisionMoves DEF RevisionStep
<1> QED BY <1>1, Invariance, PTL DEF Spec, RevisionAdvances
=============================================================================
