------------------------------ MODULE Settings ------------------------------
(***************************************************************************)
(* Namespaced settings (src/src/settings.rs) over the YAML provider.  A    *)
(* namespace has an in-memory state with a revision, behind a gate of its  *)
(* own; every state is written through one file, which the user may also   *)
(* edit.  Tasks take a gate, read and rename the file in separate steps,   *)
(* so that any two operations interleave at each await, and any of them    *)
(* may be dropped there, as the future of an HTTP handler is: its gates    *)
(* are freed, and a rename it has begun goes on without it.  A document is *)
(* a JSON tree: <<"o", members>>, <<"a", elements>> or <<"s", scalar>>.    *)
(***************************************************************************)
EXTENDS Integers, Sequences, FiniteSets, SequencesExt

CONSTANTS
  Tasks,     \* concurrent callers of the service
  Namespaces,
  Defaults,  \* resolve(defaults, base, {}) of a registration
  Invalid,   \* resolved documents the validator refuses
  Secrets,   \* its secret paths
  Changes,   \* what a commit may apply: sequences of [is, path, value]
  Edits,     \* documents the user may put in the file by hand
  Kinds,     \* operations the tasks call, and "faults" and "drops" of them
  MaxOps,    \* bound: operations of a task
  MaxEdits,  \* bound: edits by hand
  MaxCrashes \* bound: crashes

VARIABLES
  file,       \* the YAML document: [ok, doc], doc a function of the namespaces in it
  lastGood,   \* the provider's last document that could be read
  states,     \* the NamespaceStates made since the start
  namespaces, \* index in states of each registered namespace
  regGate, writeGate, \* holder of registration_gate and of the provider's write_gate, or None
  closed,
  task,
  truth,      \* every write and edit, each of its own namespace only
  unseen,     \* namespaces whose file section memory has not been told of
  strays,     \* renames on their way whose callers were dropped
  lost,       \* an edit or a stray rename fell between a persist's read and its rename
  crashes, edits

vars == <<file, lastGood, states, namespaces, regGate, writeGate, closed, task, truth, unseen, strays, lost, crashes, edits>>
gates == <<regGate, writeGate>>
disk == <<file, truth, unseen, strays, lost, edits>>

None == "none"
NoDoc == <<>>
EmptyDocument == <<"o", <<>>>>
Null == <<"s", "null">>
NoTask == [at |-> "idle", ops |-> 0, kind |-> "get", ns |-> CHOOSE n \in Namespaces : TRUE, change |-> <<>>,
           expected |-> -1, saw |-> EmptyDocument, seen |-> 0, state |-> 0, doc |-> NoDoc, value |-> EmptyDocument,
           present |-> FALSE, todo |-> {}, clash |-> FALSE]

Init ==
  /\ file = [ok |-> TRUE, doc |-> NoDoc] /\ lastGood = NoDoc /\ truth = NoDoc
  /\ states = <<>> /\ namespaces = <<>> /\ regGate = None /\ writeGate = None
  /\ closed = FALSE /\ task = [t \in Tasks |-> NoTask]
  /\ unseen = {} /\ strays = {} /\ lost = FALSE /\ crashes = 0 /\ edits = 0

-----------------------------------------------------------------------------
(* Documents and paths *)

Put(f, k, v) == [x \in DOMAIN f \cup {k} |-> IF x = k THEN v ELSE f[x]]
Drop(f, k) == [x \in DOMAIN f \ {k} |-> f[x]]
\* array_index, over the digits the paths use.
ArrayIndex == [m \in {"0", "1"} |-> IF m = "0" THEN 0 ELSE 1]
IsIndex(member) == member \in DOMAIN ArrayIndex
\* array.resize and the assignment at index.
PutAt(s, i, v) == [j \in 1..(IF i < Len(s) THEN Len(s) ELSE i + 1) |->
                     IF j = i + 1 THEN v ELSE IF j <= Len(s) THEN s[j] ELSE Null]
Container(v) == v[1] \in {"o", "a"}
NewPathContainer(next) == IF IsIndex(next) THEN <<"a", <<>>>> ELSE EmptyDocument

RECURSIVE Merge(_, _)
Merge(left, right) ==
  IF left[1] = "o" /\ right[1] = "o"
  THEN <<"o", [k \in DOMAIN left[2] \cup DOMAIN right[2] |->
                 IF k \notin DOMAIN right[2] THEN left[2][k]
                 ELSE IF k \in DOMAIN left[2] THEN Merge(left[2][k], right[2][k])
                 ELSE right[2][k]]>>
  ELSE right
Resolve(user) == Merge(Defaults, user)

\* What an array holds at a member: an element, or nothing.
Child(v, member) ==
  IF v[1] = "o" /\ member \in DOMAIN v[2] THEN <<v[2][member]>>
  ELSE IF v[1] = "a" /\ IsIndex(member) /\ ArrayIndex[member] < Len(v[2]) THEN <<v[2][ArrayIndex[member] + 1]>>
  ELSE <<>>
RECURSIVE At(_, _)
At(v, path) ==
  IF path = <<>> THEN <<v>>
  ELSE IF Child(v, Head(path)) = <<>> THEN <<>> ELSE At(Child(v, Head(path))[1], Tail(path))
HasPath(v, path) == At(v, path) # <<>>

\* An array met with a member that is no index, or a scalar, is left as it is.
With(v, member, x) ==
  IF v[1] = "o" THEN <<"o", Put(v[2], member, x)>>
  ELSE IF v[1] = "a" /\ IsIndex(member) THEN <<"a", PutAt(v[2], ArrayIndex[member], x)>>
  ELSE v
RECURSIVE SetAtPath(_, _, _)
SetAtPath(v, path, x) ==
  IF path = <<>> THEN x
  ELSE IF Len(path) = 1 THEN With(v, path[1], x)
  ELSE LET child == Child(v, path[1])
           next == IF child # <<>> /\ Container(child[1]) THEN child[1] ELSE NewPathContainer(path[2])
       IN With(v, path[1], SetAtPath(next, Tail(path), x))

\* An object loses the member; an array's element becomes null.
RECURSIVE RemoveAtPath(_, _)
RemoveAtPath(v, path) ==
  IF path = <<>> \/ Child(v, path[1]) = <<>> THEN v
  ELSE IF Len(path) > 1 THEN With(v, path[1], RemoveAtPath(Child(v, path[1])[1], Tail(path)))
  ELSE IF v[1] = "o" THEN <<"o", Drop(v[2], path[1])>>
  ELSE With(v, path[1], Null)
Redact(v) == FoldLeft(RemoveAtPath, v, Secrets)

\* update, replace, set_path, remove_path and mutate: the change of a commit.
Apply(v, op) ==
  IF op.is = "merge" THEN Merge(v, op.value)
  ELSE IF op.is = "set" THEN SetAtPath(v, op.path, op.value)
  ELSE IF op.path = <<>> THEN EmptyDocument
  ELSE RemoveAtPath(v, op.path)
Changed(v, ops) == FoldLeft(Apply, v, ops)
\* validate_document and validate_resolved.
Valid(user) == user[1] = "o" /\ Resolve(user) \notin Invalid

-----------------------------------------------------------------------------
(* The tasks *)

Become(t, rec) == task' = [task EXCEPT ![t] = rec]
Goto(t, at) == Become(t, [task[t] EXCEPT !.at = at])
\* What the caller was shown last outlives the call.
Idle(t) == [NoTask EXCEPT !.ops = task[t].ops, !.seen = task[t].seen, !.saw = task[t].saw, !.expected = task[t].expected]
Registered(ns) == ns \in DOMAIN namespaces
Gate(s) == states[s].gate
SetGate(s, holder) == [states EXCEPT ![s].gate = holder]
\* A task that ends gives up the gates it holds.
Freed(holder, t) == IF holder = t THEN None ELSE holder
Release(t) ==
  /\ regGate' = Freed(regGate, t) /\ writeGate' = Freed(writeGate, t)
  /\ states' = [s \in DOMAIN states |-> [states[s] EXCEPT !.gate = Freed(@, t)]]
End(t) == Release(t) /\ Become(t, Idle(t))

Begin(t, kind, ns, at, fields) ==
  /\ kind \in Kinds /\ task[t].at = "idle" /\ task[t].ops < MaxOps /\ ~closed
  /\ task' = [task EXCEPT ![t] = [fields EXCEPT !.at = at, !.kind = kind, !.ns = ns, !.ops = @ + 1]]
  /\ UNCHANGED <<disk, lastGood, states, namespaces, gates, closed, crashes>>

\* get: the caller keeps the revision and the document it was shown.
Get(t, ns) ==
  /\ "get" \in Kinds /\ Registered(ns) /\ task[t].at = "idle" /\ task[t].seen # namespaces[ns]
  /\ LET s == namespaces[ns]
     IN Become(t, [task[t] EXCEPT !.seen = s, !.saw = states[s].user, !.expected = states[s].rev])
  /\ UNCHANGED <<disk, lastGood, states, namespaces, gates, closed, crashes>>

-----------------------------------------------------------------------------
(* register, and persist_unregistered *)

Register(t, ns) == Begin(t, "register", ns, "registration", task[t])
PersistUnregistered(t, ns, change) ==
  Begin(t, "persist", ns, "registration", [task[t] EXCEPT !.value = Changed(EmptyDocument, change)])

\* registration_gate, and the check for a registered namespace under it.
RegistrationGate(t) ==
  /\ task[t].at = "registration" /\ regGate = None
  /\ IF Registered(task[t].ns) THEN End(t)
     ELSE /\ regGate' = t
          /\ Goto(t, IF task[t].kind = "register" THEN "load" ELSE "write")
          /\ UNCHANGED <<states, writeGate>>
  /\ UNCHANGED <<disk, lastGood, namespaces, closed, crashes>>

\* The provider's load: the file, or what was last good when it cannot be read.
Load(t) ==
  /\ task[t].at = "load"
  /\ LET doc == IF file.ok THEN file.doc ELSE lastGood
         present == task[t].ns \in DOMAIN doc
     IN /\ lastGood' = doc
        /\ IF file.ok \/ present
           THEN /\ Become(t, [task[t] EXCEPT !.at = "loaded", !.present = present,
                                !.value = IF present THEN doc[task[t].ns] ELSE EmptyDocument])
                /\ UNCHANGED <<states, gates>>
           ELSE End(t)
  /\ UNCHANGED <<disk, namespaces, closed, crashes>>

Insert(t) ==
  /\ task[t].at = "loaded" /\ task[t].kind = "register"
  /\ regGate' = None /\ UNCHANGED writeGate /\ Become(t, Idle(t))
  /\ IF ~Valid(task[t].value) \/ closed \/ Registered(task[t].ns) THEN UNCHANGED <<states, namespaces, unseen>>
     ELSE /\ states' = Append(states, [ns |-> task[t].ns, user |-> task[t].value, present |-> task[t].present,
                                       rev |-> 0, gate |-> None])
          /\ namespaces' = Put(namespaces, task[t].ns, Len(states) + 1)
          /\ unseen' = IF ~file.ok \/ (task[t].ns \in DOMAIN file.doc) # task[t].present THEN unseen \cup {task[t].ns}
                       ELSE IF task[t].present /\ file.doc[task[t].ns] # task[t].value THEN unseen \cup {task[t].ns}
                       ELSE unseen \ {task[t].ns}
  /\ UNCHANGED <<file, truth, strays, lost, edits, lastGood, closed, crashes>>

-----------------------------------------------------------------------------
(* commit, reload and unregister, under the namespace's gate *)

Commit(t, ns, change, expected) ==
  /\ Registered(ns) /\ (expected => task[t].seen # 0)
  /\ Begin(t, "commit", ns, "gate", [task[t] EXCEPT !.change = change, !.state = namespaces[ns],
             !.expected = IF expected THEN @ ELSE -1, !.seen = IF expected THEN @ ELSE 0])
Reload(t, ns) == Registered(ns) /\ Begin(t, "reload", ns, "gate", [task[t] EXCEPT !.state = namespaces[ns]])
Unregister(t, ns) == Registered(ns) /\ Begin(t, "unregister", ns, "gate", [task[t] EXCEPT !.state = namespaces[ns]])

\* The gate of the state the call looked up, and what follows without an await:
\* closed, the expected revision, the candidate, and no write when it is the same.
CommitGate(t) ==
  /\ task[t].at = "gate" /\ task[t].kind = "commit" /\ Gate(task[t].state) = None
  /\ LET s == states[task[t].state]
         candidate == Changed(s.user, task[t].change)
     IN IF closed \/ task[t].expected \notin {-1, s.rev} \/ ~Valid(candidate) \/ candidate = s.user
        THEN End(t)
        ELSE /\ states' = SetGate(task[t].state, t)
             /\ Become(t, [task[t] EXCEPT !.at = "write", !.value = candidate,
                             !.clash = task[t].expected >= 0 /\ task[t].seen = task[t].state /\ task[t].saw # s.user])
             /\ UNCHANGED gates
  /\ UNCHANGED <<disk, lastGood, namespaces, closed, crashes>>

ReloadGate(t) ==
  /\ task[t].at = "gate" /\ task[t].kind = "reload" /\ Gate(task[t].state) = None
  /\ IF closed THEN End(t)
     ELSE states' = SetGate(task[t].state, t) /\ Goto(t, "load") /\ UNCHANGED gates
  /\ UNCHANGED <<disk, lastGood, namespaces, closed, crashes>>

Reloaded(t) ==
  /\ task[t].at = "loaded" /\ task[t].kind = "reload"
  /\ LET s == states[task[t].state]
         rec == task[t]
         same == s.user = rec.value /\ s.present = rec.present
     IN /\ states' = [states EXCEPT ![rec.state] =
             IF ~Valid(rec.value) \/ same THEN [s EXCEPT !.gate = None]
             ELSE [s EXCEPT !.gate = None, !.user = rec.value, !.present = rec.present, !.rev = s.rev + 1]]
        /\ unseen' = IF /\ Valid(rec.value) /\ file.ok /\ Registered(rec.ns) /\ namespaces[rec.ns] = rec.state
                        /\ rec.present = (rec.ns \in DOMAIN file.doc)
                        /\ rec.present => file.doc[rec.ns] = rec.value
                     THEN unseen \ {rec.ns} ELSE unseen
  /\ Become(t, Idle(t))
  /\ UNCHANGED <<file, truth, strays, lost, edits, lastGood, namespaces, gates, closed, crashes>>

\* The entry is removed by its name, whichever state it holds by now.
UnregisterGate(t) ==
  /\ task[t].at = "gate" /\ task[t].kind = "unregister" /\ Gate(task[t].state) = None
  /\ namespaces' = Drop(namespaces, task[t].ns)
  /\ Become(t, Idle(t))
  /\ UNCHANGED <<disk, lastGood, states, gates, closed, crashes>>

-----------------------------------------------------------------------------
(* YamlSettingsProvider::persist *)

\* Mutant: the document is read and renamed without the provider's write gate.
WriteGateMissing(t) ==
  /\ task[t].at = "write"
  /\ Goto(t, "read")
  /\ UNCHANGED <<disk, lastGood, states, namespaces, regGate, writeGate, closed, crashes>>

WriteGate(t) ==
  /\ task[t].at = "write" /\ writeGate = None
  /\ writeGate' = t /\ Goto(t, "read")
  /\ UNCHANGED <<disk, lastGood, states, namespaces, regGate, closed, crashes>>

ReadDocument(t) ==
  /\ task[t].at = "read"
  /\ IF file.ok
     THEN /\ lastGood' = file.doc /\ UNCHANGED <<states, gates>>
          /\ Become(t, [task[t] EXCEPT !.at = "rename", !.doc = Put(file.doc, task[t].ns, task[t].value)])
     ELSE End(t) /\ UNCHANGED lastGood
  /\ UNCHANGED <<disk, namespaces, closed, crashes>>

\* write_document: a synced temporary renamed over the document.  A commit tells
\* the state it looked up, unless another is registered by now.
Detached(t) == task[t].kind = "commit" /\ (Registered(task[t].ns) => namespaces[task[t].ns] # task[t].state)
Rename(t) ==
  /\ task[t].at = "rename"
  /\ file' = [ok |-> TRUE, doc |-> task[t].doc]
  /\ truth' = Put(truth, task[t].ns, task[t].value)
  /\ unseen' = IF Detached(t) THEN unseen \cup {task[t].ns} ELSE unseen \ {task[t].ns}
  /\ lost' = (lost \/ strays # {})
  /\ Goto(t, "renamed")
  /\ UNCHANGED <<strays, edits, lastGood, states, namespaces, gates, closed, crashes>>

\* The temporary could not be created, written, synced or renamed.
RenameFails(t) ==
  /\ "faults" \in Kinds /\ task[t].at = "rename" /\ End(t)
  /\ UNCHANGED <<disk, lastGood, namespaces, closed, crashes>>

\* The rename's answer: last_good, the write gate, and the state of a commit.
Persisted(t) ==
  /\ task[t].at = "renamed"
  /\ lastGood' = task[t].doc
  /\ LET held == [s \in DOMAIN states |-> [states[s] EXCEPT !.gate = Freed(@, t)]]
     IN states' = IF task[t].kind = "persist" THEN held
                  ELSE [held EXCEPT ![task[t].state].user = task[t].value, ![task[t].state].present = TRUE,
                                    ![task[t].state].rev = @ + 1]
  /\ regGate' = Freed(regGate, t) /\ writeGate' = None
  /\ Become(t, Idle(t))
  /\ UNCHANGED <<disk, namespaces, closed, crashes>>

-----------------------------------------------------------------------------
(* Dropped callers *)

\* A caller is dropped at an await: what it holds is freed and what it would have
\* published is not.  The rename it awaits runs on a thread of its own and goes on.
Dropped(t) ==
  /\ "drops" \in Kinds /\ task[t].at # "idle" /\ End(t)
  /\ LET on == [ns |-> task[t].ns, value |-> task[t].value, doc |-> task[t].doc]
     IN strays' \in IF task[t].at = "rename" THEN {strays, strays \cup {on}} ELSE {strays}
  /\ unseen' = IF task[t].at = "renamed" THEN unseen \cup {task[t].ns} ELSE unseen
  /\ UNCHANGED <<file, truth, lost, edits, lastGood, namespaces, closed, crashes>>

\* The rename of a dropped caller: neither the states nor last_good hear of it.
StrayRename(r) ==
  /\ r \in strays /\ strays' = strays \ {r}
  /\ file' = [ok |-> TRUE, doc |-> r.doc] /\ truth' = Put(truth, r.ns, r.value)
  /\ unseen' = unseen \cup {r.ns}
  /\ lost' = (lost \/ strays' # {} \/ \E t \in Tasks : task[t].at = "rename")
  /\ UNCHANGED <<edits, lastGood, states, namespaces, gates, closed, task, crashes>>

-----------------------------------------------------------------------------
(* The file by hand, load_document, shutdown and crashes *)

\* A persist has read the document and has not renamed its own over it.
Writing == strays # {} \/ \E t \in Tasks : task[t].at = "rename"

Edit(ns, value) ==
  /\ edits < MaxEdits /\ edits' = edits + 1
  /\ file' = [ok |-> TRUE, doc |-> Put(file.doc, ns, value)]
  /\ truth' = Put(truth, ns, value) /\ unseen' = unseen \cup {ns}
  /\ lost' = (lost \/ Writing)
  /\ UNCHANGED <<strays, lastGood, states, namespaces, gates, closed, task, crashes>>

\* A document that does not parse.
Break ==
  /\ edits < MaxEdits /\ file.ok /\ edits' = edits + 1
  /\ file' = [file EXCEPT !.ok = FALSE]
  /\ lost' = (lost \/ Writing)
  /\ UNCHANGED <<truth, unseen, strays, lastGood, states, namespaces, gates, closed, task, crashes>>

\* load_document.
LoadDocument ==
  /\ "load" \in Kinds /\ ~closed /\ file.ok /\ lastGood # file.doc
  /\ lastGood' = file.doc
  /\ UNCHANGED <<disk, states, namespaces, gates, closed, task, crashes>>

\* shutdown: closed, then every registered state's gate is waited for.
Shutdown(t) ==
  /\ "shutdown" \in Kinds /\ task[t].at = "idle" /\ ~closed
  /\ closed' = TRUE
  /\ Become(t, [Idle(t) EXCEPT !.at = "closing", !.todo = {namespaces[n] : n \in DOMAIN namespaces}])
  /\ UNCHANGED <<disk, lastGood, states, namespaces, gates, crashes>>
ShutdownGate(t) ==
  /\ task[t].at = "closing" /\ task[t].todo # {}
  /\ \E s \in task[t].todo : Gate(s) = None /\ Become(t, [task[t] EXCEPT !.todo = @ \ {s}])
  /\ UNCHANGED <<disk, lastGood, states, namespaces, gates, closed, crashes>>

Crash ==
  /\ crashes < MaxCrashes /\ crashes' = crashes + 1 /\ strays' = {}
  /\ lastGood' = NoDoc /\ states' = <<>> /\ namespaces' = <<>> /\ regGate' = None /\ writeGate' = None
  /\ closed' = FALSE /\ task' = [t \in Tasks |-> [NoTask EXCEPT !.ops = task[t].ops]]
  /\ UNCHANGED <<file, truth, unseen, lost, edits>>

Next ==
  \/ \E t \in Tasks, n \in Namespaces :
       \/ Get(t, n) \/ Register(t, n) \/ Reload(t, n) \/ Unregister(t, n)
       \/ \E c \in Changes : PersistUnregistered(t, n, c) \/ \E e \in BOOLEAN : Commit(t, n, c, e)
  \/ \E t \in Tasks :
       \/ RegistrationGate(t) \/ Load(t) \/ Insert(t) \/ CommitGate(t) \/ ReloadGate(t) \/ Reloaded(t)
       \/ UnregisterGate(t) \/ WriteGate(t) \/ ReadDocument(t) \/ Rename(t) \/ RenameFails(t) \/ Persisted(t)
       \/ Shutdown(t) \/ ShutdownGate(t) \/ Dropped(t)
  \/ \E r \in strays : StrayRename(r)
  \/ \E n \in Namespaces, v \in Edits : Edit(n, v)
  \/ Break \/ LoadDocument \/ Crash

Spec == Init /\ [][Next]_vars

\* describe: what it shows of the resolved document, and which secrets are set.
Describe(user) == [resolved |-> Redact(Resolve(user)),
                   secretSet |-> [i \in DOMAIN Secrets |-> HasPath(Resolve(user), Secrets[i])]]

-----------------------------------------------------------------------------
\* A write of one namespace keeps every other: the document holds the last
\* write or edit of each, unless between a persist's read and its rename the
\* document was edited by hand, or the rename of a caller that was dropped
\* landed, which no write gate holds back any more (settings.rs persist).
SectionsSurvive == file.ok /\ ~lost => file.doc = truth

\* A registered namespace at rest shows what is in the file, unless the file was
\* edited by hand, a commit wrote through a state no longer registered, or the
\* caller of a commit was dropped before it told memory what it had written; a
\* reload or the next commit that writes ends the exception (settings.rs commit).
MemoryIsFile ==
  \A n \in DOMAIN namespaces :
    LET s == states[namespaces[n]] IN
      s.gate = None /\ file.ok /\ n \notin unseen /\ ~lost =>
        /\ s.present = (n \in DOMAIN file.doc)
        /\ s.present => s.user = file.doc[n]

\* A commit with an expected revision replaces the document its caller saw at
\* that revision of the same registration, whatever else ran in between.
ConflictsCaught == \A t \in Tasks : ~task[t].clash

\* What is registered resolves to a document the validator accepts; its
\* description shows nothing at a secret path but null, and says of a secret
\* that it is not set only when there is none to hide (describe).
ShownIsSafe ==
  \A n \in DOMAIN namespaces :
    LET user == states[namespaces[n]].user IN
      /\ Valid(user)
      /\ \A i \in DOMAIN Secrets : At(Describe(user).resolved, Secrets[i]) \in {<<>>, <<Null>>}
      /\ (\A i \in DOMAIN Secrets : ~Describe(user).secretSet[i]) => Describe(user).resolved = Resolve(user)

\* What set_path put is there, unless an array met a member that is no index.
SetIsRead ==
  \A t \in Tasks :
    LET c == task[t].change IN
      task[t].at = "write" /\ task[t].kind = "commit" /\ c # <<>> /\ c[Len(c)].is = "set" =>
        \/ At(task[t].value, c[Len(c)].path) = <<c[Len(c)].value>>
        \/ \E i \in 0..(Len(c[Len(c)].path) - 1) :
             LET v == At(task[t].value, SubSeq(c[Len(c)].path, 1, i))
             IN v # <<>> /\ v[1][1] = "a" /\ ~IsIndex(c[Len(c)].path[i + 1])

\* After shutdown returns, no commit of a registered namespace is writing, but
\* for renames whose callers were dropped.
ClosedIsQuiet ==
  \A t, u \in Tasks :
    task[t].at = "closing" /\ task[t].todo = {} /\ task[u].kind = "commit" =>
      task[u].at \in {"idle", "gate"} \/ Detached(u)
=============================================================================
