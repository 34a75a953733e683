------------------------------ MODULE Workspaces ------------------------------
(***************************************************************************)
(* The workspace registry and who changes it.                              *)
(*                                                                         *)
(*  - workspace.rs: WorkspaceRegistry (open with migration, the mutations, *)
(*    leases, close and shutdown) over one file written by rename;         *)
(*  - host.rs: create_session_in, fork_session, delete_workspace and       *)
(*    ensure_agent under the setup lock, and the subagents that file their *)
(*    own session without it;                                              *)
(*  - api.rs: the web client's workspace and session.create handlers under *)
(*    the workspace_mutation lock, what they broadcast, and session.list   *)
(*    with its cursors;                                                    *)
(*  - bridge.rs: plugins that call the registry directly.                  *)
(*                                                                         *)
(* A session id is a number, so that a listing can sort it; a workspace id *)
(* is the number of its creation; a path names a directory whose identity  *)
(* (device and inode) is a number, 0 when it is missing.                   *)
(***************************************************************************)
EXTENDS Naturals, Sequences, FiniteSets, SequencesExt

CONSTANTS
  Paths, HostCwd,     \* directories, and the one the host starts in
  NSessions,          \* session ids are 1..NSessions
  Old,                \* logs there may be before the first boot: sequences of cwds
  CompatKinds, BridgeKinds, HostKinds,   \* requests of the web client, of plugins, of others
  Titles, MaxWorkspaces, MaxRevision, MaxBoots, MaxMoves,
  Faults,             \* writes fail
  PageLimit, FrameBytes, RowBytes        \* session.list: row sizes by session

VARIABLES
  file,     \* workspaces.json; revision -1 when absent
  reg,      \* RegistryInner of the process that holds the lock
  dirs,     \* identity of each directory
  logs,     \* durable SessionHeaders
  agents,   \* the lease a live agent runs on
  setup,    \* the operation that holds Host's setup lock
  compat,   \* the request that holds workspace_mutation
  forked,   \* a session.fork that has still to be announced
  spawn,    \* a subagent start that has still to be filed
  late,     \* a plugin's mutation between the closed check and the state lock
  view,     \* what the web client has been told
  pager,    \* a client that reads session.list page by page
  seen      \* ghosts: what happened that a property excuses

vars == <<file, reg, dirs, logs, agents, setup, compat, forked, spawn, late, view, pager, seen>>

Sessions == 1..NSessions
None == 0
Absent == "absent"       \* no such log
NoCwd == "none"          \* a header without cwd
BaseName == "x"          \* every directory has the same last component

Empty == [revision |-> 0, items |-> <<>>, archived |-> <<>>]
NoFile == [Empty EXCEPT !.revision = 0 - 1]
NoLog == [cwd |-> Absent, parent |-> None, child |-> FALSE]
NoLease == [w |-> None, gen |-> 0, path |-> Absent, ident |-> 0]
NoSetup == [op |-> "idle", at |-> "", by |-> "", s |-> None, src |-> None, w |-> None, todo |-> {}, lease |-> NoLease, then |-> ""]
NoItem == [id |-> None, path |-> Absent, title |-> BaseName, sessions |-> <<>>]
NoCompat == [at |-> "idle", op |-> [op |-> "none"], before |-> Empty, existing |-> None, tell |-> <<>>]
NoFork == [at |-> "idle", s |-> None, item |-> NoItem]
NoSpawn == [parent |-> None, child |-> None]
NoReg == [phase |-> "down", snap |-> Empty, known |-> {}, gens |-> <<>>, next |-> 1, made |-> 0, default |-> None, boots |-> 0]
NoLate == [at |-> "idle", op |-> [op |-> "none"], reg |-> NoReg]
NoPager == [at |-> "idle", got |-> <<>>, snap |-> <<>>, index |-> 0]

-----------------------------------------------------------------------------
(* Snapshots *)

IdsOf(snap) == {snap.items[i].id : i \in DOMAIN snap.items}
ItemAt(snap, w) == CHOOSE i \in DOMAIN snap.items : snap.items[i].id = w
Item(snap, w) == snap.items[ItemAt(snap, w)]
Accounted(snap) == UNION {ToSet(snap.items[i].sessions) : i \in DOMAIN snap.items}
\* session_location
Owner(snap, s) == IF s \notin Accounted(snap) THEN None
                  ELSE snap.items[CHOOSE i \in DOMAIN snap.items : s \in ToSet(snap.items[i].sessions)].id
Exists(p) == p \in Paths /\ dirs[p] # 0
LogIds == {s \in Sessions : logs[s].cwd # Absent}

ValidSnapshot(snap) ==
  /\ Len(snap.items) <= MaxWorkspaces
  /\ \A i \in DOMAIN snap.items : Exists(snap.items[i].path)
  /\ \A i, j \in DOMAIN snap.items : i # j =>
       /\ snap.items[i].id # snap.items[j].id /\ snap.items[i].path # snap.items[j].path
       /\ ToSet(snap.items[i].sessions) \cap ToSet(snap.items[j].sessions) = {}

ValidMembership(snap) ==
  /\ ToSet(snap.archived) \subseteq LogIds
  /\ \A i \in DOMAIN snap.items : \A s \in ToSet(snap.items[i].sessions) :
       s \in LogIds /\ Exists(logs[s].cwd) /\ logs[s].cwd = snap.items[i].path

\* migrate: the host's directory first, then the directory of every log that has one.
NewItem(id, path) == [id |-> id, path |-> path, title |-> BaseName, sessions |-> <<>>]
Grouped(snap, s) ==
  LET p == logs[s].cwd
      known == \E i \in DOMAIN snap.items : snap.items[i].path = p
      grown == IF known THEN snap.items ELSE Append(snap.items, NewItem(Len(snap.items) + 1, p))
      i == CHOOSE k \in DOMAIN grown : grown[k].path = p
  IN IF Exists(p) THEN [snap EXCEPT !.items = [grown EXCEPT ![i].sessions = Append(@, s)]] ELSE snap
Sorted(S) == SelectSeq([i \in Sessions |-> i], LAMBDA s : s \in S)
Migrated == FoldLeft(Grouped, [Empty EXCEPT !.items = <<NewItem(1, HostCwd)>>], Sorted(LogIds))

-----------------------------------------------------------------------------
(* Mutations: what a change closure makes of the registry r *)

Same(r, ok) == [ok |-> ok, changed |-> FALSE, reg |-> r]
Changed(r, items) == [ok |-> TRUE, changed |-> TRUE, reg |-> [r EXCEPT !.snap.items = items]]

\* DOM insertBefore; None appends.
MoveBefore(seq, x, before) ==
  LET rest == SelectSeq(seq, LAMBDA y : y # x)
  IN IF before = None THEN Append(rest, x)
     ELSE InsertAt(rest, CHOOSE i \in DOMAIN rest : rest[i] = before, x)

CreateChange(r, op) ==
  IF ~Exists(op.path) THEN Same(r, FALSE)
  ELSE IF \E i \in DOMAIN r.snap.items : r.snap.items[i].path = op.path THEN Same(r, TRUE)
  ELSE IF Len(r.snap.items) >= MaxWorkspaces THEN Same(r, FALSE)
  ELSE Changed([r EXCEPT !.made = @ + 1, !.next = @ + 1,
                  !.gens = [w \in DOMAIN @ \cup {r.made + 1} |-> IF w \in DOMAIN @ THEN @[w] ELSE r.next]],
               <<NewItem(r.made + 1, op.path)>> \o r.snap.items)
RenameChange(r, op) ==
  LET items == r.snap.items IN
  IF op.w \notin IdsOf(r.snap) THEN Same(r, FALSE)
  ELSE IF Item(r.snap, op.w).title = op.title THEN Same(r, TRUE)
  ELSE IF \E i \in DOMAIN items : items[i].title = op.title THEN Same(r, FALSE)
  ELSE Changed(r, [items EXCEPT ![ItemAt(r.snap, op.w)].title = op.title])
DeleteChange(r, op) ==
  IF op.w \notin IdsOf(r.snap) THEN Same(r, FALSE)
  ELSE Changed([r EXCEPT !.gens = [w \in DOMAIN @ \ {op.w} |-> @[w]]],
               SelectSeq(r.snap.items, LAMBDA item : item.id # op.w))
OrderChange(r, op) ==
  LET ids == [i \in DOMAIN r.snap.items |-> r.snap.items[i].id]
      moved == MoveBefore(ids, op.w, op.before)
  IN IF op.w \notin IdsOf(r.snap) \/ op.before \notin IdsOf(r.snap) \cup {None} THEN Same(r, FALSE)
     ELSE IF op.before = op.w \/ moved = ids THEN Same(r, TRUE)
     ELSE Changed(r, [i \in DOMAIN ids |-> Item(r.snap, moved[i])])
\* insert_session_before: a known session of no workspace is filed by it, whatever its cwd.
PlaceChange(r, op) ==
  LET at == ItemAt(r.snap, op.w)
      list == r.snap.items[at].sessions
      moved == MoveBefore(list, op.s, op.before)
  IN IF op.w \notin IdsOf(r.snap) \/ op.s \notin r.known \/ Owner(r.snap, op.s) \notin {None, op.w} THEN Same(r, FALSE)
     ELSE IF op.before = op.s THEN Same(r, TRUE)
     ELSE IF op.before \notin ToSet(list) \cup {None} THEN Same(r, FALSE)
     ELSE IF moved = list THEN Same(r, TRUE)
     ELSE Changed(r, [r.snap.items EXCEPT ![at].sessions = moved])
AttachChange(r, op) ==
  IF op.w \notin IdsOf(r.snap) \/ op.s \notin r.known \/ Owner(r.snap, op.s) \notin {None, op.w} THEN Same(r, FALSE)
  ELSE IF Owner(r.snap, op.s) = op.w THEN Same(r, TRUE)
  ELSE Changed(r, [r.snap.items EXCEPT ![ItemAt(r.snap, op.w)].sessions = <<op.s>> \o @])
ArchiveChange(r, op) ==
  IF op.s \notin r.known THEN Same(r, FALSE)
  ELSE IF op.s \in ToSet(r.snap.archived) THEN Same(r, TRUE)
  ELSE [ok |-> TRUE, changed |-> TRUE, reg |-> [r EXCEPT !.snap.archived = Append(@, op.s)]]

Change(r, op) == CASE op.op = "create" -> CreateChange(r, op)
                   [] op.op = "rename" -> RenameChange(r, op)
                   [] op.op = "delete" -> DeleteChange(r, op)
                   [] op.op = "order" -> OrderChange(r, op)
                   [] op.op = "place" -> PlaceChange(r, op)
                   [] op.op = "attach" -> AttachChange(r, op)
                   [] op.op = "archive" -> ArchiveChange(r, op)

\* mutate: the candidate is validated, written beside the file and renamed, then kept in memory. A directory
\* sync that fails after the rename is the call's error, and memory keeps the old snapshot.
Outcomes == IF Faults THEN {"ok", "failed", "unsynced"} ELSE {"ok"}
Mutate(r, op, out) ==
  LET c == Change(r, op)
      next == [c.reg EXCEPT !.snap.revision = r.snap.revision + 1]
      valid == c.changed /\ ValidSnapshot(next.snap)
  IN [ok |-> c.ok /\ (c.changed => valid /\ out = "ok"), changed |-> valid /\ out = "ok",
      reg |-> IF valid /\ out = "ok" THEN next ELSE r,
      file |-> IF valid /\ out # "failed" THEN next.snap ELSE NoFile]
Locked(r) == [ok |-> FALSE, changed |-> FALSE, reg |-> r, file |-> NoFile]
\* The closed check and the mutation, for a caller that no shutdown overtakes.
Attempt(r, op, out) == IF reg.phase # "up" THEN Locked(r) ELSE Mutate(r, op, out)

Store(res) == file' = IF res.file = NoFile THEN file ELSE res.file
Note(res, op, announced) ==
  [seen EXCEPT !.limbo = (res.file # NoFile /\ ~res.changed) \/ (@ /\ res.file = NoFile),
     !.misfiled = @ \/ (res.file # NoFile /\ op.op = "place" /\ logs[op.s].cwd # Item(res.file, op.w).path),
     !.orphaned = @ \/ (res.file # NoFile /\ op.op \in {"place", "archive"} /\ logs[op.s].cwd = Absent),
     !.stray = @ \/ (res.changed /\ ~announced)]
Bounded == reg.snap.revision < MaxRevision

Requests(kind) ==
  CASE kind = "create" -> [op : {kind}, path : Paths]
    [] kind = "rename" -> [op : {kind}, w : 1..reg.made, title : Titles]
    [] kind = "order" -> [op : {kind}, w : 1..reg.made, before : 0..reg.made]
    [] kind = "place" -> [op : {kind}, w : 1..reg.made, s : Sessions, before : 0..NSessions]
    [] kind = "archive" -> [op : {kind}, s : Sessions]
    [] kind = "delete" -> [op : {kind}, w : 1..reg.made]
    [] kind = "session" -> [op : {kind}, s : Sessions, w : 1..reg.made]

-----------------------------------------------------------------------------
(* The process: boot, shutdown, crash, and what happens to directories *)

Told(snap) == [items |-> ToSet(snap.items), archived |-> ToSet(snap.archived)]
Opened(snap) ==
  [reg EXCEPT !.phase = "up", !.snap = snap, !.known = LogIds, !.boots = @ + 1,
     !.gens = [w \in IdsOf(snap) |-> ItemAt(snap, w)], !.next = Len(snap.items) + 1,
     !.made = IF @ > Len(snap.items) THEN @ ELSE Len(snap.items),
     !.default = IF \E i \in DOMAIN snap.items : snap.items[i].path = HostCwd
                 THEN snap.items[CHOOSE i \in DOMAIN snap.items : snap.items[i].path = HostCwd].id ELSE None]

\* open: an absent file is migrated from the logs, a present one validated against them.
Boot ==
  /\ reg.phase = "down" /\ reg.boots < MaxBoots
  /\ \E snap \in {IF file = NoFile THEN Migrated ELSE file} :
       IF Exists(HostCwd) /\ ValidSnapshot(snap) /\ (file # NoFile => ValidMembership(snap))
       THEN /\ reg' = Opened(snap) /\ file' = snap /\ view' = Told(snap)
            /\ seen' = [seen EXCEPT !.limbo = FALSE, !.stray = FALSE, !.crossed = FALSE]
       ELSE reg' = [reg EXCEPT !.phase = "refused"] /\ UNCHANGED <<file, view, seen>>
  /\ UNCHANGED <<dirs, logs, agents, setup, compat, forked, spawn, late, pager>>

\* close, early in the host's shutdown.
Close ==
  /\ reg.phase = "up" /\ reg.boots < MaxBoots /\ compat.at = "idle" /\ forked.at = "idle"
  /\ reg' = [reg EXCEPT !.phase = "closed"]
  /\ UNCHANGED <<file, dirs, logs, agents, setup, compat, forked, spawn, late, view, pager, seen>>
\* The admitted operations have drained and the agents are gone: the lock file is released.
Release ==
  /\ reg.phase = "closed" /\ setup = NoSetup /\ spawn = NoSpawn
  /\ reg' = [reg EXCEPT !.phase = "down"] /\ agents' = [s \in Sessions |-> NoLease]
  /\ late' = IF late.at = "idle" THEN late ELSE [late EXCEPT !.at = "left", !.reg = reg]
  /\ UNCHANGED <<file, dirs, logs, setup, compat, forked, spawn, view, pager, seen>>
Crash ==
  /\ reg.phase \in {"up", "closed"} /\ reg.boots < MaxBoots
  /\ reg' = [reg EXCEPT !.phase = "down"] /\ agents' = [s \in Sessions |-> NoLease]
  /\ setup' = NoSetup /\ compat' = NoCompat /\ forked' = NoFork /\ spawn' = NoSpawn
  /\ late' = IF late.at = "left" THEN late ELSE NoLate
  /\ UNCHANGED <<file, dirs, logs, view, pager, seen>>

\* A directory is removed, or another one takes its place.
DirectoryChanges(p, ident) ==
  /\ seen.moves < MaxMoves /\ ident # dirs[p]
  /\ dirs' = [dirs EXCEPT ![p] = ident]
  /\ seen' = [seen EXCEPT !.moves = @ + 1, !.moved = @ \/ ident = 0]
  /\ UNCHANGED <<file, reg, logs, agents, setup, compat, forked, spawn, late, view, pager>>

-----------------------------------------------------------------------------
(* Plugins: the bridge's workspaces service calls the registry *)

BridgeCalls(op) ==
  /\ late.at = "idle" /\ reg.phase = "up" /\ Bounded
  /\ late' = [NoLate EXCEPT !.at = "checked", !.op = op]
  /\ UNCHANGED <<file, reg, dirs, logs, agents, setup, compat, forked, spawn, view, pager, seen>>
BridgeCommits(out) ==
  /\ late.at = "checked"
  /\ \E res \in {Mutate(reg, late.op, out)} :
       reg' = res.reg /\ Store(res) /\ seen' = Note(res, late.op, FALSE)
  /\ late' = NoLate
  /\ UNCHANGED <<dirs, logs, agents, setup, compat, forked, spawn, view, pager>>
\* The state lock is free once shutdown has returned: the write lands without the lock file.
BridgeCommitsLate(out) ==
  /\ late.at = "left"
  /\ \E res \in {Mutate(late.reg, late.op, out)} :
       Store(res) /\ seen' = [Note(res, late.op, FALSE) EXCEPT !.late = @ \/ res.file # NoFile]
  /\ late' = NoLate
  /\ UNCHANGED <<reg, dirs, logs, agents, setup, compat, forked, spawn, view, pager>>

-----------------------------------------------------------------------------
(* The host, under the setup lock *)

Lease(w) == [w |-> w, gen |-> reg.gens[w], path |-> Item(reg.snap, w).path, ident |-> dirs[Item(reg.snap, w).path]]
Resolvable(w) == reg.phase = "up" /\ w \in IdsOf(reg.snap) /\ Exists(Item(reg.snap, w).path)
Current(l) == Resolvable(l.w) /\ l = Lease(l.w)

\* The call returns; the web client's request goes on with its reply.
Finish(ok) ==
  /\ setup' = NoSetup
  /\ compat' = IF setup.by # "compat" \/ setup.op = "fork" THEN compat
               ELSE IF ok THEN [compat EXCEPT !.at = "read"] ELSE NoCompat
  /\ forked' = IF ok /\ setup.by = "compat" /\ setup.op = "fork" THEN [NoFork EXCEPT !.at = "read", !.s = setup.s] ELSE forked
Step(rec) == setup' = rec /\ UNCHANGED <<compat, forked>>
Announced == setup.by = "compat"
QuietHost == UNCHANGED <<file, reg, dirs, logs, agents, spawn, late, view, pager, seen>>

\* A plugin, the SDK or a prompt asks for a session, an agent or a deletion.
HostCalls(kind, s, w) ==
  /\ setup = NoSetup /\ reg.phase = "up" /\ Bounded
  /\ setup' = [NoSetup EXCEPT !.op = kind, !.at = kind, !.by = "other", !.s = s, !.w = w]
  /\ UNCHANGED <<compat, forked>> /\ QuietHost
ForkCalls(src, by) ==
  /\ setup = NoSetup /\ forked = NoFork /\ reg.phase = "up" /\ Bounded /\ src \in LogIds
  /\ setup' = [NoSetup EXCEPT !.op = "fork", !.at = "fork", !.by = by, !.src = src]
  /\ UNCHANGED <<compat, forked>> /\ QuietHost

\* create_session_in: the lease, and what is known of the session.
CreateSession ==
  /\ setup.at = "session"
  /\ LET s == setup.s  w == setup.w IN
       IF ~Resolvable(w) THEN Finish(FALSE)
       ELSE IF s \notin LogIds THEN Step([setup EXCEPT !.at = "log", !.lease = Lease(w)])
       ELSE IF logs[s].cwd # Item(reg.snap, w).path \/ Owner(reg.snap, s) \notin {None, w} THEN Finish(FALSE)
       ELSE Step([setup EXCEPT !.at = "attach"])
  /\ QuietHost
\* sessions.create; the events that follow (model selection, permission) may be refused.
WriteLog(out) ==
  /\ setup.at = "log"
  /\ logs' = IF out = "failed" THEN logs ELSE [logs EXCEPT ![setup.s] = [cwd |-> setup.lease.path, parent |-> None, child |-> FALSE]]
  /\ IF out = "ok" THEN Step([setup EXCEPT !.at = "attach"]) ELSE Finish(FALSE)
  /\ UNCHANGED <<file, reg, dirs, agents, spawn, late, view, pager, seen>>
\* recognize_session and attach_session; a fork into no workspace is only recognized.
AttachSession(out) ==
  /\ setup.at = "attach"
  /\ \E op \in {[op |-> "attach", w |-> setup.w, s |-> setup.s]} :
     \E r \in {[reg EXCEPT !.known = @ \cup {setup.s}]} :
     \E res \in {IF setup.w = None THEN [Locked(r) EXCEPT !.ok = TRUE] ELSE Attempt(r, op, out)} :
       /\ reg' = res.reg /\ Store(res) /\ seen' = Note(res, op, Announced)
       /\ IF res.ok /\ setup.then # "" THEN Step([setup EXCEPT !.at = setup.then]) ELSE Finish(res.ok)
  /\ UNCHANGED <<dirs, logs, agents, spawn, late, view, pager>>

\* workspace_for_fork: the workspace of the session, or of its cwd, up the lineage.
Homes(s) == {Owner(reg.snap, s)} \ {None}
HomesByCwd(s) == {w \in IdsOf(reg.snap) : Item(reg.snap, w).path = logs[s].cwd}
ForkHome(s) ==
  LET up == logs[s].parent IN
  IF Homes(s) # {} THEN Homes(s)
  ELSE IF HomesByCwd(s) # {} THEN HomesByCwd(s)
  ELSE IF up = None \/ up \notin LogIds THEN {None}
  ELSE IF Homes(up) # {} THEN Homes(up)
  ELSE IF HomesByCwd(up) # {} THEN HomesByCwd(up)
  ELSE {None}
Fork(s, out) ==
  /\ setup.at = "fork" /\ s \notin LogIds
  /\ LET src == setup.src IN
     IF out = "failed" THEN Finish(FALSE) /\ UNCHANGED logs
     ELSE \E w \in ForkHome(src) :
            /\ logs' = [logs EXCEPT ![s] = [cwd |-> logs[src].cwd, parent |-> src, child |-> FALSE]]
            /\ IF out = "ok" THEN Step([setup EXCEPT !.at = "attach", !.s = s, !.w = w]) ELSE Finish(FALSE)
  /\ UNCHANGED <<file, reg, dirs, agents, spawn, late, view, pager, seen>>

\* delete_workspace: every agent of the workspace is disposed of before its registration goes.
DeleteWorkspace ==
  /\ setup.at = "delete"
  /\ IF setup.w \notin IdsOf(reg.snap) THEN Finish(FALSE)
     ELSE Step([setup EXCEPT !.at = "dispose", !.todo = ToSet(Item(reg.snap, setup.w).sessions)])
  /\ QuietHost
\* An agent's disposal joins its turn, and with it a subagent start, and its children.
DisposeAgent(s) ==
  /\ setup.at = "dispose" /\ s \in setup.todo /\ spawn.parent # s
  /\ agents' = [t \in Sessions |-> IF t = s \/ logs[t].parent = s THEN NoLease ELSE agents[t]]
  /\ Step([setup EXCEPT !.todo = @ \ {s}])
  /\ UNCHANGED <<file, reg, dirs, logs, spawn, late, view, pager, seen>>
Unregister(out) ==
  /\ setup.at = "dispose" /\ setup.todo = {}
  /\ \E op \in {[op |-> "delete", w |-> setup.w]} : \E res \in {Attempt(reg, op, out)} :
       reg' = res.reg /\ Store(res) /\ seen' = Note(res, op, Announced) /\ Finish(res.ok)
  /\ UNCHANGED <<dirs, logs, agents, spawn, late, view, pager>>

\* ensure_agent: a session nobody has heard of is created in the default workspace first.
EnsureAgent ==
  /\ setup.at = "ensure"
  /\ LET s == setup.s  w == Owner(reg.snap, s) IN
       IF s \notin LogIds
       THEN IF Resolvable(reg.default) THEN Step([setup EXCEPT !.at = "session", !.w = reg.default, !.then = "ensure"])
            ELSE Finish(FALSE)
       ELSE IF w = None \/ ~Resolvable(w) \/ logs[s].cwd # Item(reg.snap, w).path THEN Finish(FALSE)
       ELSE IF agents[s] # NoLease THEN Finish(TRUE)
       ELSE Step([setup EXCEPT !.at = "agent", !.lease = Lease(w)])
  /\ QuietHost
StartAgent ==
  /\ setup.at = "agent"
  /\ agents' = [agents EXCEPT ![setup.s] = setup.lease] /\ Finish(TRUE)
  /\ UNCHANGED <<file, reg, dirs, logs, spawn, late, view, pager, seen>>
\* subagent_delete removes a child's log and tells the registry nothing.
ForgetChild ==
  /\ setup.at = "forget"
  /\ LET s == setup.s IN
       IF logs[s].child /\ agents[s] = NoLease /\ spawn.child # s
       THEN /\ logs' = [logs EXCEPT ![s] = NoLog]
            /\ seen' = [seen EXCEPT !.orphaned = @ \/ s \in Accounted(reg.snap) \cup ToSet(reg.snap.archived)]
       ELSE UNCHANGED <<logs, seen>>
  /\ Finish(FALSE)
  /\ UNCHANGED <<file, reg, dirs, agents, spawn, late, view, pager>>

\* Subagents: a live agent's turn starts a child in its own workspace and files it, without the setup lock.
SpawnChild(parent, child) ==
  /\ spawn = NoSpawn /\ agents[parent] # NoLease /\ child \notin LogIds /\ Bounded
  /\ \E w \in Homes(parent) : Resolvable(w)
       /\ agents' = [agents EXCEPT ![child] = Lease(w)]
       /\ logs' = [logs EXCEPT ![child] = [cwd |-> Item(reg.snap, w).path, parent |-> parent, child |-> TRUE]]
  /\ spawn' = [parent |-> parent, child |-> child]
  /\ UNCHANGED <<file, reg, dirs, setup, compat, forked, late, view, pager, seen>>
FileChild(out) ==
  /\ spawn # NoSpawn
  /\ LET c == spawn.child
         op == [op |-> "attach", w |-> agents[c].w, s |-> c]
         r == [reg EXCEPT !.known = @ \cup {c}]
     IN \E res \in {IF Current(agents[c]) THEN Attempt(r, op, out) ELSE Locked(r)} :
          /\ reg' = res.reg /\ Store(res) /\ seen' = Note(res, op, FALSE)
          /\ agents' = IF res.ok THEN agents ELSE [agents EXCEPT ![c] = NoLease]
  /\ spawn' = NoSpawn
  /\ UNCHANGED <<dirs, logs, setup, compat, forked, late, view, pager>>
ChildEnds(c) ==
  /\ logs[c].child /\ agents[c] # NoLease /\ spawn.child # c
  /\ agents' = [agents EXCEPT ![c] = NoLease]
  /\ UNCHANGED <<file, reg, dirs, logs, setup, compat, forked, spawn, late, view, pager, seen>>

-----------------------------------------------------------------------------
(* The web client's requests, one at a time under workspace_mutation *)

QuietCompat == UNCHANGED <<dirs, logs, agents, forked, spawn, late, pager>>
CompatCalls(op) ==
  /\ compat.at = "idle" /\ reg.phase = "up" /\ Bounded
  /\ compat' = IF op.op = "session" /\ op.w \notin IdsOf(reg.snap) THEN NoCompat
               ELSE [NoCompat EXCEPT !.at = IF op.op \in {"session", "delete"} THEN "host" ELSE "act",
                       !.op = op, !.before = reg.snap, !.existing = IF op.op = "session" THEN Owner(reg.snap, op.s) ELSE None]
  \* session.create lists the sessions, which makes them known
  /\ reg' = IF op.op = "session" THEN [reg EXCEPT !.known = @ \cup LogIds] ELSE reg
  /\ UNCHANGED <<file, setup, view, seen>> /\ QuietCompat
CompatEnters ==
  /\ compat.at = "host" /\ setup = NoSetup
  /\ setup' = [NoSetup EXCEPT !.op = compat.op.op, !.at = compat.op.op, !.by = "compat", !.w = compat.op.w,
                 !.s = IF compat.op.op = "session" THEN compat.op.s ELSE None]
  /\ compat' = [compat EXCEPT !.at = "wait"]
  /\ UNCHANGED <<file, reg, view, seen>> /\ QuietCompat
\* The registry's reply holds the workspace of a create and of a rename.
CompatActs(out) ==
  /\ compat.at = "act"
  /\ \E res \in {Attempt(reg, compat.op, out)} :
       /\ reg' = res.reg /\ Store(res) /\ seen' = Note(res, compat.op, TRUE)
       /\ compat' = IF ~res.ok THEN NoCompat
                    ELSE IF compat.op.op \in {"place", "archive"} THEN [compat EXCEPT !.at = "read"]
                    ELSE IF ~res.changed \/ compat.op.op = "order" THEN NoCompat
                    ELSE [compat EXCEPT !.at = "tell",
                            !.tell = <<[is |-> "changed",
                                        item |-> IF compat.op.op = "create" THEN res.reg.snap.items[1] ELSE Item(res.reg.snap, compat.op.w)]>>]
  /\ UNCHANGED <<setup, view>> /\ QuietCompat
\* The snapshot after the change, and whether anybody need be told.
Tidings(op) ==
  CASE op.op = "delete" -> <<[is |-> "removed", w |-> op.w]>>
    [] op.op = "archive" /\ compat.before.archived # reg.snap.archived -> <<[is |-> "archived", ids |-> ToSet(reg.snap.archived)]>>
    [] op.op = "place" /\ compat.before # reg.snap /\ op.w \in IdsOf(reg.snap) -> <<[is |-> "changed", item |-> Item(reg.snap, op.w)]>>
    [] op.op = "session" /\ compat.existing # op.w /\ op.w \in IdsOf(reg.snap) -> <<[is |-> "changed", item |-> Item(reg.snap, op.w)]>>
    [] OTHER -> <<>>
CompatReads ==
  /\ compat.at = "read"
  /\ \E tell \in {Tidings(compat.op)} :
       compat' = IF tell = <<>> THEN NoCompat ELSE [compat EXCEPT !.at = "tell", !.tell = tell]
  /\ UNCHANGED <<file, reg, setup, view, seen>> /\ QuietCompat

\* What a client makes of a host frame.
Heard(v, t) ==
  CASE t.is = "changed" -> [v EXCEPT !.items = {i \in @ : i.id # t.item.id} \cup {t.item}]
    [] t.is = "removed" -> [v EXCEPT !.items = {i \in @ : i.id # t.w}]
    [] t.is = "archived" -> [v EXCEPT !.archived = t.ids]
CompatTells ==
  /\ compat.at = "tell"
  /\ view' = Heard(view, compat.tell[1]) /\ compat' = NoCompat
  /\ seen' = [seen EXCEPT !.crossed = @ \/ forked.at = "tell"]
  /\ UNCHANGED <<file, reg, setup>> /\ QuietCompat

\* session.fork holds no lock once the host has returned: the sessions are listed, the workspace read, and told.
ForkReads ==
  /\ forked.at = "read"
  /\ reg' = [reg EXCEPT !.known = @ \cup LogIds]
  /\ \E w \in {Owner(reg.snap, forked.s)} :
       forked' = IF w = None THEN NoFork ELSE [forked EXCEPT !.at = "tell", !.item = Item(reg.snap, w)]
  /\ UNCHANGED <<file, dirs, logs, agents, setup, compat, spawn, late, view, pager, seen>>
ForkTells ==
  /\ forked.at = "tell"
  /\ view' = Heard(view, [is |-> "changed", item |-> forked.item]) /\ forked' = NoFork
  /\ seen' = [seen EXCEPT !.crossed = @ \/ compat.at = "tell"]
  /\ UNCHANGED <<file, reg, dirs, logs, agents, setup, compat, spawn, late, pager>>

-----------------------------------------------------------------------------
(* session.list *)

Rows == LET ids == Sorted(LogIds) IN [i \in DOMAIN ids |-> <<ids[i], Owner(reg.snap, ids[i])>>]
Snapshot == <<reg.boots, Rows>>
Bytes(rows) == FoldLeft(LAMBDA sum, row : sum + RowBytes[row[1]], 0, rows)
\* The last row of the page that starts after start.
PageEnd(rows, start) ==
  LET fits == {e \in start..Len(rows) : e <= start + PageLimit /\ Bytes(SubSeq(rows, start + 1, e)) <= FrameBytes}
  IN CHOOSE e \in fits : \A f \in fits : f <= e
\* A cursor of another snapshot is stale; a first row too large for a frame is an error.
ReadPage ==
  /\ PageLimit > 0 /\ pager.at \in {"idle", "more"} /\ reg.phase = "up"
  /\ \E rows \in {Rows}, start \in {pager.index} : \E end \in {PageEnd(rows, start)} :
       pager' = IF pager.at = "more" /\ pager.snap # Snapshot THEN NoPager
                ELSE IF end = start /\ start < Len(rows) THEN [NoPager EXCEPT !.at = "refused"]
                ELSE [at |-> IF end < Len(rows) THEN "more" ELSE "done", snap |-> Snapshot, index |-> end,
                      got |-> pager.got \o SubSeq(rows, start + 1, end)]
  /\ reg' = [reg EXCEPT !.known = @ \cup LogIds]
  /\ UNCHANGED <<file, dirs, logs, agents, setup, compat, forked, spawn, late, view, seen>>

-----------------------------------------------------------------------------
Init ==
  /\ file = NoFile /\ dirs = [p \in Paths |-> 1]
  /\ reg = NoReg
  /\ \E old \in Old : logs = [s \in Sessions |-> [NoLog EXCEPT !.cwd = old[s]]]
  /\ agents = [s \in Sessions |-> NoLease]
  /\ setup = NoSetup /\ compat = NoCompat /\ forked = NoFork /\ spawn = NoSpawn
  /\ late = NoLate
  /\ view = Told(Empty) /\ pager = NoPager
  /\ seen = [moves |-> 0, moved |-> FALSE, misfiled |-> FALSE, orphaned |-> FALSE, limbo |-> FALSE, stray |-> FALSE,
             crossed |-> FALSE, late |-> FALSE]

Next ==
  \/ Boot \/ Close \/ Release \/ Crash
  \/ \E p \in Paths, ident \in 0..2 : DirectoryChanges(p, ident)
  \/ \E k \in BridgeKinds : \E op \in Requests(k) : BridgeCalls(op)
  \/ \E out \in Outcomes : BridgeCommits(out) \/ BridgeCommitsLate(out)
  \/ \E s \in Sessions, w \in 1..reg.made : "session" \in HostKinds /\ HostCalls("session", s, w)
  \/ \E k \in HostKinds \cap {"ensure", "forget"}, s \in Sessions : HostCalls(k, s, None)
  \/ \E w \in 1..reg.made : "delete" \in HostKinds /\ HostCalls("delete", None, w)
  \/ \E src \in Sessions, by \in {"other", "compat"} : "fork" \in HostKinds /\ ForkCalls(src, by)
  \/ CreateSession \/ DeleteWorkspace \/ EnsureAgent \/ StartAgent \/ ForgetChild
  \/ \E out \in Outcomes : WriteLog(out) \/ AttachSession(out) \/ Unregister(out) \/ FileChild(out) \/ CompatActs(out)
  \/ \E s \in Sessions, out \in Outcomes : Fork(s, out)
  \/ \E s \in Sessions : DisposeAgent(s) \/ ChildEnds(s)
  \/ \E p, c \in Sessions : "spawn" \in HostKinds /\ SpawnChild(p, c)
  \/ \E k \in CompatKinds : \E op \in Requests(k) : CompatCalls(op)
  \/ CompatEnters \/ CompatReads \/ CompatTells \/ ForkReads \/ ForkTells \/ ReadPage

Spec == Init /\ [][Next]_vars

-----------------------------------------------------------------------------
\* The registry file opens again after every sequence of requests, crashes and failed writes (open,
\* validate_snapshot, validate_membership): except when a registered directory went missing, when
\* insert_session_before filed a session under a workspace that is not its cwd, or when a subagent was deleted
\* that the registry still accounts for.
RegistryReopens == reg.phase = "refused" => seen.moved \/ seen.misfiled \/ seen.orphaned

\* What the process that holds the lock believes is what the file says (mutate, atomic_write): except after a
\* directory sync that failed behind the rename, and after a mutation that passed the closed check before
\* shutdown and wrote when the lock file was already released.
RegistryDurable == reg.phase \in {"up", "closed"} => file = reg.snap \/ seen.limbo \/ seen.late

\* A live agent's session belongs to a registered workspace whose directory is the session's own cwd
\* (delete_workspace, ensure_agent, attach_child_workspace): no deletion, move or fork leaves an agent running
\* in a workspace that is gone or in another session's directory.
AgentsHaveHome ==
  \A s \in Sessions : agents[s] # NoLease /\ spawn.child # s =>
    /\ Owner(reg.snap, s) # None
    /\ Item(reg.snap, Owner(reg.snap, s)).path = logs[s].cwd

\* A client that applies the host frames in order has the registry's workspaces and archive once the requests are
\* over (the compat workspace handlers): unless somebody else changed the registry, or a fork's announcement
\* crossed another one.
WorkspaceViewsAgree ==
  reg.phase = "up" /\ compat.at = "idle" /\ forked.at = "idle" /\ setup.by # "compat" /\ ~seen.stray /\ ~seen.crossed
    => view = Told(reg.snap)

\* A client that reads session.list to the last page has every session of one moment exactly once
\* (compat_session_list and its cursors).
ListingIsWhole == pager.at = "done" => pager.got = pager.snap[2]
=============================================================================
