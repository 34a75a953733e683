--------------------------- MODULE HostLifecycle ---------------------------
(***************************************************************************)
(* The life of one host (host.rs) under its SDK server (sdk.rs, run_sdk of *)
(* bin/tessivum.rs): boot, calls that are admitted until the host closes,  *)
(* the live agents those calls set up under the setup lock, the relays of  *)
(* settings changes, and a shutdown that fences, drains, disposes and      *)
(* stops in turn.  A call's future may be dropped where it awaits, as HTTP *)
(* handlers are when a client leaves; a signal drops the server's future.  *)
(* Agents, settings and the legacy process have modules of their own.      *)
(***************************************************************************)
EXTENDS Naturals, Sequences, FiniteSets

CONSTANTS
  Calls,        \* calls to the host, the prompts of the SDK's client among them
  Sessions,
  MaxLive,      \* max_live_sessions
  Faults,       \* steps that may fail: members of Stages, Setups and Closings
  Abandons,     \* whether calls may be dropped
  Signals,      \* whether a signal may arrive
  Frames,       \* lines the SDK client sends: junk, initialize, prompt, shutdown
  MaxFrames,    \* bound: how many of them
  MaxChanges,   \* bound: settings changes
  Kept,         \* changes the channel of the settings keeps for a slow reader
  Noticed       \* notification_capacity: the notices the channel of the host keeps

\* What the proofs assume of them; checked of every instance.
HostAssumption ==
  /\ IsFiniteSet(Calls) /\ IsFiniteSet(Sessions) /\ MaxLive \in Nat
  /\ Kept \in Nat /\ Noticed \in Nat
  /\ "none" \notin Calls

VARIABLES
  boot,         \* stage boot is at, and the one it failed in
  made,         \* what boot started and nobody has stopped
  admission,    \* AdmissionState, and how often drained was notified
  setup,        \* holder of the setup lock
  call,         \* each call: where it is, its session, how it returned
  held,         \* what is installed for each session
  orphaned,     \* sessions whose setup was dropped half way
  gate,         \* holder of the shutdown lock
  stopper,      \* each call of shutdown: where it is, what it waits for, what failed
  cut,          \* a shutdown was dropped after it had closed the host
  changes,      \* settings changes committed
  relay,        \* each service relay: where it is, the stop it waits for, how far in its
                \* channel it is, what it took from there, whether it was overtaken
  stops,        \* times relay_stop was notified; relays_closed iff positive
  server,       \* the SDK server
  wire          \* what the SDK client was sent

hostVars == <<boot, made, admission, setup, call, held, orphaned>>
stopVars == <<gate, stopper, cut>>
relayVars == <<changes, relay, stops>>
sdkVars == <<server, wire>>
vars == <<hostVars, stopVars, relayVars, sdkVars>>

None == "none"
Stages == {"config", "modes", "settings", "namespaces", "services", "tools", "legacy",
           "composition", "loader", "factory", "bind", "up"}
Parts == {"agent", "scope", "approval", "question", "jobs", "schedule", "owned", "tools"}
Setups == {"agent", "permission", "approval", "question", "goals", "planning", "jobs", "drive",
           "agent_dispose", "busy"}
Closings == {"dispose", "flush", "unload", "legacy_stop", "root"}
Stoppers == {"sdk", "process"}
Relays == {"settings", "lifecycle"}

Init ==
  /\ boot = [at |-> "config", failed |-> None] /\ made = {}
  /\ admission = [closing |-> FALSE, count |-> 0, drains |-> 0]
  /\ setup = None
  /\ call = [c \in Calls |-> [at |-> "idle", kind |-> None, session |-> None, result |-> None]]
  /\ held = [s \in Sessions |-> {}] /\ orphaned = {}
  /\ gate = None /\ cut = FALSE
  /\ stopper = [x \in Stoppers |-> [at |-> "idle", seen |-> 0, closer |-> FALSE, failures |-> {}]]
  /\ changes = 0 /\ stops = 0
  /\ relay = [r \in Relays |-> [at |-> "off", seen |-> 0, got |-> 0, took |-> 0, lagged |-> FALSE]]
  /\ server = [at |-> "off", initialized |-> FALSE, request |-> None, frames |-> <<>>, sent |-> 0, eof |-> FALSE,
               shown |-> 0, writer |-> TRUE, lagged |-> FALSE]
  /\ wire = [answers |-> 0, bye |-> FALSE, notes |-> 0]

May(step) == step \in Faults
Up == boot.at = "up"

-----------------------------------------------------------------------------
(* boot *)

\* A stage of boot goes through, or fails and leaves what no longer has an owner.
BootStage(stage, next, starts, leaves) ==
  /\ boot = [at |-> stage, failed |-> None]
  /\ \/ boot' = [boot EXCEPT !.at = next] /\ made' = made \cup starts
     \/ May(stage) /\ boot' = [boot EXCEPT !.failed = stage] /\ made' = leaves
  /\ UNCHANGED <<admission, setup, call, held, orphaned, stopVars, relayVars, sdkVars>>

BootConfig == BootStage("config", "modes", {}, {})
BootModes == BootStage("modes", "settings", {}, {})
BootSettings == BootStage("settings", "namespaces", {"root", "settings"}, {})
BootNamespaces == BootStage("namespaces", "services", {}, {})
BootServices == BootStage("services", "tools", {}, {})
BootTools == BootStage("tools", "legacy", {}, {})

\* The legacy host is started before the plugins that may run in it; only a
\* failure of the loader stops it again.
BootLegacy == BootStage("legacy", "composition", {"legacy"}, {})
BootComposition == BootStage("composition", "loader", {}, {"legacy"})
BootLoader == BootStage("loader", "factory", {"plugins"}, {})
BootFactory == BootStage("factory", "bind", {}, {"legacy", "plugins"})

\* The host is assembled, its relays start, and it is handed out to its server.
BootBind ==
  /\ boot = [at |-> "bind", failed |-> None]
  /\ boot' = [boot EXCEPT !.at = "up"]
  /\ relay' = [r \in Relays |-> [relay[r] EXCEPT !.at = "check"]]
  /\ server' = [server EXCEPT !.at = "serve"]
  /\ UNCHANGED <<made, admission, setup, call, held, orphaned, stopVars, changes, stops, wire>>

-----------------------------------------------------------------------------
(* Admission, and calls under the setup lock *)

Inside == {"admitted", "agent", "permission", "install", "drive", "releasing", "disposing", "event"}

Released == [admission EXCEPT !.count = IF @ = 0 THEN 0 ELSE @ - 1,
                              !.drains = IF admission.closing /\ admission.count <= 1 THEN @ + 1 ELSE @]

Return(c, result) ==
  /\ call' = [call EXCEPT ![c] = [@ EXCEPT !.at = "done", !.result = result]]
  /\ admission' = Released
  /\ setup' = IF setup = c THEN None ELSE setup

Admit(c, kind, s) ==
  /\ Up /\ call[c].at = "idle"
  /\ IF admission.closing
     THEN /\ call' = [call EXCEPT ![c] = [@ EXCEPT !.at = "done", !.result = "refused"]]
          /\ UNCHANGED admission
     ELSE /\ call' = [call EXCEPT ![c] = [@ EXCEPT !.at = "admitted", !.kind = kind, !.session = s]]
          /\ admission' = [admission EXCEPT !.count = @ + 1]
  /\ UNCHANGED <<boot, made, setup, held, orphaned, stopVars, relayVars>>

Call(c) ==
  /\ \E s \in Sessions, kind \in {"ensure", "select"} : Admit(c, kind, s)
  /\ UNCHANGED sdkVars

Owned == {s \in Sessions : "owned" \in held[s]}
Capacity == Cardinality(Owned) >= MaxLive

\* ensure_agent_under_setup up to its first await: a live agent is returned,
\* a full host refuses, a mode with skills gets its scope.
EnsureBegin(c) ==
  LET s == call[c].session IN
  /\ call[c].at = "admitted" /\ call[c].kind = "ensure" /\ setup = None
  /\ IF "agent" \in held[s] \/ Capacity
     THEN /\ Return(c, IF "agent" \in held[s] THEN "ok" ELSE "capacity")
          /\ UNCHANGED held
     ELSE /\ \E skills \in {{}, {"scope"}} : held' = [held EXCEPT ![s] = @ \cup skills]
          /\ call' = [call EXCEPT ![c].at = "agent"]
          /\ setup' = c
          /\ UNCHANGED admission
  /\ UNCHANGED <<boot, made, orphaned, stopVars, relayVars, sdkVars>>

\* AgentHandle::dispose, after which `keep` is left for the session: a
\* runtime that fails to stop stays in the registry.
Dispose(s, keep) ==
  \/ held' = [held EXCEPT ![s] = keep] /\ UNCHANGED orphaned
  \/ /\ May("agent_dispose")
     /\ held' = [held EXCEPT ![s] = keep \cup {"agent"}]
     /\ orphaned' = orphaned \cup {s}

\* create_or_resume; its failure takes the scope back.
Create(c) ==
  LET s == call[c].session IN
  /\ call[c].at = "agent"
  /\ \/ /\ held' = [held EXCEPT ![s] = @ \cup {"agent"}]
        /\ call' = [call EXCEPT ![c].at = "permission"]
        /\ UNCHANGED <<admission, setup>>
     \/ May("agent") /\ held' = [held EXCEPT ![s] = @ \ {"scope"}] /\ Return(c, "failed")
  /\ UNCHANGED <<boot, made, orphaned, stopVars, relayVars, sdkVars>>

\* pin_initial_permission; its failure disposes the agent and keeps the scope.
Pin(c) ==
  LET s == call[c].session IN
  /\ call[c].at = "permission"
  /\ \/ /\ call' = [call EXCEPT ![c].at = "install"]
        /\ UNCHANGED <<admission, setup, held, orphaned>>
     \/ May("permission") /\ Dispose(s, held[s] \ {"agent"}) /\ Return(c, "failed")
  /\ UNCHANGED <<boot, made, stopVars, relayVars, sdkVars>>

\* The services of the agent, one after the other without an await.  A failure
\* disposes the agent and drops the registrations made; two of them forget the scope.
Install(c) ==
  LET s == call[c].session IN
  /\ call[c].at = "install"
  /\ \/ /\ held' = [held EXCEPT ![s] = @ \cup (Parts \ {"scope"})]
        /\ call' = [call EXCEPT ![c].at = "drive"]
        /\ UNCHANGED <<admission, setup, orphaned>>
     \/ \E step \in {"approval", "question", "goals", "planning", "jobs"} \cap Faults :
          /\ Dispose(s, IF step \in {"question", "planning"} THEN held[s] \cap {"scope"} ELSE {})
          /\ Return(c, "failed")
  /\ UNCHANGED <<boot, made, stopVars, relayVars, sdkVars>>

\* goal_driver.drive: the agent stays, whatever it returns.
Drive(c) ==
  /\ call[c].at = "drive"
  /\ \E result \in {"ok"} \cup (IF May("drive") THEN {"failed"} ELSE {}) : Return(c, result)
  /\ UNCHANGED <<boot, made, held, orphaned, stopVars, relayVars, sdkVars>>

\* agent_mode_select refuses a session that runs or has model-visible work.
SelectLocked(c) ==
  /\ call[c].at = "admitted" /\ call[c].kind = "select" /\ setup = None /\ May("busy")
  /\ Return(c, "locked")
  /\ UNCHANGED <<boot, made, held, orphaned, stopVars, relayVars, sdkVars>>

\* The agent of a blank session goes, so that the next call makes one in the new mode.
SelectBegin(c) ==
  LET s == call[c].session IN
  /\ call[c].at = "admitted" /\ call[c].kind = "select" /\ setup = None
  /\ setup' = c
  /\ IF "agent" \in held[s]
     THEN /\ held' = [held EXCEPT ![s] = @ \ {"jobs", "schedule", "scope", "owned", "tools"}]
          /\ call' = [call EXCEPT ![c].at = IF s \in Owned THEN "releasing" ELSE "disposing"]
     ELSE /\ call' = [call EXCEPT ![c].at = "event"]
          /\ UNCHANGED held
  /\ UNCHANGED <<boot, made, admission, orphaned, stopVars, relayVars, sdkVars>>

\* The jobs of the owned agent are disposed, and its registrations dropped.
SelectRelease(c) ==
  /\ call[c].at = "releasing"
  /\ held' = [held EXCEPT ![call[c].session] = @ \ {"approval", "question"}]
  /\ call' = [call EXCEPT ![c].at = "disposing"]
  /\ UNCHANGED <<boot, made, admission, setup, orphaned, stopVars, relayVars, sdkVars>>

SelectDispose(c) ==
  LET s == call[c].session IN
  /\ call[c].at = "disposing"
  /\ Dispose(s, held[s] \ {"agent"})
  /\ IF "agent" \in held'[s]
     THEN Return(c, "failed")
     ELSE call' = [call EXCEPT ![c].at = "event"] /\ UNCHANGED <<admission, setup>>
  /\ UNCHANGED <<boot, made, stopVars, relayVars, sdkVars>>

SelectEvent(c) ==
  /\ call[c].at = "event" /\ Return(c, "ok")
  /\ UNCHANGED <<boot, made, held, orphaned, stopVars, relayVars, sdkVars>>

\* A dropped call lets go of its locks and registrations; an agent's handle
\* cancels the agent but leaves it in the registry.
Drop(c) ==
  LET s == call[c].session IN
  /\ call[c].at \in Inside \ {"install"}
  /\ Return(c, "dropped")
  /\ held' = IF call[c].at = "releasing" THEN [held EXCEPT ![s] = @ \ {"approval", "question"}] ELSE held
  /\ orphaned' = IF call[c].at \in {"permission", "releasing", "disposing"} THEN orphaned \cup {s} ELSE orphaned
  /\ UNCHANGED <<boot, made, stopVars, relayVars>>

Abandon(c) ==
  /\ Abandons /\ server.request # c
  /\ Drop(c)
  /\ UNCHANGED sdkVars

-----------------------------------------------------------------------------
(* Settings changes and the service relays *)

\* A change commits until the settings are shut down.
Change ==
  /\ Up /\ "settings" \in made /\ changes < MaxChanges
  /\ changes' = changes + 1
  /\ UNCHANGED <<hostVars, stopVars, relay, stops, sdkVars>>

\* The settings relay hears changes and notifies; the lifecycle relay hears notifications.
told == relay["settings"].took
Heard(r) == IF r = "settings" THEN changes ELSE told
Room(r) == IF r = "settings" THEN Kept ELSE Noticed
Goto(r, where) == relay' = [relay EXCEPT ![r].at = where]

\* RecvError::Lagged(k): the channel has dropped the k oldest the relay has not read.
Lagged(r, k) == relay[r].got + k + Room(r) = Heard(r)
Behind(r) == \E k \in 1..Heard(r) : Lagged(r, k)

Took(r, where) ==
  relay' = [relay EXCEPT ![r] = [relay[r] EXCEPT !.at = where, !.got = @ + 1, !.took = @ + 1]]

\* A stopped settings relay passes on what its channel still has.
Leave(r) == Goto(r, IF r = "settings" THEN "drain" ELSE "ended")

\* relays_closed is read before the future that waits for relay_stop exists.
RelayCheck(r) ==
  /\ relay[r].at = "check"
  /\ IF stops > 0 THEN Leave(r) ELSE Goto(r, "enter")
  /\ UNCHANGED <<hostVars, stopVars, changes, stops, sdkVars>>

RelayEnter(r) ==
  /\ relay[r].at = "enter"
  /\ relay' = [relay EXCEPT ![r] = [@ EXCEPT !.at = "select", !.seen = stops]]
  /\ UNCHANGED <<hostVars, stopVars, changes, stops, sdkVars>>

RelayRecv(r) ==
  /\ relay[r].at = "select" /\ relay[r].got < Heard(r) /\ ~Behind(r)
  /\ Took(r, "check")
  /\ UNCHANGED <<hostVars, stopVars, changes, stops, sdkVars>>

\* A relay that was overtaken goes on with the oldest message that is left.
RelayLags(r) ==
  /\ relay[r].at = "select"
  /\ \E k \in 1..Heard(r) :
       /\ Lagged(r, k)
       /\ relay' = [relay EXCEPT ![r] = [relay[r] EXCEPT !.at = "check", !.got = @ + k, !.lagged = TRUE]]
  /\ UNCHANGED <<hostVars, stopVars, changes, stops, sdkVars>>

RelayStop(r) ==
  /\ relay[r].at = "select" /\ stops > relay[r].seen
  /\ Leave(r)
  /\ UNCHANGED <<hostVars, stopVars, changes, stops, sdkVars>>

\* while let Ok(event) = try_recv(): it ends with the channel empty, or overtaken.
RelayDrain(r) ==
  /\ relay[r].at = "drain"
  /\ \/ relay[r].got < Heard(r) /\ ~Behind(r) /\ Took(r, "drain")
     \/ relay[r].got = Heard(r) /\ Goto(r, "ended")
     \/ Behind(r) /\ relay' = [relay EXCEPT ![r] = [relay[r] EXCEPT !.at = "ended", !.lagged = TRUE]]
  /\ UNCHANGED <<hostVars, stopVars, changes, stops, sdkVars>>

-----------------------------------------------------------------------------
(* shutdown_inner *)

StopAt(x, where) == stopper[x].at = where
StopGoto(x, where) == stopper' = [stopper EXCEPT ![x].at = where]

\* The one that finds the host open closes it; any other waits for the drain.
StopBegin(x) ==
  /\ StopAt(x, "lock") /\ gate = None
  /\ gate' = x
  /\ stopper' = [stopper EXCEPT ![x] = [@ EXCEPT !.at = IF admission.closing THEN "drain" ELSE "settings",
                                             !.closer = ~admission.closing]]
  /\ admission' = IF admission.closing THEN admission
                  ELSE [admission EXCEPT !.closing = TRUE,
                                         !.drains = IF admission.count = 0 THEN @ + 1 ELSE @]
  /\ UNCHANGED <<boot, made, setup, call, held, orphaned, cut, relayVars, sdkVars>>

\* Settings and credentials finish their writes and refuse more; then what
\* could keep a call waiting is cancelled.
StopSettings(x) ==
  /\ StopAt(x, "settings")
  /\ made' = made \ {"settings"}
  /\ StopGoto(x, "drain")
  /\ UNCHANGED <<boot, admission, setup, call, held, orphaned, gate, cut, relayVars, sdkVars>>

\* wait_drained: the future of `drained` is made before the count is read.
DrainRegister(x) ==
  /\ StopAt(x, "drain")
  /\ stopper' = [stopper EXCEPT ![x] = [@ EXCEPT !.at = "count", !.seen = admission.drains]]
  /\ UNCHANGED <<hostVars, gate, cut, relayVars, sdkVars>>

StopReturn(x) ==
  /\ StopGoto(x, "returned")
  /\ gate' = None

DrainCount(x) ==
  /\ StopAt(x, "count")
  /\ IF admission.count > 0 THEN StopGoto(x, "wait") /\ UNCHANGED gate
     ELSE IF stopper[x].closer THEN StopGoto(x, "dispose") /\ UNCHANGED gate
     ELSE StopReturn(x)
  /\ UNCHANGED <<hostVars, cut, relayVars, sdkVars>>

DrainWoken(x) ==
  /\ StopAt(x, "wait") /\ admission.drains > stopper[x].seen
  /\ StopGoto(x, "drain")
  /\ UNCHANGED <<hostVars, gate, cut, relayVars, sdkVars>>

\* A step of the closing that may fail: its failure is noted and the next one runs.
Closes(x, step, next) ==
  \/ StopGoto(x, next)
  \/ May(step) /\ stopper' = [stopper EXCEPT ![x] = [stopper[x] EXCEPT !.at = next, !.failures = @ \cup {step}]]

Failed(x, step) == step \in stopper'[x].failures

\* registry.dispose_all: agents that fail to stop stay.
StopDispose(x) ==
  /\ StopAt(x, "dispose") /\ Closes(x, "dispose", "owned")
  /\ held' = IF Failed(x, "dispose") THEN held ELSE [s \in Sessions |-> held[s] \ {"agent"}]
  /\ UNCHANGED <<boot, made, admission, setup, call, orphaned, gate, cut, relayVars, sdkVars>>

\* The owned agents are taken and dropped, the owners and scopes cleared.
StopOwned(x) ==
  /\ StopAt(x, "owned") /\ StopGoto(x, "flush")
  /\ held' = [s \in Sessions |-> held[s] \cap {"agent"}]
  /\ UNCHANGED <<boot, made, admission, setup, call, orphaned, gate, cut, relayVars, sdkVars>>

\* Workspaces, subprocesses, the flush of every session, the sweep of attachments.
StopFlush(x) ==
  /\ StopAt(x, "flush") /\ Closes(x, "flush", "relays")
  /\ UNCHANGED <<hostVars, gate, cut, relayVars, sdkVars>>

StopRelays(x) ==
  /\ StopAt(x, "relays") /\ StopGoto(x, "join")
  /\ stops' = stops + 1
  /\ UNCHANGED <<hostVars, gate, cut, changes, relay, sdkVars>>

StopJoin(x) ==
  /\ StopAt(x, "join") /\ \A r \in Relays : relay[r].at = "ended"
  /\ StopGoto(x, "unload")
  /\ UNCHANGED <<hostVars, gate, cut, relayVars, sdkVars>>

\* Projections and telemetry, then the plugins of the loader.
StopLoader(x) ==
  /\ StopAt(x, "unload") /\ Closes(x, "unload", "legacy_stop")
  /\ made' = IF Failed(x, "unload") THEN made ELSE made \ {"plugins"}
  /\ UNCHANGED <<boot, admission, setup, call, held, orphaned, gate, cut, relayVars, sdkVars>>

StopLegacy(x) ==
  /\ StopAt(x, "legacy_stop") /\ Closes(x, "legacy_stop", "root")
  /\ made' = IF Failed(x, "legacy_stop") THEN made ELSE made \ {"legacy"}
  /\ UNCHANGED <<boot, admission, setup, call, held, orphaned, gate, cut, relayVars, sdkVars>>

StopRoot(x) ==
  /\ StopAt(x, "root") /\ Closes(x, "root", "returned")
  /\ gate' = None
  /\ made' = IF Failed(x, "root") THEN made ELSE made \ {"root"}
  /\ UNCHANGED <<boot, admission, setup, call, held, orphaned, cut, relayVars, sdkVars>>

-----------------------------------------------------------------------------
(* JsonRpcServer, and run_sdk which owns it and the host *)

Serving == {"serve", "calling", "stopping", "draining", "cleanup"}

\* A line that is no request, or one of the requests the server handles.
ClientSends(frame) ==
  /\ server.at \in Serving /\ ~server.eof /\ server.sent < MaxFrames
  /\ server' = [server EXCEPT !.frames = Append(@, frame), !.sent = @ + 1]
  /\ UNCHANGED <<hostVars, stopVars, relayVars, wire>>

ClientLeaves ==
  /\ server.at \in Serving /\ ~server.eof
  /\ server' = [server EXCEPT !.eof = TRUE]
  /\ UNCHANGED <<hostVars, stopVars, relayVars, wire>>

WriterFails ==
  /\ server.at \in Serving /\ server.writer /\ May("writer")
  /\ server' = [server EXCEPT !.writer = FALSE]
  /\ UNCHANGED <<hostVars, stopVars, relayVars, wire>>

\* enqueue_value: a closed output ends the server without a shutdown of the host.
Answer(rest) ==
  /\ server' = [rest EXCEPT !.at = IF server.writer THEN "serve" ELSE "returned"]
  /\ wire' = [wire EXCEPT !.answers = IF server.writer THEN @ + 1 ELSE @]

Taken == [server EXCEPT !.frames = Tail(@)]

\* The requests that are answered at once; the first initialize counts even if it fails.
ServeRequest ==
  /\ server.at = "serve" /\ server.frames # <<>>
  /\ Head(server.frames) \in {"junk", "initialize"} \/ (Head(server.frames) = "prompt" /\ ~server.initialized)
  /\ Answer([Taken EXCEPT !.initialized = @ \/ Head(server.frames) = "initialize"])
  /\ UNCHANGED <<hostVars, stopVars, relayVars>>

\* A prompt is a call to the host, which the server waits for.
ServePrompt(c) ==
  /\ server.at = "serve" /\ server.frames # <<>> /\ Head(server.frames) = "prompt" /\ server.initialized
  /\ \E s \in Sessions : Admit(c, "ensure", s)
  /\ server' = [Taken EXCEPT !.at = "calling", !.request = c]
  /\ UNCHANGED wire

ServePrompted(c) ==
  /\ server.at = "calling" /\ server.request = c /\ call[c].at = "done"
  /\ Answer([server EXCEPT !.request = None])
  /\ UNCHANGED <<hostVars, stopVars, relayVars>>

ServeShutdown ==
  /\ server.at = "serve" /\ server.frames # <<>> /\ Head(server.frames) = "shutdown"
  /\ server' = [Taken EXCEPT !.at = "stopping"]
  /\ StopGoto("sdk", "lock")
  /\ UNCHANGED <<hostVars, gate, cut, relayVars, wire>>

\* A shutdown that failed is answered with an error, and the server goes on.
ServeStopped ==
  /\ server.at = "stopping" /\ StopAt("sdk", "returned")
  /\ StopGoto("sdk", "idle")
  /\ IF stopper["sdk"].closer /\ stopper["sdk"].failures # {}
     THEN Answer(server)
     ELSE server' = [server EXCEPT !.at = "draining"] /\ UNCHANGED wire
  /\ UNCHANGED <<hostVars, gate, cut, relayVars>>

\* The end of input, or a fault of the transport: cleanup_after_disconnect.
ServeCleanup ==
  /\ server.at = "serve"
  /\ ~server.writer \/ server.lagged \/ (server.eof /\ server.frames = <<>>)
  /\ server' = [server EXCEPT !.at = "cleanup"]
  /\ StopGoto("sdk", "lock")
  /\ UNCHANGED <<hostVars, gate, cut, relayVars, wire>>

ServeEnds ==
  /\ server.at = "cleanup" /\ StopAt("sdk", "returned")
  /\ server' = [server EXCEPT !.at = "returned"]
  /\ UNCHANGED <<hostVars, stopVars, relayVars, wire>>

\* relay_notifications, which shutdown's answer waits for.
ServeNote ==
  /\ server.at \in Serving /\ server.writer /\ ~server.lagged
  /\ server.shown < told /\ told <= server.shown + Noticed
  /\ server' = [server EXCEPT !.shown = @ + 1]
  /\ wire' = [wire EXCEPT !.notes = @ + 1]
  /\ UNCHANGED <<hostVars, stopVars, relayVars>>

\* NotificationLagged: the notices of the settings, and all the others the host
\* sends through the same channel, overtake a server that writes slowly.
ServeLags ==
  /\ server.at \in Serving /\ ~server.lagged
  /\ told > server.shown + Noticed \/ May("notices")
  /\ server' = [server EXCEPT !.lagged = TRUE]
  /\ UNCHANGED <<hostVars, stopVars, relayVars, wire>>

\* The answer to shutdown, or the error of a server that could not tell all.
ServeBye ==
  /\ server.at = "draining" /\ (server.shown = told \/ ~server.writer \/ server.lagged)
  /\ server' = [server EXCEPT !.at = "returned"]
  /\ wire' = [wire EXCEPT !.bye = server.writer /\ ~server.lagged]
  /\ UNCHANGED <<hostVars, stopVars, relayVars>>

\* A signal drops the server where it awaits, and the shutdown it is in.  What
\* that shutdown runs as tasks of their own goes on without it.
Awaits == {"idle", "lock", "settings", "wait", "dispose", "owned", "flush", "join", "unload",
           "legacy_stop", "root", "returned"}
Detached == (IF StopAt("sdk", "unload") THEN {"plugins"} ELSE {})
            \cup (IF StopAt("sdk", "legacy_stop") THEN {"legacy"} ELSE {})

Signal ==
  /\ Signals /\ server.at \in Serving \ {"calling"} /\ stopper["sdk"].at \in Awaits
  /\ server' = [server EXCEPT !.at = "gone"]
  /\ StopGoto("sdk", "dropped")
  /\ gate' = IF gate = "sdk" THEN None ELSE gate
  /\ cut' = (cut \/ (gate = "sdk" /\ stopper["sdk"].closer))
  /\ \E done \in SUBSET Detached : made' = made \ done
  /\ \/ UNCHANGED held
     \/ StopAt("sdk", "dispose") /\ held' = [s \in Sessions |-> held[s] \ {"agent"}]
  /\ UNCHANGED <<boot, admission, setup, call, orphaned, relayVars, wire>>

SignalInCall(c) ==
  /\ Signals /\ server.at = "calling" /\ server.request = c
  /\ Drop(c)
  /\ server' = [server EXCEPT !.at = "gone", !.request = None]
  /\ UNCHANGED wire

\* Once the server is done or gone, the process shuts the host down itself.
ProcessStops ==
  /\ server.at \in {"returned", "gone"} /\ StopAt("process", "idle")
  /\ StopGoto("process", "lock")
  /\ UNCHANGED <<hostVars, gate, cut, relayVars, sdkVars>>

BootNext ==
  \/ BootConfig \/ BootModes \/ BootSettings \/ BootNamespaces \/ BootServices \/ BootTools
  \/ BootLegacy \/ BootComposition \/ BootLoader \/ BootFactory \/ BootBind

CallNext(c) ==
  \/ Call(c) \/ EnsureBegin(c) \/ Create(c) \/ Pin(c) \/ Install(c) \/ Drive(c)
  \/ SelectLocked(c) \/ SelectBegin(c) \/ SelectRelease(c) \/ SelectDispose(c) \/ SelectEvent(c)
  \/ Abandon(c) \/ ServePrompt(c) \/ SignalInCall(c)

RelayNext(r) ==
  RelayCheck(r) \/ RelayEnter(r) \/ RelayRecv(r) \/ RelayLags(r) \/ RelayStop(r) \/ RelayDrain(r)

StopNext(x) ==
  \/ StopBegin(x) \/ StopSettings(x) \/ DrainRegister(x) \/ DrainCount(x) \/ DrainWoken(x)
  \/ StopDispose(x) \/ StopOwned(x) \/ StopFlush(x) \/ StopRelays(x) \/ StopJoin(x)
  \/ StopLoader(x) \/ StopLegacy(x) \/ StopRoot(x)

ServerNext ==
  \/ \E f \in Frames : ClientSends(f)
  \/ \E c \in Calls : ServePrompted(c)
  \/ ClientLeaves \/ WriterFails \/ ServeRequest \/ ServeShutdown \/ ServeStopped \/ ServeCleanup
  \/ ServeEnds \/ ServeNote \/ ServeLags \/ ServeBye \/ Signal \/ ProcessStops

Next ==
  \/ BootNext \/ Change \/ ServerNext
  \/ \E c \in Calls : CallNext(c)
  \/ \E r \in Relays : RelayNext(r)
  \/ \E x \in Stoppers : StopNext(x)

Spec == Init /\ [][Next]_vars

-----------------------------------------------------------------------------
CallPoints == Inside \cup {"idle", "done"}
Results == {None, "refused", "ok", "capacity", "failed", "locked", "dropped"}

\* The points of a shutdown at which it holds the shutdown lock.
Holding == {"settings", "drain", "count", "wait", "dispose", "owned", "flush", "relays", "join",
            "unload", "legacy_stop", "root"}
StopPoints == Holding \cup {"idle", "lock", "returned", "dropped"}

CallType == [at : CallPoints, kind : {None, "ensure", "select"},
             session : Sessions \cup {None}, result : Results]
StopType == [at : StopPoints, seen : Nat, closer : BOOLEAN, failures : SUBSET Closings]
RelayType == [at : {"off", "check", "enter", "select", "drain", "ended"}, seen : Nat, got : Nat,
              took : Nat, lagged : BOOLEAN]
ServerType == [at : Serving \cup {"off", "returned", "gone"}, initialized : BOOLEAN,
               request : Calls \cup {None}, frames : Seq(Frames), sent : Nat, eof : BOOLEAN,
               shown : Nat, writer : BOOLEAN, lagged : BOOLEAN]

HostTypeOK ==
  /\ boot \in [at : Stages, failed : Stages \cup {None}]
  /\ made \subseteq {"root", "settings", "legacy", "plugins"}
  /\ admission \in [closing : BOOLEAN, count : Nat, drains : Nat]
  /\ setup \in Calls \cup {None}
  /\ call \in [Calls -> CallType]
  /\ \A c \in Calls : call[c].at \in Inside => call[c].session \in Sessions
  /\ held \in [Sessions -> SUBSET Parts] /\ orphaned \subseteq Sessions

StopTypeOK ==
  /\ gate \in Stoppers \cup {None} /\ cut \in BOOLEAN
  /\ stopper \in [Stoppers -> StopType]

RelayTypeOK ==
  /\ changes \in Nat /\ stops \in Nat
  /\ relay \in [Relays -> RelayType]

SdkTypeOK ==
  /\ server \in ServerType
  /\ wire \in [answers : Nat, bye : BOOLEAN, notes : Nat]

TypeOK == HostTypeOK /\ StopTypeOK /\ RelayTypeOK /\ SdkTypeOK

InCall(c) == call[c].at \in Inside

\* The states of a closing shutdown after its wait for the admitted calls.
Drained == {"dispose", "owned", "flush", "relays", "join", "unload", "legacy_stop", "root"}

Failures == stopper["sdk"].failures \cup stopper["process"].failures

\* What a shutdown that ran to its end leaves is what it reported it could not
\* stop: no call inside, no agent, owner, scope or registration, no relay, no
\* plugin or legacy process; and a second shutdown returns no earlier.
ShutdownReleases ==
  ~cut /\ (\E x \in Stoppers : StopAt(x, "returned")) =>
    /\ \A c \in Calls : ~InCall(c)
    /\ \A s \in Sessions : held[s] \subseteq (IF "dispose" \in Failures THEN {"agent"} ELSE {})
    /\ \A r \in Relays : relay[r].at = "ended"
    /\ made \subseteq (IF "unload" \in Failures THEN {"plugins"} ELSE {})
                     \cup (IF "legacy_stop" \in Failures THEN {"legacy"} ELSE {})
                     \cup (IF "root" \in Failures THEN {"root"} ELSE {})

\* Once the closing shutdown has seen the last call leave, no call comes in:
\* what it disposes of is not set up again behind it.
DrainHolds ==
  \A x \in Stoppers : stopper[x].closer /\ stopper[x].at \in Drained =>
    admission.count = 0 /\ \A c \in Calls : ~InCall(c)

\* A shutdown asleep in wait_drained has been woken if nobody is left to wake it.
DrainIsNoticed ==
  \A x \in Stoppers : StopAt(x, "wait") /\ admission.count = 0 => admission.drains > stopper[x].seen

\* The host never owns more agents than it may.
CapacityHolds == Cardinality(Owned) <= MaxLive

\* A session has all the services of its agent or none: a set-up that failed
\* takes back the agent and the registrations it made.  The exceptions are a
\* call at work on the session, an agent that would not stop or whose call was
\* dropped, and the end of the host.
SetupIsWhole ==
  \A s \in Sessions :
    \/ held[s] \subseteq {"scope"}
    \/ Parts \ {"scope"} \subseteq held[s]
    \/ s \in orphaned /\ held[s] \subseteq {"agent", "scope"}
    \/ setup # None /\ call[setup].session = s
    \/ admission.closing /\ admission.count = 0

\* When the client reads the answer to its shutdown it has read every settings
\* notice the host ever sent, and those are all the changes that were committed
\* unless more of them than the channel keeps overtook the settings relay.
ByeIsLast ==
  wire.bye => /\ wire.notes = told
              /\ told = changes \/ (relay["settings"].lagged /\ changes > Kept)

=============================================================================
