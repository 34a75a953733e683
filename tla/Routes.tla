------------------------------- MODULE Routes -------------------------------
(***************************************************************************)
(* Provider routes: the registrations of the LLM runtime (src/src/llm.rs), *)
(* the host's application of a settings change to them with its rollback   *)
(* (mutate_settings_inner, apply_route_settings_locked), the writers that  *)
(* reach the same settings without it, and the choice of a session's model *)
(* (select_model).  A document is the set of routes it declares; a route   *)
(* is its provider and models.  Other threads run between any two locks.   *)
(***************************************************************************)
EXTENDS Integers, Sequences, FiniteSets, SequencesExt

CONSTANTS
  Tasks,      \* callers of the host
  Documents,  \* pi-ai documents: sets of [provider, models, images, credential]
  DeepSeek,   \* the provider of the legacy namespace
  LegacyRoute,\* its route, when declared
  Models,     \* models a session may select: [provider, model]
  Foreign,    \* providers another adapter may register
  Kinds,      \* operations of the tasks
  MaxOps,     \* bound: operations of a task
  MaxForeign  \* bound: registrations by others

VARIABLES
  settings,  \* namespace -> [value, rev]: the pi-ai document, and whether the legacy one is declared
  slots,     \* LlmRuntime: provider -> [id, owner]
  nextId,
  state,     \* RouteState: [routes, registrations], registrations provider -> id
  resolver,  \* the routes the adapter resolves with
  routeGate, setup, \* holders, or None
  task,
  foreign,   \* registrations others hold: provider -> id
  session,   \* [selected, default, running, agent, image]
  drift      \* why settings and routes may differ: "direct", "conflict", "unrestored"

vars == <<settings, slots, nextId, state, resolver, routeGate, setup, task, foreign, session, drift>>
runtime == <<slots, nextId>>
locks == <<routeGate, setup>>

None == "none"
NoSelection == [provider |-> None, model |-> None]
NoTask == [at |-> "idle", ops |-> 0, ns |-> None, value |-> None, previous |-> None, rev |-> 0,
           routes |-> {}, old |-> {}, new |-> <<>>, pick |-> NoSelection, why |-> {}]

Put(f, k, v) == [x \in DOMAIN f \cup {k} |-> IF x = k THEN v ELSE f[x]]
Without(f, keys) == [x \in DOMAIN f \ keys |-> f[x]]
ProvidersOf(routes) == {r.provider : r \in routes}
\* parse_routes: every route has models, and no two share a credential.
Valid(doc) ==
  \A r \in doc : r.models # {} /\ \A q \in doc : q.credential = r.credential /\ r.credential # None => q = r
\* parse_routes, and the legacy route in the place of one of its name.
Parsed(doc, legacy) ==
  IF legacy THEN {r \in doc : r.provider # DeepSeek} \cup {LegacyRoute} ELSE doc
TakesImages(routes, pick) == \E r \in routes : r.provider = pick.provider /\ pick.model \in r.images
Routable(routes, pick) == \E r \in routes : r.provider = pick.provider /\ pick.model \in r.models

Init ==
  /\ \E doc \in {d \in Documents : Valid(d)}, legacy \in BOOLEAN :
       LET routes == Parsed(doc, legacy) IN
         /\ settings = [pi |-> [value |-> doc, rev |-> 0], legacy |-> [value |-> legacy, rev |-> 0]]
         /\ state = [routes |-> routes, registrations |-> [p \in ProvidersOf(routes) |-> 0]]
         /\ slots = [p \in ProvidersOf(routes) |-> [id |-> 0, owner |-> "host"]]
         /\ resolver = routes
  /\ nextId = 0 /\ routeGate = None /\ setup = None
  /\ task = [t \in Tasks |-> NoTask] /\ foreign = <<>>
  /\ session = [selected |-> NoSelection, default |-> NoSelection, running |-> FALSE, agent |-> FALSE, image |-> FALSE]
  /\ drift = {}

Become(t, rec) == task' = [task EXCEPT ![t] = rec]
Goto(t, at) == Become(t, [task[t] EXCEPT !.at = at])
Idle(t) == Become(t, [NoTask EXCEPT !.ops = task[t].ops])
May(t, kind) == kind \in Kinds /\ task[t].at = "idle" /\ task[t].ops < MaxOps

-----------------------------------------------------------------------------
(* LlmRuntime *)

Unregister(p, id) == IF p \in DOMAIN slots /\ slots[p].id = id THEN Without(slots, {p}) ELSE slots
\* The current slots of these registrations go, whatever else is registered.
UnregisterAll(regs) == Without(slots, {p \in DOMAIN regs : p \in DOMAIN slots /\ slots[p].id = regs[p]})
Free(p) == p \notin DOMAIN slots
IsActive(regs, p) == p \in DOMAIN regs /\ p \in DOMAIN slots /\ slots[p].id = regs[p]

ForeignRegisters(p) ==
  /\ nextId < MaxForeign /\ Free(p) /\ p \notin DOMAIN foreign
  /\ slots' = Put(slots, p, [id |-> nextId + 1, owner |-> "other"]) /\ nextId' = nextId + 1
  /\ foreign' = Put(foreign, p, nextId + 1)
  /\ UNCHANGED <<settings, state, resolver, locks, task, session, drift>>
\* Its handle is dropped.
ForeignDrops(p) ==
  /\ p \in DOMAIN foreign
  /\ slots' = Unregister(p, foreign[p]) /\ foreign' = Without(foreign, {p})
  /\ UNCHANGED <<settings, nextId, state, resolver, locks, task, session, drift>>

\* The old registrations are given up, and the new routes not yet in their place.
Applying == \E t \in Tasks : task[t].at \in {"register", "restore", "state"}
\* generate: the provider has an adapter, or the stream fails.
Served(p) == ~Free(p)

-----------------------------------------------------------------------------
(* mutate_settings_inner of a routed namespace *)

Accepted(ns, value) == ns = "pi" => Valid(value)
\* A value that changes nothing keeps the revision.
Written(old, value) == [value |-> value, rev |-> old.rev + (IF value = old.value THEN 0 ELSE 1)]

Mutate(t, ns, value) ==
  /\ May(t, "mutate") /\ routeGate = None
  /\ routeGate' = t
  /\ Become(t, [NoTask EXCEPT !.at = "commit", !.ops = task[t].ops + 1, !.ns = ns, !.value = value,
                  !.previous = settings[ns].value])
  /\ UNCHANGED <<settings, runtime, state, resolver, setup, foreign, session, drift>>

\* settings.update, replace or mutate; what changed nothing is applied all the same.
CommitSettings(t) ==
  /\ task[t].at = "commit" /\ Accepted(task[t].ns, task[t].value)
  /\ \E new \in {Written(settings[task[t].ns], task[t].value)} :
       /\ settings' = [settings EXCEPT ![task[t].ns] = new]
       /\ Become(t, [task[t] EXCEPT !.at = "apply", !.rev = new.rev])
  /\ UNCHANGED <<runtime, state, resolver, locks, foreign, session, drift>>
CommitRefused(t) ==
  /\ task[t].at = "commit" /\ ("refuse" \in Kinds \/ ~Accepted(task[t].ns, task[t].value))
  /\ routeGate' = None /\ Idle(t)
  /\ UNCHANGED <<settings, runtime, state, resolver, setup, foreign, session, drift>>

\* apply_route_settings_locked: the settings as they are now are parsed, and the
\* old registrations taken and given up.
Apply(t) ==
  /\ task[t].at = "apply"
  /\ Become(t, [task[t] EXCEPT !.at = "register", !.routes = Parsed(settings.pi.value, settings.legacy.value),
                  !.old = state.routes, !.new = <<>>, !.why = drift])
  /\ slots' = UnregisterAll(state.registrations)
  /\ state' = [state EXCEPT !.registrations = <<>>]
  /\ drift' = drift \ {"direct", "conflict"}
  /\ UNCHANGED <<settings, nextId, resolver, locks, foreign, session>>

Todo(t) == ProvidersOf(task[t].routes) \ DOMAIN task[t].new
RegisterRoute(t, p) ==
  /\ task[t].at = "register" /\ p \in Todo(t)
  /\ IF Free(p)
     THEN /\ nextId' = nextId + 1
          /\ slots' = Put(slots, p, [id |-> nextId + 1, owner |-> "host"])
          /\ Become(t, [task[t] EXCEPT !.new = Put(@, p, nextId + 1)])
     ELSE /\ slots' = UnregisterAll(task[t].new) /\ UNCHANGED nextId
          /\ Become(t, [task[t] EXCEPT !.at = "restore", !.new = <<>>])
  /\ UNCHANGED <<settings, state, resolver, locks, foreign, session, drift>>

\* A registration failed: the old routes are registered again.
Restore(t) ==
  /\ task[t].at = "restore"
  /\ LET old == ProvidersOf(task[t].old) IN
       IF \A p \in old : Free(p)
       THEN /\ slots' = [p \in DOMAIN slots \cup old |->
                           IF p \in old THEN [id |-> nextId + 1, owner |-> "host"] ELSE slots[p]]
            /\ nextId' = nextId + 1
            /\ state' = [routes |-> task[t].old, registrations |-> [p \in old |-> nextId + 1]]
            /\ UNCHANGED drift
       ELSE drift' = drift \cup {"unrestored"} /\ UNCHANGED <<runtime, state>>
  /\ Goto(t, "rollback")
  /\ UNCHANGED <<settings, resolver, locks, foreign, session>>

\* The settings go back, if their revision is still the one just committed.
RollbackSettings(t) ==
  /\ task[t].at = "rollback"
  /\ IF settings[task[t].ns].rev = task[t].rev
     THEN /\ settings' = [settings EXCEPT ![task[t].ns] = Written(@, task[t].previous)]
          /\ drift' = drift \cup task[t].why
     ELSE drift' = drift \cup {"conflict"} /\ UNCHANGED settings
  /\ routeGate' = None /\ Idle(t)
  /\ UNCHANGED <<runtime, state, resolver, setup, foreign, session>>

SetResolver(t) ==
  /\ task[t].at = "register" /\ Todo(t) = {}
  /\ resolver' = task[t].routes /\ Goto(t, "state")
  /\ UNCHANGED <<settings, runtime, state, locks, foreign, session, drift>>
SetState(t) ==
  /\ task[t].at = "state"
  /\ state' = [routes |-> task[t].routes, registrations |-> task[t].new]
  /\ drift' = (drift \ {"unrestored"}) \cup {"changed"}
  /\ routeGate' = None /\ Idle(t)
  /\ UNCHANGED <<settings, runtime, resolver, setup, foreign, session>>

-----------------------------------------------------------------------------
(* Writers without the gate: the bridge's settings service, and            *)
(* set_provider_enabled, whose flag is no part of a parsed route.          *)

WriteDirect(t, doc) ==
  /\ May(t, "direct") /\ doc # settings.pi.value /\ Valid(doc)
  /\ settings' = [settings EXCEPT !.pi = Written(@, doc)]
  /\ drift' = drift \cup {"direct"}
  /\ Become(t, [NoTask EXCEPT !.ops = task[t].ops + 1])
  /\ UNCHANGED <<runtime, state, resolver, locks, foreign, session>>

\* set_provider_enabled reads the document of an active provider's route, and
\* writes it with the flag if its revision is still that.
EnableProvider(t) ==
  /\ May(t, "direct") /\ \E p \in ProvidersOf(state.routes) : IsActive(state.registrations, p)
  /\ Become(t, [NoTask EXCEPT !.at = "enable", !.ops = task[t].ops + 1, !.rev = settings.pi.rev])
  /\ UNCHANGED <<settings, runtime, state, resolver, locks, foreign, session, drift>>
WriteEnabled(t) ==
  /\ task[t].at = "enable" /\ Idle(t)
  /\ settings' = IF settings.pi.rev = task[t].rev THEN [settings EXCEPT !.pi.rev = @ + 1] ELSE settings
  /\ UNCHANGED <<runtime, state, resolver, locks, foreign, session, drift>>

-----------------------------------------------------------------------------
(* select_model *)

\* The selection is checked against the routes, then setup is waited for.
Select(t, pick) ==
  /\ May(t, "select") /\ Routable(state.routes, pick)
  /\ Become(t, [NoTask EXCEPT !.at = "setup", !.ops = task[t].ops + 1, !.pick = pick])
  /\ UNCHANGED <<settings, runtime, state, resolver, locks, foreign, session, drift>>
\* A busy session refuses, and so does one with images the model does not take; an idle agent is disposed of before anything is written.
SelectSetup(t) ==
  /\ task[t].at = "setup" /\ setup = None
  /\ IF session.running \/ (session.image /\ ~TakesImages(state.routes, task[t].pick)) THEN Idle(t) /\ UNCHANGED <<setup, session>>
     ELSE /\ setup' = t /\ Goto(t, "append")
          /\ session' = [session EXCEPT !.agent = FALSE]
  /\ UNCHANGED <<settings, runtime, state, resolver, routeGate, foreign, drift>>
AppendSelection(t) ==
  /\ task[t].at = "append"
  /\ session' = [session EXCEPT !.selected = task[t].pick] /\ Goto(t, "default")
  /\ UNCHANGED <<settings, runtime, state, resolver, locks, foreign, drift>>
\* The default for new sessions; a refused write ends the call here.
ReplaceDefault(t) ==
  /\ task[t].at = "default"
  /\ \/ session' = [session EXCEPT !.default = task[t].pick] /\ UNCHANGED drift
     \/ "refuse" \in Kinds /\ drift' = drift \cup {"default"} /\ UNCHANGED session
  /\ setup' = None /\ Idle(t)
  /\ UNCHANGED <<settings, runtime, state, resolver, routeGate, foreign>>

\* A prompt makes the agent under setup, with the model selected by then, and it
\* runs, perhaps with an image; send refuses a selection that is not routable,
\* and images it does not take.
Start(image) ==
  /\ "select" \in Kinds /\ ~session.running /\ setup = None
  /\ session.selected # NoSelection /\ Routable(state.routes, session.selected)
  /\ image \/ session.image => TakesImages(state.routes, session.selected)
  /\ session' = [session EXCEPT !.running = TRUE, !.agent = TRUE, !.image = @ \/ image]
  /\ UNCHANGED <<settings, runtime, state, resolver, locks, task, foreign, drift>>
Finish ==
  /\ session.running /\ session' = [session EXCEPT !.running = FALSE]
  /\ UNCHANGED <<settings, runtime, state, resolver, locks, task, foreign, drift>>

Next ==
  \/ \E p \in Foreign : ForeignRegisters(p) \/ ForeignDrops(p)
  \/ \E t \in Tasks :
       \/ (\E d \in Documents : Mutate(t, "pi", d)) \/ (\E l \in BOOLEAN : Mutate(t, "legacy", l))
       \/ CommitSettings(t) \/ CommitRefused(t) \/ Apply(t) \/ (\E p \in Todo(t) : RegisterRoute(t, p))
       \/ Restore(t) \/ RollbackSettings(t) \/ SetResolver(t) \/ SetState(t)
       \/ (\E d \in Documents : WriteDirect(t, d)) \/ EnableProvider(t) \/ WriteEnabled(t)
       \/ (\E m \in Models : Select(t, m)) \/ SelectSetup(t) \/ AppendSelection(t) \/ ReplaceDefault(t)
  \/ (\E image \in BOOLEAN : Start(image)) \/ Finish

Spec == Init /\ [][Next]_vars

-----------------------------------------------------------------------------
\* At rest the routes, their registrations and what the adapter resolves with
\* are those the settings declare.  The exceptions are a write that went around
\* the host's gate, a rollback such a write made impossible, and a name that
\* another adapter took while the old registrations were being restored.
RoutesFollowSettings ==
  routeGate = None /\ drift \cap {"direct", "conflict", "unrestored"} = {} =>
    /\ Valid(settings.pi.value)
    /\ state.routes = Parsed(settings.pi.value, settings.legacy.value)
    /\ resolver = state.routes
    /\ DOMAIN state.registrations = ProvidersOf(state.routes)
    /\ \A p \in ProvidersOf(state.routes) : IsActive(state.registrations, p)

\* A registration is given up only by its owner: the host's changes never
\* remove another adapter's, nor that adapter's drop the host's.
OwnersKeepSlots ==
  /\ \A p \in DOMAIN foreign : p \in DOMAIN slots /\ slots[p].owner = "other" /\ slots[p].id = foreign[p]
  /\ \A p \in DOMAIN slots : slots[p].owner = "other" => p \in DOMAIN foreign

\* A request to a provider of the routes finds its adapter, unless an update of
\* the routes is between giving up the old registrations and making the new.
RoutedIsServed ==
  ~Applying /\ "unrestored" \notin drift => \A p \in ProvidersOf(state.routes) : Served(p)

\* An idle session's agent was made with the model the session has selected,
\* which takes the images of its history as long as no update changes the routes,
\* and the default is the last one selected unless its write was refused.
SelectionHolds ==
  /\ setup = None /\ "default" \notin drift => session.default = session.selected
  /\ session.agent => session.selected # NoSelection
  /\ session.image /\ "changed" \notin drift => TakesImages(state.routes, session.selected)
  /\ \A t \in Tasks : task[t].at \in {"append", "default"} => ~session.agent /\ ~session.running
=============================================================================
