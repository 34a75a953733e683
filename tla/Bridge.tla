------------------------------- MODULE Bridge -------------------------------
(***************************************************************************)
(* The domain bridge between the host and a Node compatibility process     *)
(* (bridge.rs).  A generation is one connection.  Its GenerationState owns *)
(* everything the process registered: service calls and package operations *)
(* in progress, timers, event subscriptions, tools and web routes.  Frames *)
(* are handled on several threads at once, each handler taking the         *)
(* generations lock for a few statements at a time, so a handler's locked  *)
(* sections are separate actions here.                                     *)
(***************************************************************************)
EXTENDS Naturals, FiniteSets

CONSTANTS Gens,       \* connection generations
          Calls,      \* requests the process may send, each handled once
          Kinds,      \* kinds of request: "plain", "pnpm", "timer", "subscribe", "register"
          Ids,        \* request ids
          Regs,       \* registration ids, operation ids
          Keys,       \* web route keys
          MaxTimers, MaxRoutes, MaxSubs, MaxPermits

VARIABLES gens,       \* phase of each generation: in the map iff "live"
          gs,         \* its GenerationState, in the map or taken out by cleanup
          routes,     \* WebRouteRegistry: the generation behind each key
          call,       \* each request: where its handler is, and its token
          task,       \* the task a timer or subscribe request spawned
          installed,  \* requests whose tool, prompt or adapter is registered with the host
          asked,      \* history: ids each generation was asked to cancel
          lost        \* history: cancellations dropped or expired before their request came

vars == <<gens, gs, routes, call, task, installed, asked, lost>>

None == "none"
NoState == [calls |-> [i \in Ids |-> None], ops |-> [i \in Ids |-> None], pend |-> {},
            timers |-> [r \in Regs |-> None], subs |-> [r \in Regs |-> None],
            regs |-> [r \in Regs |-> None], routes |-> {}]
Idle == [at |-> "idle", gen |-> None, id |-> None, kind |-> None, reg |-> None, cancelled |-> FALSE]
Phases == {"new", "live", "removed", "cancelled", "unrouted", "gone"}

Init == /\ gens = [g \in Gens |-> "new"]
        /\ gs = [g \in Gens |-> NoState]
        /\ routes = [k \in Keys |-> None]
        /\ call = [c \in Calls |-> Idle]
        /\ task = [c \in Calls |-> None]
        /\ installed = {}
        /\ asked = [g \in Gens |-> {}]
        /\ lost = [g \in Gens |-> {}]

Live(g) == gens[g] = "live"
Used(f) == {x \in DOMAIN f : f[x] # None}
At(c, where) == call[c].at = where
Goto(c, where) == call' = [call EXCEPT ![c].at = where]
Set(g, field, x, v) == gs' = [gs EXCEPT ![g] = [@ EXCEPT ![field][x] = v]]
CancelTokens(cs) == [c \in Calls |-> IF c \in cs THEN [call[c] EXCEPT !.cancelled = TRUE] ELSE call[c]]

(***************************************************************************)
(* Generations.  attach_client admits a number once; cleanup_generation    *)
(* takes the state out of the map, then works on it without the lock.      *)
(***************************************************************************)
Attach(g) ==
  /\ gens[g] = "new"
  /\ gens' = [gens EXCEPT ![g] = "live"]
  /\ UNCHANGED <<gs, routes, call, task, installed, asked, lost>>

CleanupTake(g) ==
  /\ Live(g)
  /\ gens' = [gens EXCEPT ![g] = "removed"]
  /\ UNCHANGED <<gs, routes, call, task, installed, asked, lost>>

\* cleanup_state cancels the generation's token and every call it still lists.
CleanupCancel(g) ==
  /\ gens[g] = "removed"
  /\ gens' = [gens EXCEPT ![g] = "cancelled"]
  /\ call' = CancelTokens({gs[g].calls[i] : i \in Ids} \cup {gs[g].ops[i] : i \in Ids})
  /\ UNCHANGED <<gs, routes, task, installed, asked, lost>>

CleanupRoutes(g) ==
  /\ gens[g] = "cancelled"
  /\ gens' = [gens EXCEPT ![g] = "unrouted"]
  /\ routes' = [k \in Keys |-> IF k \in gs[g].routes THEN None ELSE routes[k]]
  /\ UNCHANGED <<gs, call, task, installed, asked, lost>>

\* A task is aborted at its next await: one that has checked its generation still sends its
\* request, and one that is removing its own entry has no await left.
Abort(cs) ==
  [c \in Calls |-> IF c \notin cs \/ task[c] \in {None, "removing"} THEN task[c]
                   ELSE IF task[c] = "checked" THEN "aborting" ELSE "ended"]

CleanupAbort(g) ==
  /\ gens[g] = "unrouted"
  /\ gens' = [gens EXCEPT ![g] = "gone"]
  /\ task' = Abort({gs[g].timers[r] : r \in Regs} \cup {gs[g].subs[r] : r \in Regs})
  /\ installed' = installed \ {gs[g].regs[r] : r \in Regs}
  /\ gs' = [gs EXCEPT ![g] = NoState]
  /\ UNCHANGED <<routes, call, asked, lost>>

\* Mutant: the request does not look at the cancellations that came before it.
AdmitUncancelled(c, g, i, kind, r) ==
  /\ At(c, "idle") /\ Live(g) /\ kind \in Kinds \ {"pnpm"} /\ gs[g].calls[i] = None
  /\ call' = [call EXCEPT ![c] = [at |-> "running", gen |-> g, id |-> i, kind |-> kind, reg |-> r,
                                  cancelled |-> FALSE]]
  /\ gs' = [gs EXCEPT ![g].calls[i] = c]
  /\ UNCHANGED <<gens, routes, task, installed, asked, lost>>

(***************************************************************************)
(* Service calls.  handle_frame lists the call's token under its request   *)
(* id; a second request with an active id is refused, but only after its   *)
(* token has taken the first one's place.                                  *)
(***************************************************************************)
Admit(c, g, i, kind, r) ==
  /\ At(c, "idle") /\ Live(g) /\ kind \in Kinds \ {"pnpm"}
  /\ LET fresh == gs[g].calls[i] = None
     IN /\ call' = [call EXCEPT ![c] = [at |-> IF fresh THEN "running" ELSE "done", gen |-> g, id |-> i,
                                        kind |-> kind, reg |-> r, cancelled |-> fresh /\ i \in gs[g].pend]]
        /\ gs' = [gs EXCEPT ![g].calls[i] = c, ![g].pend = IF fresh THEN @ \ {i} ELSE @]
  /\ UNCHANGED <<gens, routes, task, installed, asked, lost>>

\* pnpm_run: package operations are told apart by operation id, but listed by request id.
RunPnpm(c, g, i, r) ==
  /\ At(c, "idle") /\ Live(g) /\ "pnpm" \in Kinds
  /\ IF \E d \in {gs[g].ops[j] : j \in Used(gs[g].ops)} : call[d].reg = r
     THEN Goto(c, "done") /\ UNCHANGED gs
     ELSE /\ call' = [call EXCEPT ![c] = [at |-> "running", gen |-> g, id |-> i, kind |-> "pnpm", reg |-> r,
                                          cancelled |-> i \in gs[g].pend]]
          /\ gs' = [gs EXCEPT ![g].ops[i] = c, ![g].pend = @ \ {i}]
  /\ UNCHANGED <<gens, routes, task, installed, asked, lost>>

\* The work ends, or is dropped because its token was cancelled or its time is up.
Return(c) ==
  /\ At(c, "running")
  /\ call[c].cancelled \/ call[c].kind \in {"plain", "pnpm"}
  /\ Goto(c, "returned")
  /\ UNCHANGED <<gens, gs, routes, task, installed, asked, lost>>

\* ServiceCallGuard and PnpmOperationGuard take the request id off the list.
Finish(c) ==
  /\ At(c, "returned")
  /\ Goto(c, "done")
  /\ LET g == call[c].gen
     IN gs' = IF ~Live(g) THEN gs
              ELSE IF call[c].kind = "pnpm" THEN [gs EXCEPT ![g].ops[call[c].id] = None]
              ELSE [gs EXCEPT ![g].calls[call[c].id] = None]
  /\ UNCHANGED <<gens, routes, task, installed, asked, lost>>

\* cancel_request: a cancellation that finds nothing waits for its request, for a while.
Cancel(g, i) ==
  /\ Live(g)
  /\ LET found == {gs[g].calls[i], gs[g].ops[i]} \ {None}
         stopped == {c \in found : ~call[c].cancelled}
         elsewhere == \E h \in Gens \ {g} : Live(h) /\ {gs[h].calls[i], gs[h].ops[i]} # {None}
         waits == stopped = {} /\ ~elsewhere
     IN /\ call' = CancelTokens(stopped)
        /\ gs' = [gs EXCEPT ![g].calls[i] = None, ![g].ops[i] = None,
                            ![g].pend = IF waits THEN @ \cup {i} ELSE @]
        /\ lost' = [lost EXCEPT ![g] = IF stopped = {} /\ elsewhere THEN @ \cup {i} ELSE @]
  /\ asked' = [asked EXCEPT ![g] = @ \cup {i}]
  /\ UNCHANGED <<gens, routes, task, installed>>

ForgetCancel(g, i) ==
  /\ Live(g) /\ i \in gs[g].pend
  /\ gs' = [gs EXCEPT ![g].pend = @ \ {i}]
  /\ lost' = [lost EXCEPT ![g] = @ \cup {i}]
  /\ UNCHANGED <<gens, routes, call, task, installed, asked>>

(***************************************************************************)
(* Timers: reserve_timer, then the task is spawned parked, installed in    *)
(* the entry if the entry is still the reserved one, and released.         *)
(***************************************************************************)
ReserveTimer(c) ==
  LET g == call[c].gen
      r == call[c].reg
  IN /\ At(c, "running") /\ call[c].kind = "timer" /\ ~call[c].cancelled
     /\ IF /\ Live(g)
           /\ Cardinality(Used(gs[g].timers)) < MaxTimers
           /\ gs[g].timers[r] = None /\ gs[g].regs[r] = None
        THEN Set(g, "timers", r, c) /\ Goto(c, "reserved")
        ELSE Goto(c, "returned") /\ UNCHANGED gs
     /\ UNCHANGED <<gens, routes, task, installed, asked, lost>>

InstallTimer(c) ==
  LET g == call[c].gen
  IN /\ At(c, "reserved")
     /\ task' = [task EXCEPT ![c] = IF Live(g) /\ gs[g].timers[call[c].reg] = c THEN "asleep" ELSE "ended"]
     /\ Goto(c, "returned")
     /\ UNCHANGED <<gens, gs, routes, installed, asked, lost>>

CancelTimer(g, r) ==
  /\ Live(g) /\ gs[g].timers[r] # None
  /\ task' = Abort({gs[g].timers[r]})
  /\ Set(g, "timers", r, None)
  /\ UNCHANGED <<gens, routes, call, installed, asked, lost>>

\* remove_timer_if_exact: a timer that fired removes its own entry and no later one.
RemoveFired(c) ==
  LET g == call[c].gen
      r == call[c].reg
  IN /\ task[c] = "removing"
     /\ task' = [task EXCEPT ![c] = "ended"]
     /\ IF Live(g) /\ gs[g].timers[r] = c THEN Set(g, "timers", r, None) ELSE UNCHANGED gs
     /\ UNCHANGED <<gens, routes, call, installed, asked, lost>>

(***************************************************************************)
(* callback_to_node, for a timer that is due or a subscription with an     *)
(* event: the generation is looked up, a permit taken, and the request     *)
(* begun; it ends with an answer, a time-out or a cancellation.            *)
(***************************************************************************)
Failed(c) == IF call[c].kind = "timer" THEN "removing" ELSE "ended"
Sending == {c \in Calls : task[c] = "calling"}

BeginCallback(c) ==
  /\ task[c] \in {"asleep", "listening"}
  /\ task' = [task EXCEPT ![c] = IF Live(call[c].gen) THEN "checked" ELSE Failed(c)]
  /\ UNCHANGED <<gens, gs, routes, call, installed, asked, lost>>

SendCallback(c) ==
  /\ task[c] = "checked"
  /\ task' = [task EXCEPT ![c] = IF Cardinality(Sending) < MaxPermits THEN "calling" ELSE Failed(c)]
  /\ UNCHANGED <<gens, gs, routes, call, installed, asked, lost>>

SendAborted(c) ==
  /\ task[c] = "aborting"
  /\ task' = [task EXCEPT ![c] = "ended"]
  /\ UNCHANGED <<gens, gs, routes, call, installed, asked, lost>>

EndCallback(c) ==
  /\ task[c] = "calling"
  /\ \E answered \in {TRUE, FALSE} :
       task' = [task EXCEPT ![c] = IF answered /\ call[c].kind = "subscribe" THEN "listening" ELSE Failed(c)]
  /\ UNCHANGED <<gens, gs, routes, call, installed, asked, lost>>

\* A subscription listens to the host and to its generation's token.
StopListening(c) ==
  /\ task[c] = "listening"
  /\ gens[call[c].gen] \in {"cancelled", "unrouted", "gone"}
  /\ task' = [task EXCEPT ![c] = "ended"]
  /\ UNCHANGED <<gens, gs, routes, call, installed, asked, lost>>

(***************************************************************************)
(* hostEvents.subscribe checks the limit and the id under one lock and     *)
(* enters the task under a later one, where it replaces what it finds.     *)
(***************************************************************************)
CheckSubscribe(c) ==
  LET g == call[c].gen
  IN /\ At(c, "running") /\ call[c].kind = "subscribe" /\ ~call[c].cancelled
     /\ Goto(c, IF /\ Live(g) /\ gs[g].subs[call[c].reg] = None
                   /\ Cardinality(Used(gs[g].subs)) < MaxSubs
                THEN "checked" ELSE "returned")
     /\ UNCHANGED <<gens, gs, routes, task, installed, asked, lost>>

EnterSubscription(c) ==
  LET g == call[c].gen
  IN /\ At(c, "checked")
     /\ task' = [task EXCEPT ![c] = IF Live(g) THEN "listening" ELSE "ended"]
     /\ IF Live(g) THEN Set(g, "subs", call[c].reg, c) ELSE UNCHANGED gs
     /\ Goto(c, "returned")
     /\ UNCHANGED <<gens, routes, installed, asked, lost>>

Unsubscribe(g, r) ==
  /\ Live(g) /\ gs[g].subs[r] # None
  /\ task' = Abort({gs[g].subs[r]})
  /\ Set(g, "subs", r, None)
  /\ UNCHANGED <<gens, routes, call, installed, asked, lost>>

(***************************************************************************)
(* Tools, prompt sections and LLM adapters: registered with the host, then *)
(* entered under the generation; if that fails the registration is dropped.*)
(***************************************************************************)
Register(c) ==
  /\ At(c, "running") /\ call[c].kind = "register" /\ ~call[c].cancelled
  /\ installed' = installed \cup {c}
  /\ Goto(c, "registered")
  /\ UNCHANGED <<gens, gs, routes, task, asked, lost>>

AddRegistration(c) ==
  LET g == call[c].gen
      r == call[c].reg
  IN /\ At(c, "registered")
     /\ IF Live(g) /\ gs[g].regs[r] = None /\ gs[g].timers[r] = None
        THEN Set(g, "regs", r, c) /\ UNCHANGED installed
        ELSE installed' = installed \ {c} /\ UNCHANGED gs
     /\ Goto(c, "returned")
     /\ UNCHANGED <<gens, routes, task, asked, lost>>

\* service.remove, registration.dispose: the id names a registration or a timer.
RemoveRegistration(g, r) ==
  /\ Live(g)
  /\ \/ /\ gs[g].regs[r] # None
        /\ installed' = installed \ {gs[g].regs[r]}
        /\ Set(g, "regs", r, None)
        /\ UNCHANGED task
     \/ /\ gs[g].regs[r] = None /\ gs[g].timers[r] # None
        /\ task' = Abort({gs[g].timers[r]})
        /\ Set(g, "timers", r, None)
        /\ UNCHANGED installed
  /\ UNCHANGED <<gens, routes, call, asked, lost>>

(***************************************************************************)
(* Web routes and upgrades: the registry and the generation's list change  *)
(* together, under both locks.                                             *)
(***************************************************************************)
RegisterRoute(g, k) ==
  /\ Live(g) /\ routes[k] = None /\ k \notin gs[g].routes
  /\ Cardinality(Used(routes)) < MaxRoutes
  /\ routes' = [routes EXCEPT ![k] = g]
  /\ gs' = [gs EXCEPT ![g].routes = @ \cup {k}]
  /\ UNCHANGED <<gens, call, task, installed, asked, lost>>

RemoveRoute(g, k) ==
  /\ Live(g) /\ k \in gs[g].routes
  /\ routes' = [routes EXCEPT ![k] = None]
  /\ gs' = [gs EXCEPT ![g].routes = @ \ {k}]
  /\ UNCHANGED <<gens, call, task, installed, asked, lost>>

GenerationNext ==
  \E g \in Gens :
    \/ Attach(g) \/ CleanupTake(g) \/ CleanupCancel(g) \/ CleanupRoutes(g) \/ CleanupAbort(g)
    \/ \E i \in Ids : Cancel(g, i) \/ ForgetCancel(g, i)
    \/ \E r \in Regs : CancelTimer(g, r) \/ Unsubscribe(g, r) \/ RemoveRegistration(g, r)
    \/ \E k \in Keys : RegisterRoute(g, k) \/ RemoveRoute(g, k)

CallNext ==
  \E c \in Calls :
    \/ \E g \in Gens, i \in Ids, r \in Regs : (\E kind \in Kinds : Admit(c, g, i, kind, r)) \/ RunPnpm(c, g, i, r)
    \/ Return(c) \/ Finish(c)
    \/ ReserveTimer(c) \/ InstallTimer(c) \/ RemoveFired(c)
    \/ BeginCallback(c) \/ SendCallback(c) \/ SendAborted(c) \/ EndCallback(c) \/ StopListening(c)
    \/ CheckSubscribe(c) \/ EnterSubscription(c)
    \/ Register(c) \/ AddRegistration(c)

Next == GenerationNext \/ CallNext
Spec == Init /\ [][Next]_vars

Handling == {"running", "reserved", "checked", "registered"}
Alone(c) == \A d \in Calls \ {c} : <<call[d].gen, call[d].id>> # <<call[c].gen, call[c].id>>
Alive(c) == task[c] \in {"asleep", "listening", "checked", "calling"}

\* A request whose id nobody else used can be cancelled as long as it runs: its token is the
\* one listed under its id; and a cancellation asked for before it came has been applied to
\* it, unless that was forgotten (handle_frame, cancel_request).
CancelReachesRequest ==
  \A c \in Calls :
    At(c, "running") /\ Alone(c) /\ ~call[c].cancelled
      => LET g == call[c].gen
             i == call[c].id
         IN /\ Live(g) => c \in {gs[g].calls[i], gs[g].ops[i]}
            /\ i \in asked[g] => i \in lost[g]

\* When cleanup_generation has returned, the generation holds no route, no timer and no
\* installed registration but one still in a handler's hand, every request of it is cancelled
\* or was displaced by a request with its id, and only a subscription displaced by another
\* with its id is still listening (cleanup_state).
GenerationLeavesNothing ==
  \A g \in Gens :
    /\ \A k \in Keys : routes[k] = g => k \in gs[g].routes
    /\ gens[g] = "gone" =>
         \A c \in Calls : call[c].gen = g =>
           /\ At(c, "running") /\ Alone(c) => call[c].cancelled
           /\ c \in installed => At(c, "registered")
           /\ call[c].kind = "timer" => ~Alive(c)
           /\ Alive(c) => \E d \in Calls \ {c} : call[d].gen = g /\ call[d].reg = call[c].reg

\* A generation never has more timers running than its limit, the registry never more
\* routes, and no more callbacks are in flight than there are permits; a timer that is
\* running can be cancelled by its id (reserve_timer, remove_timer_if_exact).
BridgeLimitsHold ==
  /\ Cardinality(Used(routes)) <= MaxRoutes
  /\ Cardinality(Sending) <= MaxPermits
  /\ \A g \in Gens :
       LET running == {c \in Calls : call[c].gen = g /\ call[c].kind = "timer" /\ Alive(c)}
       IN /\ Cardinality(running) <= MaxTimers
          /\ Live(g) => \A c \in running : gs[g].timers[call[c].reg] = c
=============================================================================
