---------------------------- MODULE LegacyProfile ----------------------------
(***************************************************************************)
(* The managed Node compatibility host of a profile (legacy.rs): one       *)
(* process at a time, each start a new generation attached to the domain   *)
(* bridge.  start, shutdown, the disconnect callback and the heartbeat     *)
(* thread run concurrently and share only the lifecycle lock, which none   *)
(* of them holds across a call to the supervisor.  The supervisor itself   *)
(* (tessivum_node) is external: it runs one process, and its shutdown      *)
(* kills whatever process that is and runs its registered cleanup.         *)
(***************************************************************************)
EXTENDS Naturals

CONSTANTS Starters,   \* threads that call start or restart
          MaxGen      \* bound on the generations started

VARIABLES life,       \* Lifecycle: where, and the generation it names
          proc,       \* external: generation of the running process, 0 if none
          attached,   \* generations attached to the bridge
          hooked,     \* external: generations with a registered cleanup
          lost,       \* generations whose connection is lost
          handler,    \* disconnect callback of each generation
          start,      \* threads in start
          stop,       \* the thread in shutdown
          last        \* the last generation the supervisor started

vars == <<life, proc, attached, hooked, lost, handler, start, stop, last>>

Gens == 1..MaxGen
Lifecycle(at, g) == [at |-> at, gen |-> g]
Stopped == Lifecycle("stopped", 0)

Init == /\ life = Stopped /\ proc = 0 /\ last = 0
        /\ attached = {} /\ hooked = {} /\ lost = {}
        /\ handler = [g \in Gens |-> "unset"]
        /\ start = [p \in Starters |-> [at |-> "idle", gen |-> 0]]
        /\ stop = "idle"

At(p, where) == start[p].at = where
Goto(p, where) == start' = [start EXCEPT ![p].at = where]

StartBegin(p) ==
  /\ At(p, "idle") /\ life.at = "stopped"
  /\ life' = Lifecycle("starting", 0)
  /\ Goto(p, "spawn")
  /\ UNCHANGED <<proc, attached, hooked, lost, handler, stop, last>>

\* NodeSupervisor::start fails, or a process is still there, or a new generation is ready.
Spawn(p) ==
  /\ At(p, "spawn")
  /\ \/ /\ life' = Stopped
        /\ start' = [start EXCEPT ![p] = [at |-> "idle", gen |-> 0]]
        /\ UNCHANGED <<proc, last>>
     \/ /\ proc = 0 /\ last < MaxGen
        /\ last' = last + 1 /\ proc' = last'
        /\ start' = [start EXCEPT ![p] = [at |-> "attach", gen |-> last']]
        /\ UNCHANGED life
  /\ UNCHANGED <<attached, hooked, lost, handler, stop>>

AttachClient(p) ==
  /\ At(p, "attach")
  /\ attached' = attached \cup {start[p].gen}
  /\ Goto(p, "name")
  /\ UNCHANGED <<life, proc, hooked, lost, handler, stop, last>>

NameGeneration(p) ==
  /\ At(p, "name")
  /\ life' = Lifecycle("starting", start[p].gen)
  /\ Goto(p, "hook")
  /\ UNCHANGED <<proc, attached, hooked, lost, handler, stop, last>>

\* register_cleanup fails when the supervisor no longer runs this generation.
RegisterCleanup(p) ==
  /\ At(p, "hook")
  /\ IF proc = start[p].gen
     THEN hooked' = hooked \cup {proc} /\ Goto(p, "listen")
     ELSE Goto(p, "failed") /\ UNCHANGED hooked
  /\ UNCHANGED <<life, proc, attached, lost, handler, stop, last>>

SetDisconnectHandler(p) ==
  /\ At(p, "listen")
  /\ handler' = [handler EXCEPT ![start[p].gen] = IF start[p].gen \in lost THEN "cleanup" ELSE "set"]
  /\ Goto(p, "finish")
  /\ UNCHANGED <<life, proc, attached, hooked, lost, stop, last>>

StartEnd(p) ==
  LET g == start[p].gen
  IN /\ At(p, "finish")
     /\ IF life = Lifecycle("starting", g) /\ g \notin lost
        THEN life' = Lifecycle("running", g) /\ Goto(p, "idle")
        ELSE Goto(p, "failed") /\ UNCHANGED life
     /\ UNCHANGED <<proc, attached, hooked, lost, handler, stop, last>>

\* cleanup_profile_generation, its second half: only the owner of the lifecycle resets it.
Owns(g) == life.at \in {"starting", "running"} /\ life.gen = g
Disown(g) == IF Owns(g) THEN Stopped ELSE life

\* Killing the process loses its connection and runs the cleanup registered for it.
Kill ==
  /\ proc' = 0
  /\ lost' = IF proc = 0 THEN lost ELSE lost \cup {proc}
  /\ handler' = IF proc # 0 /\ handler[proc] = "set" THEN [handler EXCEPT ![proc] = "cleanup"] ELSE handler
  /\ attached' = attached \ (IF proc \in hooked THEN {proc} ELSE {})

KillAndDisown == Kill /\ life' = IF proc \in hooked THEN Disown(proc) ELSE life

\* stop_failed_start: the bridge is cleaned, the supervisor shut down, the lifecycle reset.
FailedCleanup(p) ==
  /\ At(p, "failed")
  /\ attached' = attached \ {start[p].gen}
  /\ Goto(p, "kill")
  /\ UNCHANGED <<life, proc, hooked, lost, handler, stop, last>>

FailedKill(p) ==
  /\ At(p, "kill")
  /\ KillAndDisown
  /\ Goto(p, "reset")
  /\ UNCHANGED <<hooked, stop, last>>

FailedReset(p) ==
  /\ At(p, "reset")
  /\ life' = Stopped
  /\ start' = [start EXCEPT ![p] = [at |-> "idle", gen |-> 0]]
  /\ UNCHANGED <<proc, attached, hooked, lost, handler, stop, last>>

\* The connection is lost, or the heartbeat thread closes it after a missed beat.
Disconnect ==
  /\ proc # 0 /\ proc \notin lost
  /\ lost' = lost \cup {proc}
  /\ handler' = IF handler[proc] = "set" THEN [handler EXCEPT ![proc] = "cleanup"] ELSE handler
  /\ UNCHANGED <<life, proc, attached, hooked, start, stop, last>>

\* The disconnect callback: clean the bridge, disown, then shut the supervisor down.
HandlerCleanup(g) ==
  /\ handler[g] = "cleanup"
  /\ attached' = attached \ {g}
  /\ handler' = [handler EXCEPT ![g] = "disown"]
  /\ UNCHANGED <<life, proc, hooked, lost, start, stop, last>>

HandlerDisown(g) ==
  /\ handler[g] = "disown"
  /\ life' = Disown(g)
  /\ handler' = [handler EXCEPT ![g] = "kill"]
  /\ UNCHANGED <<proc, attached, hooked, lost, start, stop, last>>

HandlerKill(g) ==
  /\ handler[g] = "kill"
  /\ proc' = 0
  /\ lost' = IF proc = 0 THEN lost ELSE lost \cup {proc}
  /\ attached' = attached \ (IF proc \in hooked THEN {proc} ELSE {})
  /\ life' = IF proc \in hooked THEN Disown(proc) ELSE life
  /\ handler' = [h \in Gens |-> IF h = g THEN "done" ELSE IF h = proc /\ handler[h] = "set" THEN "cleanup"
                                ELSE handler[h]]
  /\ UNCHANGED <<hooked, start, stop, last>>

ShutdownBegin ==
  /\ stop = "idle" /\ life.at = "running"
  /\ life' = Lifecycle("stopping", 0)
  /\ stop' = "kill"
  /\ UNCHANGED <<proc, attached, hooked, lost, handler, start, last>>

ShutdownKill ==
  /\ stop = "kill"
  /\ KillAndDisown
  /\ stop' = "reset"
  /\ UNCHANGED <<hooked, start, last>>

ShutdownReset ==
  /\ stop = "reset"
  /\ life' = Stopped
  /\ stop' = "idle"
  /\ UNCHANGED <<proc, attached, hooked, lost, handler, start, last>>

Next ==
  \/ \E p \in Starters :
       \/ StartBegin(p) \/ Spawn(p) \/ AttachClient(p) \/ NameGeneration(p) \/ RegisterCleanup(p)
       \/ SetDisconnectHandler(p) \/ StartEnd(p)
       \/ FailedCleanup(p) \/ FailedKill(p) \/ FailedReset(p)
  \/ Disconnect \/ \E g \in Gens : HandlerCleanup(g) \/ HandlerDisown(g) \/ HandlerKill(g)
  \/ ShutdownBegin \/ ShutdownKill \/ ShutdownReset

Spec == Init /\ [][Next]_vars

Resting == /\ \A p \in Starters : At(p, "idle")
           /\ stop = "idle"
           /\ \A g \in Gens : handler[g] \in {"unset", "set", "done"}

\* When no start, shutdown or disconnect callback is under way, a stopped profile has no
\* process and no generation in the bridge, and a running one has its own and no other
\* (start, stop_failed_start, shutdown, cleanup_profile_generation).
StoppedMeansStopped ==
  Resting => /\ life.at \in {"stopped", "running"}
             /\ attached = IF life.at = "running" THEN {life.gen} ELSE {}
             /\ proc = life.gen
=============================================================================
