--------------------------- MODULE AgentRegistry ---------------------------
(***************************************************************************)
(* The registry of live agents (src/src/agent.rs, AgentRegistry): setup of *)
(* an agent for a session, its disposal, and the disposal of everything.   *)
(*                                                                         *)
(* A setup call is two processes.  The caller reserves the session, spawns *)
(* the setup task and waits for its answer; the task restores the session, *)
(* builds the runtime and offers it to the caller, who may meanwhile have  *)
(* dropped its future.  A call names everything it creates: its            *)
(* reservation, its task, its runtime and, once accepted, its agent.       *)
(*                                                                         *)
(* The registry's maps are guarded by one mutex that is never held across  *)
(* an await, so each stretch of code between two awaits is an action.      *)
(***************************************************************************)
EXTENDS Integers

CONSTANTS
  Sessions,
  Calls,         \* setup calls (create, resume, create_or_resume), one use each
  NoCall,
  SessionOf,     \* the session each call is for
  MaxGeneration  \* the last generation before the counter wraps to 1

ASSUME RegistryAssumption ==
  /\ NoCall \notin Calls
  /\ SessionOf \in [Calls -> Sessions]
  /\ MaxGeneration \in Nat \ {0}

\* The instance of SessionOf that is model-checked: all calls compete for one session.
OneSession == [c \in Calls |-> CHOOSE s \in Sessions : TRUE]

VARIABLES
  factory,   \* the generation of the registered factory, 0 when there is none
  nextGen,   \* RegistryState.next_generation
  starting,  \* RegistryState.starting: the call that reserved a session
  live,      \* RegistryState.live: the call whose agent serves a session
  gen,       \* the generation of a call's agent
  token,     \* whether a call's setup cancellation fired
  caller,    \* where the caller of a setup is
  task,      \* where its setup task is
  reply,     \* what the task has answered
  runtime,   \* the runtime the task built
  cleaned,   \* AgentState.cleanup_complete
  disposer,  \* who holds an agent's dispose_gate
  stage,     \* how far that dispose() is
  disposal,  \* RegistryState.disposal and the progress of run_disposal
  awaited,   \* the setups or agents run_disposal still waits for
  failed     \* whether an agent's disposal failed under run_disposal

setupVars == <<token, caller, task, reply>>
agentVars == <<runtime, cleaned, disposer, stage>>
disposalVars == <<disposal, awaited, failed>>
vars == <<factory, nextGen, starting, live, gen, setupVars, agentVars, disposalVars>>

Init ==
  /\ factory = 0 /\ nextGen = 0
  /\ starting = [s \in Sessions |-> NoCall] /\ live = [s \in Sessions |-> NoCall]
  /\ gen = [c \in Calls |-> 0] /\ token = [c \in Calls |-> FALSE]
  /\ caller = [c \in Calls |-> "new"] /\ task = [c \in Calls |-> "none"]
  /\ reply = [c \in Calls |-> "none"]
  /\ runtime = [c \in Calls |-> "none"] /\ cleaned = [c \in Calls |-> FALSE]
  /\ disposer = [c \in Calls |-> "none"] /\ stage = [c \in Calls |-> "idle"]
  /\ disposal = "none" /\ awaited = {} /\ failed = FALSE

\* Mutant: the counter does not wrap.
NextGenerationUnbounded == nextGen + 1

\* next_generation: checked_add(1).unwrap_or(1)
NextGeneration == IF nextGen = MaxGeneration THEN 1 ELSE nextGen + 1

-----------------------------------------------------------------------------
(* The factory registration *)

RegisterFactory ==
  /\ factory = 0
  /\ nextGen' = NextGeneration /\ factory' = NextGeneration
  /\ UNCHANGED <<starting, live, gen, setupVars, agentVars, disposalVars>>

\* A registration is closed once, and while it is open its factory is the one
\* registered.
CloseFactory ==
  /\ factory # 0
  /\ factory' = 0
  /\ UNCHANGED <<nextGen, starting, live, gen, setupVars, agentVars, disposalVars>>

-----------------------------------------------------------------------------
(* The caller of a setup *)

\* Mutant: a setup in progress does not exclude another one.
CanReserveStarting(c) ==
  ~token[c] /\ disposal = "none" /\ factory # 0 /\ live[SessionOf[c]] = NoCall

CanReserve(c) ==
  /\ ~token[c] /\ disposal = "none" /\ factory # 0
  /\ live[SessionOf[c]] = NoCall /\ starting[SessionOf[c]] = NoCall

\* reserve and the spawn of the setup task; refused, the call returns at once.
Reserve(c) ==
  /\ caller[c] = "new"
  /\ IF CanReserve(c)
     THEN /\ starting' = [starting EXCEPT ![SessionOf[c]] = c]
          /\ caller' = [caller EXCEPT ![c] = "waiting"]
          /\ task' = [task EXCEPT ![c] = "session"]
     ELSE /\ caller' = [caller EXCEPT ![c] = "failed"]
          /\ UNCHANGED <<starting, task>>
  /\ UNCHANGED <<factory, nextGen, live, gen, token, reply, agentVars, disposalVars>>

CancelSetup(c) ==
  /\ ~token[c]
  /\ token' = [token EXCEPT ![c] = TRUE]
  /\ UNCHANGED <<factory, nextGen, starting, live, gen, caller, task, reply, agentVars, disposalVars>>

CallerReceive(c) ==
  /\ caller[c] = "waiting" /\ reply[c] # "none"
  /\ caller' = [caller EXCEPT ![c] = IF reply[c] = "ready" THEN "accepting" ELSE "joining"]
  /\ UNCHANGED <<factory, nextGen, starting, live, gen, token, task, reply, agentVars, disposalVars>>

\* accept_setup: the agent becomes live in the same critical section that
\* checks that the setup was not cancelled and still holds its reservation.
CanAccept(c) ==
  /\ ~token[c] /\ disposal = "none"
  /\ starting[SessionOf[c]] = c /\ live[SessionOf[c]] = NoCall

Accept(c) ==
  /\ caller[c] = "accepting"
  /\ IF CanAccept(c)
     THEN /\ live' = [live EXCEPT ![SessionOf[c]] = c]
          /\ starting' = [starting EXCEPT ![SessionOf[c]] = NoCall]
          /\ nextGen' = NextGeneration
          /\ gen' = [gen EXCEPT ![c] = NextGeneration]
          /\ caller' = [caller EXCEPT ![c] = "owner"]
     ELSE /\ caller' = [caller EXCEPT ![c] = "joining"]
          /\ UNCHANGED <<live, starting, nextGen, gen>>
  /\ UNCHANGED <<factory, token, task, reply, agentVars, disposalVars>>

\* Mutant: the error is returned while the setup task still runs.
CallerFailEarly(c) ==
  /\ caller[c] = "joining"
  /\ caller' = [caller EXCEPT ![c] = "failed"]
  /\ UNCHANGED <<factory, nextGen, starting, live, gen, token, task, reply, agentVars, disposalVars>>

\* A failed setup returns its error only once its task is done.
CallerFail(c) ==
  /\ caller[c] = "joining" /\ task[c] = "done"
  /\ caller' = [caller EXCEPT ![c] = "failed"]
  /\ UNCHANGED <<factory, nextGen, starting, live, gen, token, task, reply, agentVars, disposalVars>>

\* The future of the setup call is dropped at one of its awaits.
CallerDrop(c) ==
  /\ caller[c] \in {"waiting", "accepting", "joining"}
  /\ caller' = [caller EXCEPT ![c] = "gone"]
  /\ UNCHANGED <<factory, nextGen, starting, live, gen, token, task, reply, agentVars, disposalVars>>

-----------------------------------------------------------------------------
(* The setup task: run_setup, and the drop of the reservation after it *)

TaskGoes(c, pc) == task' = [task EXCEPT ![c] = pc]
Answer(c, r) == reply' = [reply EXCEPT ![c] = r]

SessionReady(c) ==
  /\ task[c] = "session" /\ ~token[c]
  /\ TaskGoes(c, "factory")
  /\ UNCHANGED <<factory, nextGen, starting, live, gen, token, caller, reply, agentVars, disposalVars>>

\* The session cannot be created or restored, or the setup was cancelled.
SessionFailed(c) ==
  /\ task[c] = "session"
  /\ TaskGoes(c, "ending") /\ Answer(c, "error")
  /\ UNCHANGED <<factory, nextGen, starting, live, gen, token, caller, agentVars, disposalVars>>

\* The factory returns a runtime.  It is offered to the caller, or disposed of
\* when the setup was cancelled or the caller is gone.
FactoryReady(c) ==
  /\ task[c] = "factory"
  /\ runtime' = [runtime EXCEPT ![c] = "alive"]
  /\ IF ~token[c] /\ caller[c] = "waiting"
     THEN TaskGoes(c, "offered") /\ Answer(c, "ready")
     ELSE TaskGoes(c, "abandon") /\ UNCHANGED reply
  /\ UNCHANGED <<factory, nextGen, starting, live, gen, token, caller, cleaned, disposer, stage, disposalVars>>

FactoryFailed(c) ==
  /\ task[c] = "factory"
  /\ TaskGoes(c, "ending") /\ Answer(c, "error")
  /\ UNCHANGED <<factory, nextGen, starting, live, gen, token, caller, agentVars, disposalVars>>

\* The offer is settled: accepted, or dropped with the caller's answer.
OfferSettled(c) ==
  /\ task[c] = "offered" /\ caller[c] \in {"owner", "joining", "gone"}
  /\ TaskGoes(c, IF caller[c] = "owner" THEN "ending" ELSE "abandon")
  /\ UNCHANGED <<factory, nextGen, starting, live, gen, token, caller, reply, agentVars, disposalVars>>

\* Mutant: the caller of a cancelled setup gets no answer.
AbandonedSilently(c) ==
  /\ task[c] = "abandon"
  /\ runtime' = [runtime EXCEPT ![c] = "disposed"]
  /\ TaskGoes(c, "ending")
  /\ UNCHANGED <<factory, nextGen, starting, live, gen, token, caller, reply, cleaned, disposer, stage, disposalVars>>

\* dispose_abandoned_runtime retries until the runtime's dispose succeeds; a
\* failed attempt changes nothing here.
AbandonedDisposed(c) ==
  /\ task[c] = "abandon"
  /\ runtime' = [runtime EXCEPT ![c] = "disposed"]
  /\ TaskGoes(c, "ending")
  /\ IF reply[c] = "none" THEN Answer(c, "error") ELSE UNCHANGED reply
  /\ UNCHANGED <<factory, nextGen, starting, live, gen, token, caller, cleaned, disposer, stage, disposalVars>>

\* Mutant: the reservation is kept.
TaskEndReserved(c) ==
  /\ task[c] = "ending"
  /\ TaskGoes(c, "done")
  /\ UNCHANGED <<factory, nextGen, starting, live, gen, token, caller, reply, agentVars, disposalVars>>

\* Drop for SetupReservation: the reservation is returned if it is still this
\* call's, and the setup is complete.
TaskEnd(c) ==
  /\ task[c] = "ending"
  /\ TaskGoes(c, "done")
  /\ starting' = IF starting[SessionOf[c]] = c
                 THEN [starting EXCEPT ![SessionOf[c]] = NoCall]
                 ELSE starting
  /\ UNCHANGED <<factory, nextGen, live, gen, token, caller, reply, agentVars, disposalVars>>

-----------------------------------------------------------------------------
(* AgentInner::dispose, called on a handle or by run_disposal *)

\* Mutant: the registry keeps waiting for an agent whose disposal failed.
ReturnIfDisposed(c, ok) ==
  /\ stage' = [stage EXCEPT ![c] = "idle"] /\ disposer' = [disposer EXCEPT ![c] = "none"]
  /\ IF disposer[c] = "registry" /\ ok
     THEN awaited' = awaited \ {c} /\ UNCHANGED failed
     ELSE UNCHANGED <<awaited, failed>>

\* The dispose call of the gate's holder returns.
Return(c, ok) ==
  /\ stage' = [stage EXCEPT ![c] = "idle"] /\ disposer' = [disposer EXCEPT ![c] = "none"]
  /\ IF disposer[c] = "registry"
     THEN awaited' = awaited \ {c} /\ failed' = (failed \/ ~ok)
     ELSE UNCHANGED <<awaited, failed>>

DisposeBegin(c, by) ==
  /\ caller[c] = "owner" /\ stage[c] = "idle"
  /\ by = "registry" => disposal = "agents" /\ c \in awaited
  /\ stage' = [stage EXCEPT ![c] = "wait"] /\ disposer' = [disposer EXCEPT ![c] = by]
  /\ UNCHANGED <<factory, nextGen, starting, live, gen, setupVars, runtime, cleaned, disposalVars>>

\* Once the setup is complete: nothing to do after an earlier successful
\* disposal, otherwise the agent is marked disposed and its runtime told.
DisposeMark(c) ==
  /\ stage[c] = "wait" /\ task[c] = "done"
  /\ IF cleaned[c]
     THEN Return(c, TRUE)
     ELSE stage' = [stage EXCEPT ![c] = "stop"] /\ UNCHANGED <<disposer, awaited, failed>>
  /\ UNCHANGED <<factory, nextGen, starting, live, gen, setupVars, runtime, cleaned, disposal>>

DisposeStopped(c) ==
  /\ stage[c] = "stop"
  /\ runtime' = [runtime EXCEPT ![c] = "disposed"]
  /\ cleaned' = [cleaned EXCEPT ![c] = TRUE]
  /\ stage' = [stage EXCEPT ![c] = "remove"]
  /\ UNCHANGED <<factory, nextGen, starting, live, gen, setupVars, disposer, disposalVars>>

\* Mutant: an agent whose disposal failed leaves the registry.
DisposeFailedRemoves(c) ==
  /\ stage[c] = "stop"
  /\ Return(c, FALSE)
  /\ live' = [live EXCEPT ![SessionOf[c]] = NoCall]
  /\ UNCHANGED <<factory, nextGen, starting, gen, setupVars, runtime, cleaned, disposal>>

DisposeFailed(c) ==
  /\ stage[c] = "stop"
  /\ Return(c, FALSE)
  /\ UNCHANGED <<factory, nextGen, starting, live, gen, setupVars, runtime, cleaned, disposal>>

\* The future of a handle's dispose is dropped at one of its awaits.
DisposeDropped(c) ==
  /\ disposer[c] = "handle" /\ stage[c] \in {"wait", "stop"}
  /\ Return(c, FALSE)
  /\ UNCHANGED <<factory, nextGen, starting, live, gen, setupVars, runtime, cleaned, disposal>>

\* remove_from_registry takes the session's entry out if its generation is
\* this agent's.
DisposeRemove(c) ==
  LET s == SessionOf[c]
  IN /\ stage[c] = "remove"
     /\ live' = IF live[s] # NoCall /\ gen[live[s]] = gen[c]
                THEN [live EXCEPT ![s] = NoCall]
                ELSE live
     /\ Return(c, TRUE)
     /\ UNCHANGED <<factory, nextGen, starting, gen, setupVars, runtime, cleaned, disposal>>

-----------------------------------------------------------------------------
(* dispose_all; a second call joins the disposal in progress *)

InUse(m) == {c \in Calls : m[SessionOf[c]] = c}

DisposeAll ==
  /\ disposal = "none"
  /\ disposal' = "start" /\ failed' = FALSE
  /\ UNCHANGED <<factory, nextGen, starting, live, gen, setupVars, agentVars, awaited>>

\* run_disposal cancels the setups in progress and waits for them and for the
\* setup tasks of the live agents ...
DisposalSnapshot ==
  /\ disposal = "start"
  /\ disposal' = "setups"
  /\ token' = [c \in Calls |-> token[c] \/ c \in InUse(starting)]
  /\ awaited' = InUse(starting) \cup InUse(live)
  /\ UNCHANGED <<factory, nextGen, starting, live, gen, caller, task, reply, agentVars, failed>>

\* Mutant: run_disposal does not wait for the setups.
DisposalAgentsAtOnce ==
  /\ disposal = "setups"
  /\ disposal' = "agents" /\ awaited' = InUse(live)
  /\ UNCHANGED <<factory, nextGen, starting, live, gen, setupVars, agentVars, failed>>

\* ... then disposes the agents live by then ...
DisposalAgents ==
  /\ disposal = "setups" /\ \A c \in awaited : task[c] = "done"
  /\ disposal' = "agents" /\ awaited' = InUse(live)
  /\ UNCHANGED <<factory, nextGen, starting, live, gen, setupVars, agentVars, failed>>

\* ... and reopens the registry when every one of them has returned.
DisposalFinish ==
  /\ disposal = "agents" /\ awaited = {}
  /\ disposal' = "none"
  /\ UNCHANGED <<factory, nextGen, starting, live, gen, setupVars, agentVars, awaited, failed>>

-----------------------------------------------------------------------------
CallerNext(c) ==
  \/ Reserve(c) \/ CancelSetup(c) \/ CallerDrop(c)
  \/ CallerReceive(c) \/ Accept(c) \/ CallerFail(c)

TaskNext(c) ==
  \/ SessionReady(c) \/ SessionFailed(c)
  \/ FactoryReady(c) \/ FactoryFailed(c)
  \/ OfferSettled(c) \/ AbandonedDisposed(c) \/ TaskEnd(c)

DisposeNext(c) ==
  \/ DisposeMark(c) \/ DisposeStopped(c) \/ DisposeFailed(c)
  \/ DisposeDropped(c) \/ DisposeRemove(c)

DisposalNext == DisposalSnapshot \/ DisposalAgents \/ DisposalFinish

Next ==
  \/ RegisterFactory \/ CloseFactory
  \/ \E c \in Calls :
       \/ CallerNext(c) \/ TaskNext(c) \/ DisposeNext(c)
       \/ \E by \in {"handle", "registry"} : DisposeBegin(c, by)
  \/ DisposeAll \/ DisposalNext

Spec == Init /\ [][Next]_vars

\* Spawned tasks and awaited futures are polled until they finish, and a
\* runtime's own dispose answers.  The registry's dispose calls queue for the
\* fair dispose_gate of an agent, which handles may take again and again, so
\* they need strong fairness.  Nobody is obliged to call anything, or to drop it.
Fairness ==
  /\ \A c \in Calls :
       /\ WF_vars(CallerReceive(c) \/ Accept(c) \/ CallerFail(c))
       /\ WF_vars(TaskNext(c))
       /\ WF_vars(DisposeMark(c) \/ DisposeStopped(c) \/ DisposeFailed(c) \/ DisposeRemove(c))
       /\ SF_vars(DisposeBegin(c, "registry"))
  /\ WF_vars(DisposalNext)

FairSpec == Spec /\ Fairness

-----------------------------------------------------------------------------
(* Properties *)

\* The maps of RegistryState and the progress of every call are well formed;
\* in particular the generation counter wraps instead of overflowing.
TypeOK ==
  /\ factory \in 0..MaxGeneration /\ nextGen \in 0..MaxGeneration
  /\ starting \in [Sessions -> Calls \cup {NoCall}]
  /\ live \in [Sessions -> Calls \cup {NoCall}]
  /\ gen \in [Calls -> 0..MaxGeneration] /\ token \in [Calls -> BOOLEAN]
  /\ caller \in [Calls -> {"new", "waiting", "accepting", "joining", "owner", "failed", "gone"}]
  /\ task \in [Calls -> {"none", "session", "factory", "offered", "abandon", "ending", "done"}]
  /\ reply \in [Calls -> {"none", "ready", "error"}]
  /\ runtime \in [Calls -> {"none", "alive", "disposed"}]
  /\ cleaned \in [Calls -> BOOLEAN]
  /\ disposer \in [Calls -> {"none", "handle", "registry"}]
  /\ stage \in [Calls -> {"idle", "wait", "stop", "remove"}]
  /\ disposal \in {"none", "start", "setups", "agents"}
  /\ awaited \subseteq Calls /\ failed \in BOOLEAN

\* A session never has two runtimes alive at once, whatever the setups,
\* cancellations, dropped calls, disposals and failed disposals before: two
\* drivers would execute the same queue and interleave their turns in one log.
OneRuntimePerSession ==
  \A c, d \in Calls :
    SessionOf[c] = SessionOf[d] /\ runtime[c] = "alive" /\ runtime[d] = "alive" => c = d

\* A setup call that returned an error has left nothing behind: no runtime, no
\* reservation and no live agent, so that the caller may try again at once.
FailureLeavesNothing ==
  \A c \in Calls : caller[c] = "failed" =>
    /\ runtime[c] # "alive"
    /\ starting[SessionOf[c]] # c /\ live[SessionOf[c]] # c

\* An agent that was handed out stays registered under its session, with its
\* runtime, until its own disposal has succeeded: no failed or dropped
\* disposal, no later setup and no older generation takes it out.
OwnedIsLive ==
  \A c \in Calls : caller[c] = "owner" /\ ~cleaned[c] =>
    live[SessionOf[c]] = c /\ runtime[c] = "alive"

\* When dispose_all is about to report success, no agent is live, no setup is
\* in progress and no runtime is alive, although calls raced with it.
DisposalDrains ==
  disposal = "agents" /\ awaited = {} /\ ~failed =>
    /\ \A s \in Sessions : live[s] = NoCall /\ starting[s] = NoCall
    /\ \A c \in Calls : runtime[c] # "alive"

\* Every setup call returns to its caller.
SetupReturns ==
  \A c \in Calls :
    caller[c] \in {"waiting", "accepting", "joining"} ~> caller[c] \in {"owner", "failed", "gone"}

\* The runtime of a setup whose caller went away is disposed of, and the
\* session becomes free for another setup.
AbandonedIsReleased ==
  \A c \in Calls :
    caller[c] = "gone" ~> (runtime[c] # "alive" /\ starting[SessionOf[c]] # c)

\* dispose_all finishes, and the registry accepts setups again.
DisposalTerminates == disposal # "none" ~> disposal = "none"
=============================================================================
