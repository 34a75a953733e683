------------------------ MODULE AgentRegistryProofs ------------------------
(***************************************************************************)
(* Proofs that the agent registry keeps its safety properties for any      *)
(* sessions, any setup calls and any generation bound.                     *)
(***************************************************************************)
EXTENDS AgentRegistry, TLAPS

\* Time, and further attempts, for a leaf on a loaded machine.
USE SMTT(30), ZenonT(30), SMTT(40), SMTT(50), SMTT(60)

Active == {"session", "factory", "offered", "abandon", "ending"}

\* A session's reservation belongs to the one setup in progress for it: the
\* setup's task holds it until it ends or its caller becomes the owner.
Reservations ==
  /\ \A c \in Calls : task[c] \in Active /\ caller[c] # "owner" => starting[SessionOf[c]] = c
  /\ \A s \in Sessions : starting[s] # NoCall =>
       /\ SessionOf[starting[s]] = s
       /\ task[starting[s]] \in Active /\ caller[starting[s]] # "owner"

\* The live map has exactly the agents handed out and not yet cleaned up,
\* except that a cleaned one is still there until its disposer removes it.
LiveAgents ==
  /\ \A s \in Sessions : live[s] # NoCall =>
       /\ SessionOf[live[s]] = s /\ caller[live[s]] = "owner"
       /\ cleaned[live[s]] => stage[live[s]] = "remove"
  /\ \A c \in Calls : caller[c] = "owner" /\ (~cleaned[c] \/ stage[c] = "remove") =>
       live[SessionOf[c]] = c

\* A session is reserved or served, never both.
Exclusion == \A s \in Sessions : starting[s] = NoCall \/ live[s] = NoCall

\* How far the caller, the task, the runtime and the disposal of one call may
\* have got relative to each other.
PhaseOf(c) ==
  /\ caller[c] = "new" => task[c] = "none"
  /\ task[c] = "none" => caller[c] \in {"new", "failed"}
  /\ task[c] \in {"none", "session", "factory"} => reply[c] = "none"
  /\ caller[c] = "failed" => task[c] \in {"none", "done"}
  /\ caller[c] = "waiting" /\ reply[c] = "ready" => task[c] = "offered"
  /\ caller[c] = "accepting" => task[c] = "offered"
  /\ caller[c] = "owner" => task[c] \in {"offered", "ending", "done"}
  /\ task[c] = "offered" => runtime[c] = "alive" /\ reply[c] = "ready"
  /\ runtime[c] = "alive" => task[c] \in {"offered", "abandon"} \/ (caller[c] = "owner" /\ ~cleaned[c])
  /\ caller[c] = "owner" /\ ~cleaned[c] => runtime[c] = "alive"
  /\ cleaned[c] => caller[c] = "owner" /\ task[c] = "done"
  /\ stage[c] # "idle" => caller[c] = "owner"
  /\ stage[c] \in {"stop", "remove"} => task[c] = "done"
  /\ stage[c] = "stop" => ~cleaned[c]
  /\ stage[c] = "remove" => cleaned[c]

Phases == \A c \in Calls : PhaseOf(c)

\* While the registry is disposed of, every setup it has not yet waited for
\* and every agent it has not yet disposed of is among those it awaits.
Draining ==
  /\ disposal = "setups" => \A s \in Sessions : starting[s] # NoCall => starting[s] \in awaited
  /\ disposal = "agents" =>
       \A s \in Sessions : /\ starting[s] = NoCall
                           /\ live[s] # NoCall => live[s] \in awaited \/ failed
  /\ \A c \in Calls : disposer[c] = "registry" => disposal = "agents" /\ c \in awaited

\* The inductive invariant.
IInv == TypeOK /\ Reservations /\ LiveAgents /\ Exclusion /\ Phases /\ Draining

\* A step of a setup's caller (reserve, accept_setup, a dropped or cancelled
\* call) keeps the invariant.
LEMMA CallerStep == ASSUME IInv, NEW c \in Calls, CallerNext(c) PROVE IInv'
<1> USE DEF IInv
<1>1. CASE Reserve(c)
  <2> USE <1>1
  <2>1. TypeOK'
    BY DEF TypeOK, Reserve, agentVars, disposalVars
  <2>2. Reservations'
    BY RegistryAssumption DEF Reservations, TypeOK, Active, Reserve, CanReserve
  <2>3. LiveAgents'
    BY DEF LiveAgents, TypeOK, Reserve, agentVars
  <2>4. Exclusion'
    BY DEF Exclusion, TypeOK, Reserve, CanReserve
  <2>5. Phases'
    <3> SUFFICES ASSUME NEW d \in Calls PROVE PhaseOf(d)'
      BY DEF Phases
    <3>1. CASE d = c
      BY <3>1 DEF Phases, PhaseOf, TypeOK, Reserve, agentVars
    <3>2. CASE d # c
      BY <3>2 DEF Phases, PhaseOf, TypeOK, Reserve, agentVars
    <3> QED BY <3>1, <3>2
  <2>6. Draining'
    BY DEF Draining, Reserve, CanReserve, agentVars, disposalVars
  <2> QED BY <2>1, <2>2, <2>3, <2>4, <2>5, <2>6 DEF IInv
<1>2. CASE CancelSetup(c)
  <2> USE <1>2
  <2>1. TypeOK'
    BY DEF TypeOK, CancelSetup, agentVars, disposalVars
  <2>2. Reservations'
    BY DEF Reservations, CancelSetup
  <2>3. LiveAgents'
    BY DEF LiveAgents, CancelSetup, agentVars
  <2>4. Exclusion'
    BY DEF Exclusion, CancelSetup
  <2>5. Phases'
    BY DEF Phases, PhaseOf, CancelSetup, agentVars
  <2>6. Draining'
    BY DEF Draining, CancelSetup, agentVars, disposalVars
  <2> QED BY <2>1, <2>2, <2>3, <2>4, <2>5, <2>6 DEF IInv
<1>3. CASE CallerReceive(c)
  <2> USE <1>3
  <2>1. TypeOK'
    BY DEF TypeOK, CallerReceive, agentVars, disposalVars
  <2>2. Reservations'
    BY DEF Reservations, CallerReceive
  <2>3. LiveAgents'
    BY DEF LiveAgents, CallerReceive, agentVars
  <2>4. Exclusion'
    BY DEF Exclusion, CallerReceive
  <2>5. Phases'
    BY DEF Phases, PhaseOf, CallerReceive, agentVars
  <2>6. Draining'
    BY DEF Draining, CallerReceive, agentVars, disposalVars
  <2> QED BY <2>1, <2>2, <2>3, <2>4, <2>5, <2>6 DEF IInv
<1>4. CASE Accept(c)
  <2> USE <1>4
  <2>1. TypeOK'
    BY RegistryAssumption DEF TypeOK, Accept, NextGeneration, agentVars, disposalVars
  <2>2. Reservations'
    BY RegistryAssumption DEF Reservations, TypeOK, Phases, PhaseOf, Active, Accept
  <2>3. LiveAgents'
    BY RegistryAssumption DEF LiveAgents, TypeOK, Reservations, Exclusion, Phases, PhaseOf, Active, Accept, NextGeneration, agentVars
  <2>4. Exclusion'
    BY DEF Exclusion, TypeOK, Accept
  <2>5. Phases'
    BY DEF Phases, PhaseOf, TypeOK, Accept, agentVars
  <2>6. Draining'
    BY DEF Draining, TypeOK, Reservations, Phases, PhaseOf, Active, Accept, agentVars, disposalVars
  <2> QED BY <2>1, <2>2, <2>3, <2>4, <2>5, <2>6 DEF IInv
<1>5. CASE CallerFail(c)
  <2> USE <1>5
  <2>1. TypeOK'
    BY DEF TypeOK, CallerFail, agentVars, disposalVars
  <2>2. Reservations'
    BY DEF Reservations, CallerFail
  <2>3. LiveAgents'
    BY DEF LiveAgents, CallerFail, agentVars
  <2>4. Exclusion'
    BY DEF Exclusion, CallerFail
  <2>5. Phases'
    BY DEF Phases, PhaseOf, CallerFail, agentVars
  <2>6. Draining'
    BY DEF Draining, CallerFail, agentVars, disposalVars
  <2> QED BY <2>1, <2>2, <2>3, <2>4, <2>5, <2>6 DEF IInv
<1>6. CASE CallerDrop(c)
  <2> USE <1>6
  <2>1. TypeOK'
    BY DEF TypeOK, CallerDrop, agentVars, disposalVars
  <2>2. Reservations'
    BY DEF Reservations, CallerDrop
  <2>3. LiveAgents'
    BY DEF LiveAgents, CallerDrop, agentVars
  <2>4. Exclusion'
    BY DEF Exclusion, CallerDrop
  <2>5. Phases'
    BY DEF Phases, PhaseOf, CallerDrop, agentVars
  <2>6. Draining'
    BY DEF Draining, CallerDrop, agentVars, disposalVars
  <2> QED BY <2>1, <2>2, <2>3, <2>4, <2>5, <2>6 DEF IInv
<1> QED BY <1>1, <1>2, <1>3, <1>4, <1>5, <1>6 DEF CallerNext

\* A step of the setup task (run_setup and the end of its reservation) keeps
\* the invariant.
LEMMA TaskStep == ASSUME IInv, NEW c \in Calls, TaskNext(c) PROVE IInv'
<1> USE DEF IInv
<1>1. CASE SessionReady(c)
  <2> USE <1>1
  <2>1. TypeOK'
    BY DEF TypeOK, SessionReady, TaskGoes, agentVars, disposalVars
  <2>2. Reservations'
    BY DEF Reservations, Active, SessionReady, TaskGoes
  <2>3. LiveAgents'
    BY DEF LiveAgents, SessionReady, agentVars
  <2>4. Exclusion'
    BY DEF Exclusion, SessionReady
  <2>5. Phases'
    BY DEF Phases, PhaseOf, SessionReady, TaskGoes, agentVars
  <2>6. Draining'
    BY DEF Draining, SessionReady, agentVars, disposalVars
  <2> QED BY <2>1, <2>2, <2>3, <2>4, <2>5, <2>6 DEF IInv
<1>2. CASE SessionFailed(c)
  <2> USE <1>2
  <2>1. TypeOK'
    BY DEF TypeOK, SessionFailed, TaskGoes, Answer, agentVars, disposalVars
  <2>2. Reservations'
    BY DEF Reservations, Active, SessionFailed, TaskGoes
  <2>3. LiveAgents'
    BY DEF LiveAgents, SessionFailed, agentVars
  <2>4. Exclusion'
    BY DEF Exclusion, SessionFailed
  <2>5. Phases'
    BY DEF Phases, PhaseOf, TypeOK, SessionFailed, TaskGoes, Answer, agentVars
  <2>6. Draining'
    BY DEF Draining, SessionFailed, agentVars, disposalVars
  <2> QED BY <2>1, <2>2, <2>3, <2>4, <2>5, <2>6 DEF IInv
<1>3. CASE FactoryReady(c)
  <2> USE <1>3
  <2>1. TypeOK'
    BY DEF TypeOK, FactoryReady, TaskGoes, Answer, disposalVars
  <2>2. Reservations'
    BY DEF Reservations, TypeOK, Active, FactoryReady, TaskGoes
  <2>3. LiveAgents'
    BY DEF LiveAgents, FactoryReady
  <2>4. Exclusion'
    BY DEF Exclusion, FactoryReady
  <2>5. Phases'
    BY DEF Phases, PhaseOf, TypeOK, FactoryReady, TaskGoes, Answer
  <2>6. Draining'
    BY DEF Draining, FactoryReady, disposalVars
  <2> QED BY <2>1, <2>2, <2>3, <2>4, <2>5, <2>6 DEF IInv
<1>4. CASE FactoryFailed(c)
  <2> USE <1>4
  <2>1. TypeOK'
    BY DEF TypeOK, FactoryFailed, TaskGoes, Answer, agentVars, disposalVars
  <2>2. Reservations'
    BY DEF Reservations, Active, FactoryFailed, TaskGoes
  <2>3. LiveAgents'
    BY DEF LiveAgents, FactoryFailed, agentVars
  <2>4. Exclusion'
    BY DEF Exclusion, FactoryFailed
  <2>5. Phases'
    BY DEF Phases, PhaseOf, TypeOK, FactoryFailed, TaskGoes, Answer, agentVars
  <2>6. Draining'
    BY DEF Draining, FactoryFailed, agentVars, disposalVars
  <2> QED BY <2>1, <2>2, <2>3, <2>4, <2>5, <2>6 DEF IInv
<1>5. CASE OfferSettled(c)
  <2> USE <1>5
  <2>1. TypeOK'
    BY DEF TypeOK, OfferSettled, TaskGoes, agentVars, disposalVars
  <2>2. Reservations'
    BY DEF Reservations, Active, OfferSettled, TaskGoes
  <2>3. LiveAgents'
    BY DEF LiveAgents, OfferSettled, agentVars
  <2>4. Exclusion'
    BY DEF Exclusion, OfferSettled
  <2>5. Phases'
    BY DEF Phases, PhaseOf, OfferSettled, TaskGoes, agentVars
  <2>6. Draining'
    BY DEF Draining, OfferSettled, agentVars, disposalVars
  <2> QED BY <2>1, <2>2, <2>3, <2>4, <2>5, <2>6 DEF IInv
<1>6. CASE AbandonedDisposed(c)
  <2> USE <1>6
  <2>1. TypeOK'
    BY DEF TypeOK, AbandonedDisposed, TaskGoes, Answer, disposalVars
  <2>2. Reservations'
    BY DEF Reservations, Active, AbandonedDisposed, TaskGoes
  <2>3. LiveAgents'
    BY DEF LiveAgents, AbandonedDisposed
  <2>4. Exclusion'
    BY DEF Exclusion, AbandonedDisposed
  <2>5. Phases'
    BY DEF Phases, PhaseOf, TypeOK, AbandonedDisposed, TaskGoes, Answer
  <2>6. Draining'
    BY DEF Draining, AbandonedDisposed, disposalVars
  <2> QED BY <2>1, <2>2, <2>3, <2>4, <2>5, <2>6 DEF IInv
<1>7. CASE TaskEnd(c)
  <2> USE <1>7
  <2>1. TypeOK'
    BY ZenonT(30) DEF TypeOK, TaskEnd, TaskGoes, agentVars, disposalVars
  <2>2. Reservations'
    BY DEF Reservations, TypeOK, Active, TaskEnd, TaskGoes
  <2>3. LiveAgents'
    BY DEF LiveAgents, TaskEnd, agentVars
  <2>4. Exclusion'
    BY DEF Exclusion, TaskEnd
  <2>5. Phases'
    <3> SUFFICES ASSUME NEW d \in Calls PROVE PhaseOf(d)'
      BY DEF Phases
    <3>1. CASE d = c
      BY <3>1 DEF Phases, PhaseOf, TypeOK, TaskEnd, TaskGoes, agentVars
    <3>2. CASE d # c
      BY <3>2 DEF Phases, PhaseOf, TypeOK, TaskEnd, TaskGoes, agentVars
    <3> QED BY <3>1, <3>2
  <2>6. Draining'
    BY RegistryAssumption DEF Draining, TypeOK, TaskEnd, agentVars, disposalVars
  <2> QED BY <2>1, <2>2, <2>3, <2>4, <2>5, <2>6 DEF IInv
<1> QED BY <1>1, <1>2, <1>3, <1>4, <1>5, <1>6, <1>7 DEF TaskNext

\* A step of AgentInner::dispose keeps the invariant, whether it succeeds,
\* fails or is dropped.
LEMMA DisposeStep == ASSUME IInv, NEW c \in Calls, DisposeNext(c) PROVE IInv'
<1> USE DEF IInv
<1>1. CASE DisposeMark(c)
  <2> USE <1>1
  <2>1. TypeOK'
    BY DEF TypeOK, DisposeMark, Return, setupVars
  <2>2. Reservations'
    BY ZenonT(30) DEF Reservations, DisposeMark, setupVars
  <2>3. LiveAgents'
    BY DEF LiveAgents, TypeOK, DisposeMark, Return, setupVars
  <2>4. Exclusion'
    BY DEF Exclusion, DisposeMark
  <2>5. Phases'
    BY DEF Phases, PhaseOf, TypeOK, DisposeMark, Return, setupVars
  <2>6. Draining'
    BY DEF Draining, TypeOK, LiveAgents, DisposeMark, Return
  <2> QED BY <2>1, <2>2, <2>3, <2>4, <2>5, <2>6 DEF IInv
<1>2. CASE DisposeStopped(c)
  <2> USE <1>2
  <2>1. TypeOK'
    BY DEF TypeOK, DisposeStopped, setupVars, disposalVars
  <2>2. Reservations'
    BY DEF Reservations, DisposeStopped, setupVars
  <2>3. LiveAgents'
    BY DEF LiveAgents, TypeOK, Phases, PhaseOf, DisposeStopped, setupVars
  <2>4. Exclusion'
    BY DEF Exclusion, DisposeStopped
  <2>5. Phases'
    BY DEF Phases, PhaseOf, TypeOK, DisposeStopped, setupVars
  <2>6. Draining'
    BY ZenonT(30) DEF Draining, DisposeStopped, disposalVars
  <2> QED BY <2>1, <2>2, <2>3, <2>4, <2>5, <2>6 DEF IInv
<1>3. CASE DisposeFailed(c)
  <2> USE <1>3
  <2>1. TypeOK'
    BY ZenonT(30) DEF TypeOK, DisposeFailed, Return, setupVars
  <2>2. Reservations'
    BY DEF Reservations, DisposeFailed, setupVars
  <2>3. LiveAgents'
    BY DEF LiveAgents, TypeOK, DisposeFailed, Return, setupVars
  <2>4. Exclusion'
    BY DEF Exclusion, DisposeFailed
  <2>5. Phases'
    BY DEF Phases, PhaseOf, TypeOK, DisposeFailed, Return, setupVars
  <2>6. Draining'
    <3>1. CASE disposer[c] = "registry"
      <4>1. failed' = TRUE
        BY <3>1, ZenonT(30) DEF DisposeFailed, Return
      <4>2. awaited' = awaited \ {c} /\ disposer' = [disposer EXCEPT ![c] = "none"]
        BY <3>1 DEF DisposeFailed, Return
      <4> QED BY <3>1, <4>1, <4>2 DEF Draining, TypeOK, DisposeFailed
    <3>2. CASE disposer[c] # "registry"
      BY <3>2 DEF Draining, TypeOK, DisposeFailed, Return
    <3> QED BY <3>1, <3>2
  <2> QED BY <2>1, <2>2, <2>3, <2>4, <2>5, <2>6 DEF IInv
<1>4. CASE DisposeDropped(c)
  <2> USE <1>4
  <2>1. TypeOK'
    BY DEF TypeOK, DisposeDropped, Return, setupVars
  <2>2. Reservations'
    BY DEF Reservations, DisposeDropped, setupVars
  <2>3. LiveAgents'
    BY DEF LiveAgents, TypeOK, DisposeDropped, Return, setupVars
  <2>4. Exclusion'
    BY DEF Exclusion, DisposeDropped
  <2>5. Phases'
    BY DEF Phases, PhaseOf, TypeOK, DisposeDropped, Return, setupVars
  <2>6. Draining'
    BY DEF Draining, TypeOK, DisposeDropped, Return
  <2> QED BY <2>1, <2>2, <2>3, <2>4, <2>5, <2>6 DEF IInv
<1>5. CASE DisposeRemove(c)
  <2> USE <1>5
  <2>1. TypeOK'
    BY ZenonT(30) DEF TypeOK, DisposeRemove, Return, setupVars
  <2>2. Reservations'
    BY ZenonT(30) DEF Reservations, DisposeRemove, setupVars
  <2>3. LiveAgents'
    <3>1. SessionOf[c] \in Sessions /\ c # NoCall
      BY RegistryAssumption
    <3>2. caller[c] = "owner" /\ cleaned[c]
      BY ZenonT(30) DEF Phases, PhaseOf, DisposeRemove
    <3>3. live[SessionOf[c]] = c
      BY <3>2 DEF LiveAgents, DisposeRemove
    <3>4. live' = [live EXCEPT ![SessionOf[c]] = NoCall] /\ stage' = [stage EXCEPT ![c] = "idle"]
      BY <3>1, <3>3, ZenonT(30) DEF DisposeRemove, Return
    <3>5. UNCHANGED <<caller, cleaned>>
      BY DEF DisposeRemove, setupVars
    <3> QED BY <3>1, <3>2, <3>3, <3>4, <3>5 DEF LiveAgents, TypeOK
  <2>4. Exclusion'
    BY DEF Exclusion, TypeOK, DisposeRemove
  <2>5. Phases'
    <3> SUFFICES ASSUME NEW d \in Calls PROVE PhaseOf(d)'
      BY DEF Phases
    <3>1. CASE d = c
      BY <3>1 DEF Phases, PhaseOf, TypeOK, DisposeRemove, Return, setupVars
    <3>2. CASE d # c
      BY <3>2 DEF Phases, PhaseOf, TypeOK, DisposeRemove, Return, setupVars
    <3> QED BY <3>1, <3>2
  <2>6. Draining'
    BY DEF Draining, TypeOK, LiveAgents, DisposeRemove, Return
  <2> QED BY <2>1, <2>2, <2>3, <2>4, <2>5, <2>6 DEF IInv
<1> QED BY <1>1, <1>2, <1>3, <1>4, <1>5 DEF DisposeNext

\* A step of the factory registration, of dispose_all and run_disposal, or the
\* begin of a disposal keeps the invariant.
LEMMA RegistryStep ==
  ASSUME IInv,
         \/ RegisterFactory \/ CloseFactory \/ DisposeAll \/ DisposalNext
         \/ \E c \in Calls, by \in {"handle", "registry"} : DisposeBegin(c, by)
  PROVE  IInv'
<1> USE DEF IInv
<1>1. CASE RegisterFactory
  <2> USE <1>1
  <2>1. TypeOK'
    BY RegistryAssumption DEF TypeOK, RegisterFactory, NextGeneration, setupVars, agentVars, disposalVars
  <2>2. Reservations'
    BY DEF Reservations, RegisterFactory, setupVars
  <2>3. LiveAgents'
    BY DEF LiveAgents, RegisterFactory, setupVars, agentVars
  <2>4. Exclusion'
    BY DEF Exclusion, RegisterFactory
  <2>5. Phases'
    BY DEF Phases, PhaseOf, RegisterFactory, setupVars, agentVars
  <2>6. Draining'
    BY DEF Draining, RegisterFactory, agentVars, disposalVars
  <2> QED BY <2>1, <2>2, <2>3, <2>4, <2>5, <2>6 DEF IInv
<1>2. CASE CloseFactory
  <2> USE <1>2
  <2>1. TypeOK'
    BY RegistryAssumption DEF TypeOK, CloseFactory, setupVars, agentVars, disposalVars
  <2>2. Reservations'
    BY DEF Reservations, CloseFactory, setupVars
  <2>3. LiveAgents'
    BY DEF LiveAgents, CloseFactory, setupVars, agentVars
  <2>4. Exclusion'
    BY DEF Exclusion, CloseFactory
  <2>5. Phases'
    BY ZenonT(30) DEF Phases, PhaseOf, CloseFactory, setupVars, agentVars
  <2>6. Draining'
    BY ZenonT(30) DEF Draining, CloseFactory, agentVars, disposalVars
  <2> QED BY <2>1, <2>2, <2>3, <2>4, <2>5, <2>6 DEF IInv
<1>3. CASE DisposeAll
  <2> USE <1>3
  <2>1. TypeOK'
    BY ZenonT(30) DEF TypeOK, DisposeAll, setupVars, agentVars
  <2>2. Reservations'
    BY DEF Reservations, DisposeAll, setupVars
  <2>3. LiveAgents'
    BY ZenonT(30) DEF LiveAgents, DisposeAll, setupVars, agentVars
  <2>4. Exclusion'
    BY DEF Exclusion, DisposeAll
  <2>5. Phases'
    BY ZenonT(30) DEF Phases, PhaseOf, DisposeAll, setupVars, agentVars
  <2>6. Draining'
    BY ZenonT(30) DEF Draining, DisposeAll, agentVars
  <2> QED BY <2>1, <2>2, <2>3, <2>4, <2>5, <2>6 DEF IInv
<1>4. CASE DisposalSnapshot
  <2> USE <1>4
  <2>1. TypeOK'
    BY DEF TypeOK, DisposalSnapshot, InUse, agentVars
  <2>2. Reservations'
    BY DEF Reservations, DisposalSnapshot
  <2>3. LiveAgents'
    BY ZenonT(30) DEF LiveAgents, DisposalSnapshot, agentVars
  <2>4. Exclusion'
    BY DEF Exclusion, DisposalSnapshot
  <2>5. Phases'
    BY DEF Phases, PhaseOf, DisposalSnapshot, agentVars
  <2>6. Draining'
    BY DEF Draining, TypeOK, Reservations, DisposalSnapshot, InUse, agentVars
  <2> QED BY <2>1, <2>2, <2>3, <2>4, <2>5, <2>6 DEF IInv
<1>5. CASE DisposalAgents
  <2> USE <1>5
  <2>1. TypeOK'
    BY DEF TypeOK, DisposalAgents, InUse, setupVars, agentVars
  <2>2. Reservations'
    BY DEF Reservations, DisposalAgents, setupVars
  <2>3. LiveAgents'
    BY DEF LiveAgents, DisposalAgents, setupVars, agentVars
  <2>4. Exclusion'
    BY DEF Exclusion, DisposalAgents
  <2>5. Phases'
    BY DEF Phases, PhaseOf, DisposalAgents, setupVars, agentVars
  <2>6. Draining'
    BY DEF Draining, TypeOK, LiveAgents, Reservations, Active, DisposalAgents, InUse, agentVars
  <2> QED BY <2>1, <2>2, <2>3, <2>4, <2>5, <2>6 DEF IInv
<1>6. CASE DisposalFinish
  <2> USE <1>6
  <2>1. TypeOK'
    BY DEF TypeOK, DisposalFinish, setupVars, agentVars
  <2>2. Reservations'
    BY ZenonT(30) DEF Reservations, DisposalFinish, setupVars
  <2>3. LiveAgents'
    BY ZenonT(30) DEF LiveAgents, DisposalFinish, setupVars, agentVars
  <2>4. Exclusion'
    BY DEF Exclusion, DisposalFinish
  <2>5. Phases'
    BY DEF Phases, PhaseOf, DisposalFinish, setupVars, agentVars
  <2>6. Draining'
    BY DEF Draining, DisposalFinish, agentVars
  <2> QED BY <2>1, <2>2, <2>3, <2>4, <2>5, <2>6 DEF IInv
<1>7. ASSUME NEW c \in Calls, NEW by \in {"handle", "registry"}, DisposeBegin(c, by) PROVE IInv'
  <2> USE <1>7
  <2>1. TypeOK'
    BY DEF TypeOK, DisposeBegin, setupVars, disposalVars
  <2>2. Reservations'
    BY DEF Reservations, DisposeBegin, setupVars
  <2>3. LiveAgents'
    BY DEF LiveAgents, TypeOK, DisposeBegin, setupVars
  <2>4. Exclusion'
    BY DEF Exclusion, DisposeBegin
  <2>5. Phases'
    BY DEF Phases, PhaseOf, TypeOK, DisposeBegin, setupVars
  <2>6. Draining'
    BY DEF Draining, TypeOK, DisposeBegin, disposalVars
  <2> QED BY <2>1, <2>2, <2>3, <2>4, <2>5, <2>6 DEF IInv
<1> QED BY <1>1, <1>2, <1>3, <1>4, <1>5, <1>6, <1>7 DEF DisposalNext

\* IInv holds initially and every step of the registry keeps it.
THEOREM Invariance == Spec => []IInv
<1>1. Init => IInv
  <2> SUFFICES ASSUME Init PROVE IInv
    OBVIOUS
  <2>1. TypeOK
    <3>1. 0 \in 0..MaxGeneration
      BY RegistryAssumption
    <3> QED BY <3>1, ZenonT(30) DEF Init, TypeOK
  <2>2. Reservations /\ LiveAgents /\ Exclusion
    BY DEF Init, Reservations, Active, LiveAgents, Exclusion
  <2>3. Phases
    BY DEF Init, Phases, PhaseOf
  <2>4. Draining
    BY DEF Init, Draining
  <2> QED BY <2>1, <2>2, <2>3, <2>4 DEF IInv
<1>2. IInv /\ [Next]_vars => IInv'
  <2> SUFFICES ASSUME IInv, [Next]_vars PROVE IInv'
    OBVIOUS
  <2>1. CASE Next
    BY <2>1, CallerStep, TaskStep, DisposeStep, RegistryStep DEF Next
  <2>2. CASE UNCHANGED vars
    <3> USE <2>2 DEF vars, setupVars, agentVars, disposalVars
    <3>1. TypeOK' /\ Exclusion' /\ Draining'
      BY DEF IInv, TypeOK, Exclusion, Draining
    <3>2. Reservations'
      BY ZenonT(30) DEF IInv, Reservations
    <3>3. LiveAgents'
      BY ZenonT(30) DEF IInv, LiveAgents
    <3>4. Phases'
      BY DEF IInv, Phases, PhaseOf
    <3> QED BY <3>1, <3>2, <3>3, <3>4 DEF IInv
  <2> QED BY <2>1, <2>2
<1> QED BY <1>1, <1>2, PTL DEF Spec

\* The registry's state is always well typed.
THEOREM TypeCorrect == Spec => []TypeOK
<1>1. IInv => TypeOK
  BY DEF IInv
<1> QED BY <1>1, Invariance, PTL

\* Reservations and the live map keep a session to one runtime: a runtime that
\* is alive belongs to the setup that holds the session's reservation or to the
\* session's live agent, and there is at most one of these.
THEOREM SingleRuntime == Spec => []OneRuntimePerSession
<1>1. IInv => OneRuntimePerSession
  <2> SUFFICES ASSUME IInv, NEW c \in Calls, NEW d \in Calls,
                      SessionOf[c] = SessionOf[d], runtime[c] = "alive", runtime[d] = "alive"
               PROVE  c = d
    BY DEF OneRuntimePerSession
  <2>1. SessionOf[c] \in Sessions
    BY RegistryAssumption
  <2>2. starting[SessionOf[c]] = c \/ live[SessionOf[c]] = c
    BY DEF IInv, Reservations, Active, LiveAgents, Phases, PhaseOf
  <2>3. starting[SessionOf[c]] = d \/ live[SessionOf[c]] = d
    BY DEF IInv, Reservations, Active, LiveAgents, Phases, PhaseOf
  <2>4. c # NoCall /\ d # NoCall
    BY RegistryAssumption
  <2> QED BY <2>1, <2>2, <2>3, <2>4 DEF IInv, Exclusion
<1> QED BY <1>1, Invariance, PTL

\* A setup that reported an error has given back everything it took.
THEOREM CleanFailure == Spec => []FailureLeavesNothing
<1>1. IInv => FailureLeavesNothing
  BY RegistryAssumption
     DEF IInv, FailureLeavesNothing, Reservations, Active, LiveAgents, Phases, PhaseOf
<1> QED BY <1>1, Invariance, PTL

\* An agent stays registered and running until its own disposal succeeds.
THEOREM OwnedStaysLive == Spec => []OwnedIsLive
<1>1. IInv => OwnedIsLive
  BY DEF IInv, OwnedIsLive, LiveAgents, Phases, PhaseOf
<1> QED BY <1>1, Invariance, PTL

\* A dispose_all that succeeds leaves no agent, no setup and no runtime.
THEOREM CompleteDisposal == Spec => []DisposalDrains
<1>1. IInv => DisposalDrains
  <2> SUFFICES ASSUME IInv, disposal = "agents", awaited = {}, ~failed
               PROVE  /\ \A s \in Sessions : live[s] = NoCall /\ starting[s] = NoCall
                      /\ \A c \in Calls : runtime[c] # "alive"
    BY DEF DisposalDrains
  <2>1. \A s \in Sessions : live[s] = NoCall /\ starting[s] = NoCall
    BY ZenonT(30) DEF IInv, Draining
  <2>2. ASSUME NEW c \in Calls, runtime[c] = "alive" PROVE FALSE
    <3>1. SessionOf[c] \in Sessions /\ c # NoCall
      BY RegistryAssumption
    <3>2. starting[SessionOf[c]] = c \/ live[SessionOf[c]] = c
      BY <2>2 DEF IInv, Reservations, Active, LiveAgents, Phases, PhaseOf
    <3> QED BY <2>1, <3>1, <3>2
  <2> QED BY <2>1, <2>2
<1> QED BY <1>1, Invariance, PTL
=============================================================================
