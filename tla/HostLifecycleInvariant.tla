---------------------- MODULE HostLifecycleInvariant ----------------------
(***************************************************************************)
(* What a step of HostLifecycle can be, for every value of the constants,  *)
(* and the part of its inductive invariant about admissions and locks:     *)
(* the types; the count of the admitted calls and the setup lock; the      *)
(* shutdown lock and who closes the host; the wait for the last call.      *)
(* HostLifecycleProofs builds the other parts and the theorems on it.      *)
(***************************************************************************)
EXTENDS HostLifecycle, FiniteSetTheorems, TLAPS

USE DEF None

\* Time, and further attempts, for a leaf on a loaded machine.
USE SMTT(30), ZenonT(30), SMTT(40), SMTT(50), SMTT(60)

\* The groups of variables a step leaves alone keep their types.
LEMMA TypesKept ==
  /\ HostTypeOK /\ UNCHANGED hostVars => HostTypeOK'
  /\ StopTypeOK /\ UNCHANGED stopVars => StopTypeOK'
  /\ RelayTypeOK /\ UNCHANGED relayVars => RelayTypeOK'
  /\ SdkTypeOK /\ UNCHANGED sdkVars => SdkTypeOK'
BY DEF HostTypeOK, StopTypeOK, RelayTypeOK, SdkTypeOK, hostVars, stopVars, relayVars, sdkVars

\* Boot begins with every variable in its type.
LEMMA TypeInit == Init => TypeOK
<1> SUFFICES ASSUME Init PROVE TypeOK
  OBVIOUS
<1>1. HostTypeOK
  BY DEF Init, HostTypeOK, CallType, Stages, CallPoints, Inside, Results
<1>2. StopTypeOK
  BY ZenonT(30) DEF Init, StopTypeOK, StopType, StopPoints, Stoppers
<1>3. RelayTypeOK
  BY DEF Init, RelayTypeOK, RelayType, Relays
<1>4. SdkTypeOK
  BY DEF Init, SdkTypeOK, ServerType, Serving
<1> QED
  BY <1>1, <1>2, <1>3, <1>4 DEF TypeOK

\* Each stage of boot keeps the types.
LEMMA TypeBoot == ASSUME TypeOK, BootNext PROVE TypeOK'
<1> USE DEF TypeOK
<1>1. ASSUME NEW stage \in Stages, NEW next \in Stages,
             NEW starts \in SUBSET {"root", "settings", "legacy", "plugins"},
             NEW leaves \in SUBSET {"root", "settings", "legacy", "plugins"},
             BootStage(stage, next, starts, leaves)
      PROVE  TypeOK'
  <2>1. HostTypeOK'
    BY <1>1 DEF BootStage, HostTypeOK
  <2> QED
    BY <1>1, <2>1, TypesKept DEF BootStage
<1>2. CASE BootBind
  <2>1. HostTypeOK'
    BY <1>2 DEF BootBind, HostTypeOK, Stages
  <2>2. RelayTypeOK'
    BY <1>2 DEF BootBind, RelayTypeOK, RelayType
  <2>3. SdkTypeOK'
    BY <1>2 DEF BootBind, SdkTypeOK, ServerType, Serving
  <2> QED
    BY <1>2, <2>1, <2>2, <2>3, TypesKept DEF BootBind
<1>3. /\ {"config", "modes", "settings", "namespaces", "services", "tools", "legacy", "composition",
         "loader", "factory", "bind"} \subseteq Stages
  BY DEF Stages
<1> QED
  BY <1>1, <1>2, <1>3 DEF BootNext, BootConfig, BootModes, BootSettings, BootNamespaces, BootServices, BootTools,
    BootLegacy, BootComposition, BootLoader, BootFactory

-----------------------------------------------------------------------------
(* Calls *)

\* A call is admitted, or refused by a host that is closing.
Enters(c) ==
  /\ call[c].at = "idle" /\ ~admission.closing /\ Up
  /\ \E k \in {"ensure", "select"}, s \in Sessions :
       call' = [call EXCEPT ![c] = [@ EXCEPT !.at = "admitted", !.kind = k, !.session = s]]
  /\ admission' = [admission EXCEPT !.count = @ + 1]
  /\ UNCHANGED <<setup, held, orphaned>>

Refused(c) ==
  /\ call[c].at = "idle"
  /\ call' = [call EXCEPT ![c] = [@ EXCEPT !.at = "done", !.result = "refused"]]
  /\ UNCHANGED <<admission, setup, held, orphaned>>

\* What is installed for a session becomes S when a call at work on it moves,
\* and whether that leaves it with an agent nobody owns.
Works(from, to, h, S, lost) ==
  \/ from \in {"admitted", "agent", "drive", "event"} /\ to = "done" /\ S = h
  \/ from \in {"permission", "disposing"} /\ to = "done" /\ S = h /\ lost
  \/ from = "admitted" /\ to = "agent" /\ "agent" \notin h /\ S \in {h, h \cup {"scope"}}
  \/ from = "agent" /\ to = "permission" /\ S = h \cup {"agent"}
  \/ from = "agent" /\ to = "done" /\ S = h \ {"scope"}
  \/ from = "permission" /\ to = "install" /\ S = h
  \/ from = "permission" /\ to = "done" /\ (S = h \ {"agent"} \/ (lost /\ S = h \cup {"agent"}))
  \/ from = "install" /\ to = "drive" /\ S = h \cup (Parts \ {"scope"})
  \/ from = "install" /\ to = "done" /\ (S \subseteq {"scope"} \/ (lost /\ S \subseteq {"agent", "scope"}))
  \/ from = "admitted" /\ to = "event" /\ "agent" \notin h /\ S = h
  \/ /\ from = "admitted" /\ to = (IF "owned" \in h THEN "releasing" ELSE "disposing") /\ "agent" \in h
     /\ S = h \ {"jobs", "schedule", "scope", "owned", "tools"}
  \/ from = "releasing" /\ to = "disposing" /\ S = h \ {"approval", "question"}
  \/ from = "releasing" /\ to = "done" /\ S = h \ {"approval", "question"} /\ lost
  \/ from = "disposing" /\ to = "done" /\ S = h \cup {"agent"} /\ lost
  \/ from = "disposing" /\ to = "event" /\ S = h \ {"agent"}

\* The move of a call inside the host.
Does(c, to, S, lost) ==
  /\ InCall(c)
  /\ Works(call[c].at, to, held[call[c].session], S, lost)
  /\ held' = [held EXCEPT ![call[c].session] = S]
  /\ orphaned' = IF lost THEN orphaned \cup {call[c].session} ELSE orphaned
  /\ call[c].at = "admitted" /\ to = "agent" => ~Capacity
  /\ to = "done" => \E r \in Results : Return(c, r)
  /\ to # "done" =>
       /\ call' = [call EXCEPT ![c].at = to] /\ UNCHANGED admission
       /\ IF call[c].at = "admitted" THEN setup = None /\ setup' = c ELSE setup' = setup

\* Where a move leads.
Ahead == {"agent", "permission", "install", "drive", "releasing", "disposing", "event", "done"}

\* Each action of a call is an entry, a refusal or a move, and leaves the rest alone.
LEMMA CallKinds ==
  ASSUME HostTypeOK, NEW c \in Calls, CallNext(c)
  PROVE  \/ Enters(c) \/ Refused(c)
         \/ \E to \in Ahead, S \in SUBSET Parts, lost \in BOOLEAN : Does(c, to, S, lost)
<1>s. PICK s : s = call[c].session
  OBVIOUS
<1>0. ASSUME InCall(c) PROVE s \in Sessions /\ held[s] \in SUBSET Parts /\ held = [held EXCEPT ![s] = held[s]]
  BY <1>0, <1>s DEF HostTypeOK, InCall
<1>1. ASSUME NEW to \in Ahead, NEW S, NEW lost \in BOOLEAN, Does(c, to, S, lost)
      PROVE  \E t \in Ahead, T \in SUBSET Parts, l \in BOOLEAN : Does(c, t, T, l)
  <2>1. S \in SUBSET Parts
    BY <1>0, <1>1, <1>s DEF Does, Works, Parts
  <2> QED
    BY <1>1, <2>1
<1>2. {"admitted"} \cup (Ahead \ {"done"}) \subseteq Inside /\ Inside \subseteq {"admitted"} \cup (Ahead \ {"done"})
  BY DEF Inside, Ahead
<1>3. ASSUME NEW k \in {"ensure", "select"}, NEW t \in Sessions, Admit(c, k, t) PROVE Enters(c) \/ Refused(c)
  BY <1>3, ZenonT(30) DEF Admit, Enters, Refused
<1>4. ASSUME NEW keep, Dispose(s, keep)
      PROVE  \/ held' = [held EXCEPT ![s] = keep] /\ orphaned' = orphaned
             \/ held' = [held EXCEPT ![s] = keep \cup {"agent"}] /\ orphaned' = orphaned \cup {s}
  BY <1>4 DEF Dispose
<1> USE DEF Ahead
<1>5. CASE Call(c) \/ ServePrompt(c)
  BY <1>3, <1>5 DEF Call, ServePrompt
<1>6. CASE EnsureBegin(c)
  <2>0. InCall(c) /\ call[c].at = "admitted" /\ setup = None /\ orphaned' = orphaned
    BY <1>6 DEF EnsureBegin, InCall, Inside
  <2>1. CASE "agent" \in held[s] \/ Capacity
    <3>1. held' = held /\ \E r \in Results : Return(c, r)
      BY <1>6, <1>s, <2>1 DEF EnsureBegin, Results
    <3>2. Does(c, "done", held[s], FALSE)
      BY <1>0, <1>s, <2>0, <3>1 DEF Does, Works
    <3> QED
      BY <1>1, <3>2, ZenonT(30)
  <2>2. CASE ~("agent" \in held[s] \/ Capacity)
    <3>1. PICK skills \in {{}, {"scope"}} : held' = [held EXCEPT ![s] = held[s] \cup skills]
      BY <1>6, <1>s, <2>2 DEF EnsureBegin
    <3>2. Does(c, "agent", held[s] \cup skills, FALSE)
      BY <1>6, <1>s, <2>0, <2>2, <3>1 DEF EnsureBegin, Does, Works
    <3> QED
      BY <1>1, <3>2, ZenonT(30)
  <2> QED
    BY <2>1, <2>2
<1>7. CASE Create(c)
  <2>0. InCall(c) /\ call[c].at = "agent" /\ orphaned' = orphaned
    BY <1>7 DEF Create, InCall, Inside
  <2>1. Does(c, "permission", held[s] \cup {"agent"}, FALSE) \/ Does(c, "done", held[s] \ {"scope"}, FALSE)
    BY <1>7, <1>s, <2>0 DEF Create, Does, Works, Results
  <2> QED
    BY <1>1, <2>1, ZenonT(30)
<1>8. CASE Pin(c)
  <2>0. InCall(c) /\ call[c].at = "permission"
    BY <1>8 DEF Pin, InCall, Inside
  <2>1. CASE call' = [call EXCEPT ![c].at = "install"] /\ UNCHANGED <<admission, setup, held, orphaned>>
    <3>1. Does(c, "install", held[s], FALSE)
      BY <1>0, <1>s, <2>0, <2>1 DEF Does, Works
    <3> QED
      BY <1>1, <3>1, ZenonT(30)
  <2>2. CASE Dispose(s, held[s] \ {"agent"}) /\ Return(c, "failed")
    <3>1. (held[s] \ {"agent"}) \cup {"agent"} = held[s] \cup {"agent"} /\ \E r \in Results : Return(c, r)
      BY <2>2 DEF Results
    <3>2. Does(c, "done", held[s] \ {"agent"}, FALSE) \/ Does(c, "done", held[s] \cup {"agent"}, TRUE)
      BY <1>4, <1>s, <2>0, <2>2, <3>1 DEF Does, Works
    <3> QED
      BY <1>1, <3>2, ZenonT(30)
  <2> QED
    BY <1>8, <1>s, <2>1, <2>2 DEF Pin
<1>9. CASE Install(c)
  <2>0. InCall(c) /\ call[c].at = "install"
    BY <1>9 DEF Install, InCall, Inside
  <2>1. CASE held' = [held EXCEPT ![s] = held[s] \cup (Parts \ {"scope"})] /\ call' = [call EXCEPT ![c].at = "drive"]
             /\ UNCHANGED <<admission, setup, orphaned>>
    <3>1. Does(c, "drive", held[s] \cup (Parts \ {"scope"}), FALSE)
      BY <1>s, <2>0, <2>1 DEF Does, Works
    <3> QED
      BY <1>1, <3>1, ZenonT(30)
  <2>2. CASE Return(c, "failed") /\ \E keep \in SUBSET {"scope"} : Dispose(s, keep)
    <3>1. PICK keep \in SUBSET {"scope"} : Dispose(s, keep)
      BY <2>2
    <3>2. Does(c, "done", keep, FALSE) \/ Does(c, "done", keep \cup {"agent"}, TRUE)
      BY <1>4, <1>s, <2>0, <2>2, <3>1 DEF Does, Works, Results
    <3> QED
      BY <1>1, <3>2, ZenonT(30)
  <2>3. held[s] \cap {"scope"} \in SUBSET {"scope"} /\ {} \in SUBSET {"scope"}
    OBVIOUS
  <2> QED
    BY <1>9, <1>s, <2>1, <2>2, <2>3 DEF Install
<1>10. CASE SelectBegin(c)
  <2>0. InCall(c) /\ call[c].at = "admitted" /\ setup = None /\ orphaned' = orphaned /\ setup' = c /\ admission' = admission
    BY <1>10 DEF SelectBegin, InCall, Inside
  <2>1. CASE "agent" \in held[s]
    <3>1. s \in Owned <=> "owned" \in held[s]
      BY <1>0, <2>0 DEF Owned
    <3>2. PICK to \in {"releasing", "disposing"} :
            /\ to = (IF "owned" \in held[s] THEN "releasing" ELSE "disposing")
            /\ call' = [call EXCEPT ![c].at = to]
      BY <1>10, <1>s, <2>1, <3>1 DEF SelectBegin
    <3>3. Does(c, to, held[s] \ {"jobs", "schedule", "scope", "owned", "tools"}, FALSE)
      BY <1>10, <1>s, <2>0, <2>1, <3>2 DEF SelectBegin, Does, Works
    <3> QED
      BY <1>1, <3>3, ZenonT(30)
  <2>2. CASE "agent" \notin held[s]
    <3>1. Does(c, "event", held[s], FALSE)
      BY <1>0, <1>10, <1>s, <2>0, <2>2 DEF SelectBegin, Does, Works
    <3> QED
      BY <1>1, <3>1, ZenonT(30)
  <2> QED
    BY <2>1, <2>2
<1>11. CASE SelectRelease(c)
  <2>1. Does(c, "disposing", held[s] \ {"approval", "question"}, FALSE)
    BY <1>11, <1>s DEF SelectRelease, Does, Works, InCall, Inside
  <2> QED
    BY <1>1, <2>1, ZenonT(30)
<1>12. CASE SelectDispose(c)
  <2>0. InCall(c) /\ call[c].at = "disposing" /\ Dispose(s, held[s] \ {"agent"}) /\ s \in Sessions
    BY <1>0, <1>12, <1>s DEF SelectDispose, InCall, Inside
  <2>1. CASE held' = [held EXCEPT ![s] = held[s] \ {"agent"}] /\ orphaned' = orphaned
    <3>1. "agent" \notin held'[s]
      BY <2>0, <2>1 DEF HostTypeOK
    <3>2. Does(c, "event", held[s] \ {"agent"}, FALSE)
      BY <1>12, <1>s, <2>0, <2>1, <3>1 DEF SelectDispose, Does, Works
    <3> QED
      BY <1>1, <3>2, ZenonT(30)
  <2>2. CASE held' = [held EXCEPT ![s] = (held[s] \ {"agent"}) \cup {"agent"}] /\ orphaned' = orphaned \cup {s}
    <3>1. "agent" \in held'[s] /\ (held[s] \ {"agent"}) \cup {"agent"} = held[s] \cup {"agent"}
      BY <2>0, <2>2 DEF HostTypeOK
    <3>2. Does(c, "done", held[s] \cup {"agent"}, TRUE)
      BY <1>12, <1>s, <2>0, <2>2, <3>1, ZenonT(30) DEF SelectDispose, Does, Works, Results
    <3> QED
      BY <1>1, <3>2, ZenonT(30)
  <2> QED
    BY <1>4, <2>0, <2>1, <2>2
<1>13. CASE Drive(c) \/ SelectLocked(c) \/ SelectEvent(c)
  <2>1. InCall(c) /\ UNCHANGED <<held, orphaned>> /\ call[c].at \in {"drive", "admitted", "event"} /\ \E r \in Results : Return(c, r)
    BY <1>13 DEF Drive, SelectLocked, SelectEvent, InCall, Inside, Results
  <2>2. Does(c, "done", held[s], FALSE)
    BY <1>0, <1>s, <2>1 DEF Does, Works
  <2> QED
    BY <1>1, <2>2, ZenonT(30)
<1>14. CASE Drop(c)
  <2>0. InCall(c) /\ call[c].at \in Inside \ {"install"} /\ \E r \in Results : Return(c, r)
    BY <1>14 DEF Drop, InCall, Results
  <2>1. CASE call[c].at \in {"admitted", "agent", "drive", "event"}
    <3>1. Does(c, "done", held[s], FALSE)
      BY <1>0, <1>14, <1>s, <2>0, <2>1 DEF Drop, Does, Works
    <3> QED
      BY <1>1, <3>1, ZenonT(30)
  <2>2. CASE call[c].at \in {"permission", "disposing"}
    <3>1. Does(c, "done", held[s], TRUE)
      BY <1>0, <1>14, <1>s, <2>0, <2>2 DEF Drop, Does, Works
    <3> QED
      BY <1>1, <3>1, ZenonT(30)
  <2>3. CASE call[c].at = "releasing"
    <3>1. Does(c, "done", held[s] \ {"approval", "question"}, TRUE)
      BY <1>14, <1>s, <2>0, <2>3 DEF Drop, Does, Works
    <3> QED
      BY <1>1, <3>1, ZenonT(30)
  <2> QED
    BY <2>0, <2>1, <2>2, <2>3 DEF Inside
<1> QED
  BY <1>5, <1>6, <1>7, <1>8, <1>9, <1>10, <1>11, <1>12, <1>13, <1>14 DEF CallNext, Abandon, SignalInCall

\* A call that goes on under the setup lock, and one that returns.
Goes(c) ==
  /\ InCall(c)
  /\ \E at \in Inside \ {"admitted"} : call' = [call EXCEPT ![c].at = at]
  /\ \/ call[c].at = "admitted" /\ setup = None /\ setup' = c
     \/ call[c].at # "admitted" /\ setup' = setup
  /\ UNCHANGED admission

Leaves(c) == InCall(c) /\ \E r \in Results : Return(c, r)

\* A change of one call.
LEMMA CallUpdate ==
  ASSUME HostTypeOK, NEW c \in Calls, NEW v \in CallType, call' = [call EXCEPT ![c] = v]
  PROVE  /\ call' \in [Calls -> CallType]
         /\ call'[c] = v /\ \A d \in Calls : d # c => call'[d] = call[d]
BY DEF HostTypeOK

\* A change of where one call is.
LEMMA CallMoves ==
  ASSUME HostTypeOK, NEW c \in Calls, NEW at \in Inside, call' = [call EXCEPT ![c].at = at]
  PROVE  /\ call' \in [Calls -> CallType]
         /\ call'[c] = [call[c] EXCEPT !.at = at] /\ \A d \in Calls : d # c => call'[d] = call[d]
<1>1. [call[c] EXCEPT !.at = at] \in CallType
  BY DEF HostTypeOK, CallType, CallPoints
<1> QED
  BY <1>1, CallUpdate DEF HostTypeOK

\* What a move does to the call and to its session.
LEMMA DoesGive ==
  ASSUME HostTypeOK, NEW c \in Calls, NEW to \in Ahead, NEW S \in SUBSET Parts, NEW lost \in BOOLEAN,
         Does(c, to, S, lost), NEW s \in Sessions, s = call[c].session
  PROVE  /\ call'[c].at = to /\ call'[c].session = s
         /\ held'[s] = S /\ held' \in [Sessions -> SUBSET Parts]
         /\ \A t \in Sessions : t # s => held'[t] = held[t]
         /\ orphaned \subseteq orphaned' /\ orphaned' \subseteq Sessions /\ (lost => s \in orphaned')
         /\ IF to = "done" THEN Leaves(c) ELSE Goes(c)
<1>0. call[c] \in CallType /\ s \in Sessions /\ held \in [Sessions -> SUBSET Parts] /\ InCall(c)
  BY DEF HostTypeOK, Does, InCall
<1>1. CASE to = "done"
  <2>1. PICK r \in Results : call' = [call EXCEPT ![c] = [call[c] EXCEPT !.at = "done", !.result = r]]
    BY <1>1, ZenonT(30) DEF Does, Return
  <2>2. call'[c] = [call[c] EXCEPT !.at = "done", !.result = r]
    BY <2>1 DEF HostTypeOK
  <2>3. call'[c].at = to /\ call'[c].session = s
    BY <1>0, <1>1, <2>2 DEF CallType
  <2>4. Leaves(c)
    BY <1>0, <1>1 DEF Does, Leaves
  <2> QED
    BY <1>0, <1>1, <2>3, <2>4 DEF Does, HostTypeOK
<1>2. CASE to # "done"
  <2>1. call' = [call EXCEPT ![c].at = to] /\ to \in Inside \ {"admitted"}
    BY <1>2 DEF Does, Ahead, Inside
  <2>2. call'[c] = [call[c] EXCEPT !.at = to]
    BY <2>1, CallMoves, ZenonT(30)
  <2>3. call'[c].at = to /\ call'[c].session = s
    BY <1>0, <2>2 DEF CallType
  <2>4. Goes(c)
    BY <1>0, <1>2, <2>1, ZenonT(30) DEF Does, Goes
  <2> QED
    BY <1>0, <1>2, <2>3, <2>4 DEF Does, HostTypeOK
<1> QED
  BY <1>1, <1>2

\* Each action of a call is one of four kinds of step, and leaves boot, the
\* shutdowns and the relays alone.
LEMMA CallSteps ==
  ASSUME TypeOK, NEW c \in Calls, CallNext(c)
  PROVE  /\ Enters(c) \/ Refused(c) \/ Goes(c) \/ Leaves(c)
         /\ UNCHANGED <<boot, made, stopVars, relayVars>>
<1>1. UNCHANGED <<boot, made, stopVars, relayVars>>
  BY ZenonT(30) DEF CallNext, Call, Admit, EnsureBegin, Create, Pin, Install, Drive, SelectLocked, SelectBegin,
    SelectRelease, SelectDispose, SelectEvent, Abandon, Drop, ServePrompt, SignalInCall
<1>2. HostTypeOK
  BY DEF TypeOK
<1>3. ASSUME NEW to \in Ahead, NEW S \in SUBSET Parts, NEW lost \in BOOLEAN, Does(c, to, S, lost)
      PROVE  Goes(c) \/ Leaves(c)
  <2>1. PICK s \in Sessions : s = call[c].session
    BY <1>2, <1>3 DEF Does, HostTypeOK, InCall
  <2> QED
    BY <1>2, <1>3, <2>1, DoesGive
<1> QED
  BY <1>1, <1>2, <1>3, CallKinds

\* What a call that returns leaves: it is done, its admission and its lock are released.
LEMMA ReturnType ==
  ASSUME HostTypeOK, NEW c \in Calls, NEW r \in Results, Return(c, r)
  PROVE  /\ admission' \in [closing : BOOLEAN, count : Nat, drains : Nat]
         /\ setup' \in Calls \cup {None}
         /\ call' \in [Calls -> CallType]
<1>1. admission' \in [closing : BOOLEAN, count : Nat, drains : Nat]
  <2> DEFINE n == IF admission.count = 0 THEN 0 ELSE admission.count - 1
             d == IF admission.closing /\ admission.count <= 1 THEN admission.drains + 1 ELSE admission.drains
  <2>1. n \in Nat /\ d \in Nat
    BY DEF HostTypeOK
  <2>2. admission' = [admission EXCEPT !.count = n, !.drains = d]
    BY DEF Return, Released
  <2> QED
    BY <2>1, <2>2, ZenonT(30) DEF HostTypeOK
<1>2. call' \in [Calls -> CallType]
  <2>1. [call[c] EXCEPT !.at = "done", !.result = r] \in CallType
    BY ZenonT(30) DEF HostTypeOK, CallType, CallPoints
  <2> QED
    BY <2>1, CallUpdate, ZenonT(30) DEF Return
<1> QED
  BY <1>1, <1>2 DEF Return, HostTypeOK

\* The calls, their count and the setup lock keep their types.
LEMMA CallTypes ==
  ASSUME HostTypeOK, NEW c \in Calls, Enters(c) \/ Refused(c) \/ Goes(c) \/ Leaves(c)
  PROVE  /\ admission' \in [closing : BOOLEAN, count : Nat, drains : Nat]
         /\ setup' \in Calls \cup {None}
         /\ call' \in [Calls -> CallType]
         /\ \A d \in Calls : call'[d].at \in Inside => call'[d].session \in Sessions
         /\ \A d \in Calls \ {c} : call'[d] = call[d]
<1>1. CASE Enters(c)
  <2>1. PICK k \in {"ensure", "select"}, s \in Sessions :
          call' = [call EXCEPT ![c] = [call[c] EXCEPT !.at = "admitted", !.kind = k, !.session = s]]
    BY <1>1, ZenonT(30) DEF Enters
  <2>2. [call[c] EXCEPT !.at = "admitted", !.kind = k, !.session = s] \in CallType
    BY ZenonT(30) DEF HostTypeOK, CallType, CallPoints, Inside
  <2>3. [call[c] EXCEPT !.at = "admitted", !.kind = k, !.session = s].session = s
    BY DEF HostTypeOK, CallType
  <2>4. admission' \in [closing : BOOLEAN, count : Nat, drains : Nat]
    <3>1. admission' = [admission EXCEPT !.count = admission.count + 1]
      BY <1>1, ZenonT(30) DEF Enters
    <3> QED
      BY <3>1 DEF HostTypeOK
  <2>5. setup' \in Calls \cup {None}
    BY <1>1, ZenonT(30) DEF Enters, HostTypeOK
  <2> QED
    BY <2>1, <2>2, <2>3, <2>4, <2>5, CallUpdate DEF HostTypeOK
<1>2. CASE Refused(c)
  <2>1. "refused" \in Results /\ "done" \notin Inside
    BY DEF Results, Inside
  <2>2. /\ [call[c] EXCEPT !.at = "done", !.result = "refused"] \in CallType
        /\ [call[c] EXCEPT !.at = "done", !.result = "refused"].at = "done"
    BY <2>1, ZenonT(30) DEF HostTypeOK, CallType, CallPoints
  <2>3. admission' \in [closing : BOOLEAN, count : Nat, drains : Nat] /\ setup' \in Calls \cup {None}
    BY <1>2 DEF Refused, HostTypeOK
  <2> QED
    BY <1>2, <2>1, <2>2, <2>3, CallUpdate DEF Refused, HostTypeOK
<1>3. CASE Goes(c)
  <2>1. PICK at \in Inside : call' = [call EXCEPT ![c].at = at]
    BY <1>3, ZenonT(30) DEF Goes
  <2>2. [call[c] EXCEPT !.at = at].session = call[c].session /\ call[c].session \in Sessions
    BY <1>3 DEF HostTypeOK, CallType, Goes, InCall
  <2>3. admission' \in [closing : BOOLEAN, count : Nat, drains : Nat] /\ setup' \in Calls \cup {None}
    BY <1>3 DEF Goes, HostTypeOK
  <2> QED
    BY <2>1, <2>2, <2>3, CallMoves, ZenonT(30) DEF HostTypeOK
<1>4. CASE Leaves(c)
  <2>1. PICK r \in Results : Return(c, r)
    BY <1>4 DEF Leaves
  <2>2. /\ [call[c] EXCEPT !.at = "done", !.result = r] \in CallType
        /\ [call[c] EXCEPT !.at = "done", !.result = r].at = "done" /\ "done" \notin Inside
    BY ZenonT(30) DEF HostTypeOK, CallType, CallPoints, Inside
  <2>3. call' = [call EXCEPT ![c] = [call[c] EXCEPT !.at = "done", !.result = r]]
    BY <2>1 DEF Return
  <2> QED
    BY <2>1, <2>2, <2>3, CallUpdate, ReturnType DEF HostTypeOK
<1> QED
  BY <1>1, <1>2, <1>3, <1>4

\* What is installed, and for which sessions a setup went wrong, keeps its type.
LEMMA HeldTypes ==
  ASSUME HostTypeOK, NEW c \in Calls, CallNext(c)
  PROVE  held' \in [Sessions -> SUBSET Parts] /\ orphaned' \subseteq Sessions
<1>1. CASE Enters(c) \/ Refused(c)
  BY <1>1, ZenonT(30) DEF Enters, Refused, HostTypeOK
<1>2. ASSUME NEW to \in Ahead, NEW S \in SUBSET Parts, NEW lost \in BOOLEAN, Does(c, to, S, lost)
      PROVE  held' \in [Sessions -> SUBSET Parts] /\ orphaned' \subseteq Sessions
  <2>1. PICK s \in Sessions : s = call[c].session
    BY <1>2 DEF Does, HostTypeOK, InCall
  <2> QED
    BY <1>2, <2>1, DoesGive
<1> QED
  BY <1>1, <1>2, CallKinds, ZenonT(30)

\* The actions of a call keep the types.
LEMMA TypeCall == ASSUME TypeOK, NEW c \in Calls, CallNext(c) PROVE TypeOK'
<1> USE DEF TypeOK
<1>1. HostTypeOK'
  BY CallSteps, CallTypes, HeldTypes, ZenonT(30) DEF HostTypeOK
<1>2. CASE ServePrompt(c)
  <2>1. Tail(server.frames) \in Seq(Frames) /\ server \in ServerType
    BY <1>2 DEF ServePrompt, SdkTypeOK, ServerType
  <2>2. server' = [server EXCEPT !.frames = Tail(server.frames), !.at = "calling", !.request = c]
    BY <1>2 DEF ServePrompt, Taken
  <2>3. server' \in ServerType
    BY <2>1, <2>2, ZenonT(30) DEF ServerType, Serving
  <2> QED
    BY <1>1, <1>2, <2>3, CallSteps, TypesKept DEF ServePrompt, SdkTypeOK
<1>3. CASE SignalInCall(c)
  <2>1. server' \in ServerType
    BY <1>3, ZenonT(30) DEF SignalInCall, SdkTypeOK, ServerType
  <2> QED
    BY <1>1, <1>3, <2>1, CallSteps, TypesKept DEF SignalInCall, SdkTypeOK
<1>4. CASE UNCHANGED sdkVars
  BY <1>1, <1>4, CallSteps, TypesKept
<1> QED
  BY <1>2, <1>3, <1>4, ZenonT(30) DEF CallNext, Call, EnsureBegin, Create, Pin, Install, Drive, SelectLocked,
    SelectBegin, SelectRelease, SelectDispose, SelectEvent, Abandon

-----------------------------------------------------------------------------
(* Types, continued: shutdowns, relays and the server *)

\* A change of one shutdown.
LEMMA StopUpdate ==
  ASSUME StopTypeOK, NEW x \in Stoppers, NEW v \in StopType, stopper' = [stopper EXCEPT ![x] = v]
  PROVE  /\ stopper' \in [Stoppers -> StopType]
         /\ stopper'[x] = v /\ \A y \in Stoppers : y # x => stopper'[y] = stopper[y]
BY DEF StopTypeOK

\* A change of where one shutdown is.
LEMMA StopMoves ==
  ASSUME StopTypeOK, NEW x \in Stoppers, NEW at \in StopPoints, StopGoto(x, at)
  PROVE  /\ stopper' \in [Stoppers -> StopType]
         /\ stopper'[x] = [stopper[x] EXCEPT !.at = at]
         /\ \A y \in Stoppers : y # x => stopper'[y] = stopper[y]
<1>1. [stopper[x] EXCEPT !.at = at] \in StopType
  BY DEF StopTypeOK, StopType
<1>2. stopper' = [stopper EXCEPT ![x] = [stopper[x] EXCEPT !.at = at]]
  BY DEF StopGoto
<1> QED
  BY <1>1, <1>2, StopUpdate, ZenonT(30)

\* A step of the closing moves on, and may note that it failed.
LEMMA StopCloses ==
  ASSUME StopTypeOK, NEW x \in Stoppers, NEW at \in StopPoints, NEW step \in Closings, Closes(x, step, at)
  PROVE  /\ stopper' \in [Stoppers -> StopType]
         /\ stopper'[x].at = at /\ stopper'[x].closer = stopper[x].closer /\ stopper'[x].seen = stopper[x].seen
         /\ stopper'[x].failures \in {stopper[x].failures, stopper[x].failures \cup {step}}
         /\ \A y \in Stoppers : y # x => stopper'[y] = stopper[y]
<1>1. CASE StopGoto(x, at)
  <2>1. /\ stopper' \in [Stoppers -> StopType]
        /\ stopper'[x] = [stopper[x] EXCEPT !.at = at]
        /\ \A y \in Stoppers : y # x => stopper'[y] = stopper[y]
    BY <1>1, StopMoves
  <2>2. stopper[x] \in StopType
    BY DEF StopTypeOK
  <2> QED
    BY <2>1, <2>2 DEF StopType
<1>2. CASE stopper' = [stopper EXCEPT ![x] = [stopper[x] EXCEPT !.at = at, !.failures = @ \cup {step}]]
  <2>1. [stopper[x] EXCEPT !.at = at, !.failures = stopper[x].failures \cup {step}] \in StopType
    BY ZenonT(30) DEF StopTypeOK, StopType
  <2>2. stopper' = [stopper EXCEPT ![x] = [stopper[x] EXCEPT !.at = at, !.failures = stopper[x].failures \cup {step}]]
    BY <1>2
  <2> QED
    BY <2>1, <2>2, StopUpdate DEF StopTypeOK, StopType
<1> QED
  BY <1>1, <1>2 DEF Closes

\* The actions of a shutdown keep the types.
LEMMA TypeStop == ASSUME TypeOK, NEW x \in Stoppers, StopNext(x) PROVE TypeOK'
<1> USE DEF TypeOK
<1>1. SdkTypeOK'
  BY TypesKept DEF StopNext, StopBegin, StopSettings, DrainRegister, DrainCount, DrainWoken, StopDispose,
    StopOwned, StopFlush, StopRelays, StopJoin, StopLoader, StopLegacy, StopRoot
<1>2. RelayTypeOK'
  BY TypesKept DEF StopNext, StopBegin, StopSettings, DrainRegister, DrainCount, DrainWoken, StopDispose,
    StopOwned, StopFlush, StopRelays, StopJoin, StopLoader, StopLegacy, StopRoot, RelayTypeOK
<1>3. HostTypeOK'
  <2>1. CASE StopBegin(x)
    <3>1. admission' \in [closing : BOOLEAN, count : Nat, drains : Nat]
      <4> DEFINE d == IF admission.count = 0 THEN admission.drains + 1 ELSE admission.drains
      <4>1. d \in Nat
        BY DEF HostTypeOK
      <4>2. admission' = admission \/ admission' = [admission EXCEPT !.closing = TRUE, !.drains = d]
        BY <2>1 DEF StopBegin
      <4> HIDE DEF d
      <4> QED
        BY <4>1, <4>2, ZenonT(30) DEF HostTypeOK
    <3> QED
      BY <2>1, <3>1 DEF StopBegin, HostTypeOK
  <2>2. CASE StopSettings(x) \/ StopLoader(x) \/ StopLegacy(x) \/ StopRoot(x)
    BY <2>2, ZenonT(30) DEF StopSettings, StopLoader, StopLegacy, StopRoot, HostTypeOK
  <2>3. CASE StopDispose(x) \/ StopOwned(x)
    <3>1. \A s \in Sessions : held[s] \ {"agent"} \in SUBSET Parts /\ held[s] \cap {"agent"} \in SUBSET Parts
      BY DEF HostTypeOK
    <3>2. \/ held' = held \/ held' = [s \in Sessions |-> held[s] \ {"agent"}]
          \/ held' = [s \in Sessions |-> held[s] \cap {"agent"}]
      BY <2>3 DEF StopDispose, StopOwned
    <3>3. held' \in [Sessions -> SUBSET Parts]
      BY <3>1, <3>2 DEF HostTypeOK
    <3> QED
      BY <2>3, <3>3, ZenonT(30) DEF StopDispose, StopOwned, HostTypeOK
  <2>4. CASE UNCHANGED hostVars
    BY <2>4, TypesKept
  <2> QED
    BY <2>1, <2>2, <2>3, <2>4 DEF StopNext, DrainRegister, DrainCount, DrainWoken, StopFlush, StopRelays, StopJoin
<1>4. StopTypeOK'
  <2>0. Holding \cup {"returned"} \subseteq StopPoints
    BY DEF StopPoints
  <2>1. CASE StopBegin(x)
    <3>1. [stopper[x] EXCEPT !.at = IF admission.closing THEN "drain" ELSE "settings",
                             !.closer = ~admission.closing] \in StopType
      BY <2>0, ZenonT(30) DEF StopTypeOK, StopType, HostTypeOK, Holding
    <3> QED
      BY <2>1, <3>1, StopUpdate DEF StopBegin, StopTypeOK
  <2>2. CASE DrainRegister(x)
    <3>1. [stopper[x] EXCEPT !.at = "count", !.seen = admission.drains] \in StopType
      BY <2>0, ZenonT(30) DEF StopTypeOK, StopType, HostTypeOK, Holding
    <3> QED
      BY <2>2, <3>1, StopUpdate DEF DrainRegister, StopTypeOK
  <2>3. CASE StopSettings(x) \/ DrainWoken(x) \/ StopOwned(x) \/ StopRelays(x) \/ StopJoin(x)
    BY <2>0, <2>3, StopMoves, ZenonT(30) DEF StopSettings, DrainWoken, StopOwned, StopRelays, StopJoin, StopTypeOK, Holding
  <2>4. CASE DrainCount(x)
    BY <2>0, <2>4, StopMoves, ZenonT(30) DEF DrainCount, StopReturn, StopTypeOK, Holding
  <2>5. CASE StopDispose(x) \/ StopFlush(x) \/ StopLoader(x) \/ StopLegacy(x) \/ StopRoot(x)
    <3>1. /\ {"owned", "relays", "legacy_stop", "root", "returned"} \subseteq StopPoints
          /\ {"dispose", "flush", "unload", "legacy_stop", "root"} \subseteq Closings
      BY DEF StopPoints, Holding, Closings
    <3> QED
      BY <2>5, <3>1, StopCloses DEF StopDispose, StopFlush, StopLoader, StopLegacy, StopRoot, StopTypeOK
  <2> QED
    BY <2>1, <2>2, <2>3, <2>4, <2>5 DEF StopNext
<1> QED
  BY <1>1, <1>2, <1>3, <1>4

\* A change of one relay.
LEMMA RelayUpdate ==
  ASSUME RelayTypeOK, NEW r \in Relays, NEW v \in RelayType, relay' = [relay EXCEPT ![r] = v]
  PROVE  /\ relay' \in [Relays -> RelayType]
         /\ relay'[r] = v /\ \A q \in Relays : q # r => relay'[q] = relay[q]
BY DEF RelayTypeOK

\* The actions of a relay keep the types.
LEMMA TypeRelay == ASSUME TypeOK, NEW r \in Relays, RelayNext(r) PROVE TypeOK'
<1> USE DEF TypeOK
<1>1. UNCHANGED <<hostVars, stopVars, changes, stops, sdkVars>>
  BY DEF RelayNext, RelayCheck, RelayEnter, RelayRecv, RelayLags, RelayStop, RelayDrain
<1>2. relay' \in [Relays -> RelayType]
  <2>0. relay[r] \in RelayType /\ Heard(r) \in Nat
    BY DEF RelayTypeOK, RelayType, Heard, told, Relays
  <2>1. ASSUME NEW w \in {"enter", "drain", "ended"}, Goto(r, w)
        PROVE  relay' \in [Relays -> RelayType]
    <3>1. [relay[r] EXCEPT !.at = w] \in RelayType
      BY <2>0 DEF RelayType
    <3> QED
      BY <2>1, <3>1 DEF Goto, RelayTypeOK
  <2>2. CASE RelayEnter(r)
    <3>1. [relay[r] EXCEPT !.at = "select", !.seen = stops] \in RelayType
      BY <2>0, ZenonT(30) DEF RelayTypeOK, RelayType
    <3> QED
      BY <2>2, <3>1, RelayUpdate, ZenonT(30) DEF RelayEnter
  <2>3. ASSUME NEW w \in {"check", "drain"}, Took(r, w)
        PROVE  relay' \in [Relays -> RelayType]
    <3>1. relay[r].got + 1 \in Nat /\ relay[r].took + 1 \in Nat
      BY <2>0 DEF RelayType
    <3>2. [relay[r] EXCEPT !.at = w, !.got = relay[r].got + 1, !.took = relay[r].took + 1] \in RelayType
      BY <2>0, <3>1, ZenonT(30) DEF RelayType
    <3> QED
      BY <2>3, <3>2, RelayUpdate, ZenonT(30) DEF Took
  <2>4. CASE RelayLags(r)
    <3>1. PICK k \in 1..Heard(r) :
            relay' = [relay EXCEPT ![r] = [relay[r] EXCEPT !.at = "check", !.got = relay[r].got + k, !.lagged = TRUE]]
      BY <2>4, ZenonT(30) DEF RelayLags
    <3>2. relay[r].got + k \in Nat
      BY <2>0 DEF RelayType
    <3>3. [relay[r] EXCEPT !.at = "check", !.got = relay[r].got + k, !.lagged = TRUE] \in RelayType
      BY <2>0, <3>2, ZenonT(30) DEF RelayType
    <3> QED
      BY <3>1, <3>3, RelayUpdate, ZenonT(30)
  <2>5. ASSUME relay' = [relay EXCEPT ![r] = [relay[r] EXCEPT !.at = "ended", !.lagged = TRUE]]
        PROVE  relay' \in [Relays -> RelayType]
    <3>1. [relay[r] EXCEPT !.at = "ended", !.lagged = TRUE] \in RelayType
      BY <2>0, ZenonT(30) DEF RelayType
    <3> QED
      BY <2>5, <3>1, RelayUpdate, ZenonT(30)
  <2>6. CASE RelayCheck(r) \/ RelayStop(r)
    BY <2>1, <2>6 DEF RelayCheck, RelayStop, Leave
  <2>7. CASE RelayRecv(r) \/ RelayDrain(r)
    BY <2>1, <2>3, <2>5, <2>7, ZenonT(30) DEF RelayRecv, RelayDrain
  <2> QED
    BY <2>2, <2>4, <2>6, <2>7 DEF RelayNext
<1>3. RelayTypeOK'
  BY <1>1, <1>2 DEF RelayTypeOK
<1> QED
  BY <1>1, <1>3, TypesKept

\* The actions of the server and of its client keep the types.
LEMMA TypeServer == ASSUME TypeOK, ServerNext PROVE TypeOK'
<1> USE DEF TypeOK
<1>0. {"serve", "stopping", "draining", "cleanup", "returned", "gone"} \subseteq Serving \cup {"off", "returned", "gone"}
  BY DEF Serving
<1>1. ASSUME NEW rest \in ServerType, Answer(rest)
      PROVE  server' \in ServerType /\ wire' \in [answers : Nat, bye : BOOLEAN, notes : Nat]
  <2>1. server' \in ServerType
    BY <1>0, <1>1 DEF Answer, ServerType
  <2>2. wire' \in [answers : Nat, bye : BOOLEAN, notes : Nat]
    BY <1>1 DEF Answer, SdkTypeOK
  <2> QED
    BY <2>1, <2>2
<1>2. ASSUME server.frames # <<>>
      PROVE  Taken \in ServerType
  <2>1. Tail(server.frames) \in Seq(Frames)
    BY <1>2 DEF SdkTypeOK, ServerType
  <2> QED
    BY <2>1, ZenonT(30) DEF Taken, SdkTypeOK, ServerType
<1>3. ASSUME NEW f \in Frames, ClientSends(f) PROVE TypeOK'
  <2>1. PICK q \in Seq(Frames), n \in Nat : q = Append(server.frames, f) /\ n = server.sent + 1
    <3>1. Append(server.frames, f) \in Seq(Frames) /\ server.sent + 1 \in Nat
      BY DEF SdkTypeOK, ServerType
    <3> QED
      BY <3>1, ZenonT(30)
  <2>2. server' \in ServerType
    <3>1. server' = [server EXCEPT !.frames = q, !.sent = n]
      BY <1>3, <2>1 DEF ClientSends
    <3> QED
      BY <3>1, ZenonT(30) DEF SdkTypeOK, ServerType
  <2> QED
    BY <1>3, <2>2, TypesKept DEF ClientSends, SdkTypeOK
<1>4. CASE ClientLeaves \/ WriterFails \/ ServeEnds \/ ServeLags
  <2>1. server' \in ServerType
    BY <1>0, <1>4, ZenonT(30) DEF ClientLeaves, WriterFails, ServeEnds, ServeLags, SdkTypeOK, ServerType
  <2> QED
    BY <1>4, <2>1, TypesKept DEF ClientLeaves, WriterFails, ServeEnds, ServeLags, SdkTypeOK
<1>5. CASE ServeRequest
  <2>1. [Taken EXCEPT !.initialized = @ \/ Head(server.frames) = "initialize"] \in ServerType
    BY <1>2, <1>5, ZenonT(30) DEF ServeRequest, ServerType
  <2> QED
    BY <1>1, <1>5, <2>1, TypesKept DEF ServeRequest, SdkTypeOK
<1>6. ASSUME NEW c \in Calls, ServePrompted(c) PROVE TypeOK'
  <2>1. [server EXCEPT !.request = None] \in ServerType
    BY DEF SdkTypeOK, ServerType
  <2> QED
    BY <1>1, <1>6, <2>1, TypesKept DEF ServePrompted, SdkTypeOK
<1>7. "lock" \in StopPoints /\ "idle" \in StopPoints /\ "dropped" \in StopPoints /\ "sdk" \in Stoppers /\ "process" \in Stoppers
  BY DEF StopPoints, Stoppers
<1>8. CASE ServeShutdown \/ ServeCleanup
  <2>1. server' \in ServerType
    <3>1. CASE ServeShutdown
      <4>1. Taken \in ServerType /\ server' = [Taken EXCEPT !.at = "stopping"]
        BY <1>2, <3>1 DEF ServeShutdown
      <4> QED
        BY <1>0, <4>1 DEF ServerType
    <3>2. CASE ServeCleanup
      BY <1>0, <3>2 DEF ServeCleanup, SdkTypeOK, ServerType
    <3> QED
      BY <1>8, <3>1, <3>2
  <2> QED
    BY <1>7, <1>8, <2>1, TypesKept, StopMoves, ZenonT(30) DEF ServeShutdown, ServeCleanup, SdkTypeOK, StopTypeOK
<1>9. CASE ServeStopped
  <2>1. server' \in ServerType /\ wire' \in [answers : Nat, bye : BOOLEAN, notes : Nat]
    <3>1. server \in ServerType /\ wire \in [answers : Nat, bye : BOOLEAN, notes : Nat]
      BY DEF SdkTypeOK
    <3>2. [server EXCEPT !.at = "draining"] \in ServerType
      BY <1>0, <3>1 DEF ServerType
    <3>3. Answer(server) \/ (server' = [server EXCEPT !.at = "draining"] /\ wire' = wire)
      BY <1>9 DEF ServeStopped
    <3> QED
      BY <1>1, <3>1, <3>2, <3>3
  <2> QED
    BY <1>7, <1>9, <2>1, TypesKept, StopMoves, ZenonT(30) DEF ServeStopped, SdkTypeOK, StopTypeOK
<1>10. CASE ServeNote \/ ServeBye
  <2>1. server' \in ServerType
    BY <1>0, <1>10 DEF ServeNote, ServeBye, SdkTypeOK, ServerType
  <2>2. wire' \in [answers : Nat, bye : BOOLEAN, notes : Nat]
    <3>0. wire \in [answers : Nat, bye : BOOLEAN, notes : Nat] /\ server \in ServerType
      BY DEF SdkTypeOK
    <3>1. CASE ServeNote
      BY <3>0, <3>1 DEF ServeNote
    <3>2. CASE ServeBye
      <4>1. PICK b \in BOOLEAN : wire' = [wire EXCEPT !.bye = b]
        BY <3>0, <3>2, ZenonT(30) DEF ServeBye, ServerType
      <4> QED
        BY <3>0, <4>1
    <3> QED
      BY <1>10, <3>1, <3>2
  <2> QED
    BY <1>10, <2>1, <2>2, TypesKept DEF ServeNote, ServeBye, SdkTypeOK
<1>11. CASE Signal
  <2>1. server' \in ServerType
    BY <1>0, <1>11 DEF Signal, SdkTypeOK, ServerType
  <2>2. SdkTypeOK'
    BY <1>11, <2>1 DEF Signal, SdkTypeOK
  <2>3. stopper' \in [Stoppers -> StopType]
    BY <1>7, <1>11, StopMoves, ZenonT(30) DEF Signal
  <2>4. StopTypeOK'
    BY <1>11, <2>3 DEF Signal, StopTypeOK, StopType, Stoppers
  <2>5. held' \in [Sessions -> SUBSET Parts]
    <3>1. \A s \in Sessions : held[s] \ {"agent"} \in SUBSET Parts
      BY DEF HostTypeOK
    <3>2. held' = held \/ held' = [s \in Sessions |-> held[s] \ {"agent"}]
      BY <1>11 DEF Signal
    <3> QED
      BY <3>1, <3>2 DEF HostTypeOK
  <2>6. HostTypeOK'
    BY <1>11, <2>5 DEF Signal, HostTypeOK
  <2> QED
    BY <1>11, <2>2, <2>4, <2>6, TypesKept DEF Signal
<1>12. CASE ProcessStops
  BY <1>7, <1>12, TypesKept, StopMoves, ZenonT(30) DEF ProcessStops, StopTypeOK
<1> QED
  BY <1>3, <1>4, <1>5, <1>6, <1>8, <1>9, <1>10, <1>11, <1>12 DEF ServerNext

\* A settings change keeps the types.
LEMMA TypeChange == ASSUME TypeOK, Change PROVE TypeOK'
BY TypesKept DEF TypeOK, Change, RelayTypeOK

\* Every step keeps the types.
LEMMA TypeStep == ASSUME TypeOK, [Next]_vars PROVE TypeOK'
<1>1. CASE UNCHANGED vars
  BY <1>1, TypesKept DEF vars, TypeOK
<1> QED
  BY <1>1, TypeBoot, TypeCall, TypeStop, TypeRelay, TypeServer, TypeChange DEF Next

\* The variables of the host keep their types.
THEOREM TypeCorrect == Spec => []TypeOK
BY TypeInit, TypeStep, PTL DEF Spec

-----------------------------------------------------------------------------
(* Admission and the setup lock *)

\* The count of AdmissionState is the number of calls inside, and the setup lock is
\* held by the one call that has gone past its admission.
InsideCalls == {c \in Calls : InCall(c)}
AdmissionInv ==
  /\ admission.count = Cardinality(InsideCalls)
  /\ \A c \in Calls : InCall(c) /\ call[c].at # "admitted" => setup = c
  /\ setup # None => InCall(setup) /\ call[setup].at # "admitted"

\* A settings change, a step of a relay and a stuttering step touch neither the
\* calls nor the shutdowns nor the server.
LEMMA RestApart ==
  ASSUME Change \/ (\E r \in Relays : RelayNext(r)) \/ UNCHANGED vars
  PROVE  UNCHANGED <<hostVars, stopVars, sdkVars, stops>>
BY ZenonT(30) DEF Change, RelayNext, RelayCheck, RelayEnter, RelayRecv, RelayLags, RelayStop, RelayDrain, vars, relayVars

\* A step of anything but a call leaves the calls and their count alone.
Quiet == UNCHANGED <<call, setup>> /\ admission'.count = admission.count

\* Only the actions of a call do more than that.
LEMMA QuietSteps ==
  ASSUME TypeOK, [Next]_vars
  PROVE  Quiet \/ \E c \in Calls : CallNext(c)
<1>1. CASE BootNext
  BY <1>1 DEF BootNext, BootConfig, BootModes, BootSettings, BootNamespaces, BootServices, BootTools,
    BootLegacy, BootComposition, BootLoader, BootFactory, BootStage, BootBind, Quiet
<1>2. CASE Change
  BY <1>2 DEF Change, Quiet, hostVars
<1>3. ASSUME NEW r \in Relays, RelayNext(r) PROVE Quiet
  BY <1>3 DEF RelayNext, RelayCheck, RelayEnter, RelayRecv, RelayLags, RelayStop, RelayDrain, Quiet, hostVars
<1>4. ASSUME NEW x \in Stoppers, StopNext(x) PROVE Quiet
  <2>1. CASE StopBegin(x)
    <3>1. admission'.count = admission.count
      BY <2>1 DEF StopBegin, TypeOK, HostTypeOK
    <3> QED
      BY <2>1, <3>1 DEF StopBegin, Quiet
  <2> QED
    BY <1>4, <2>1 DEF StopNext, StopSettings, DrainRegister, DrainCount, DrainWoken, StopDispose, StopOwned,
      StopFlush, StopRelays, StopJoin, StopLoader, StopLegacy, StopRoot, Quiet, hostVars
<1>5. CASE ServerNext
  BY <1>5, ZenonT(30) DEF ServerNext, ClientSends, ServePrompted, ClientLeaves, WriterFails, ServeRequest, ServeShutdown,
    ServeStopped, ServeCleanup, ServeEnds, ServeNote, ServeLags, ServeBye, Signal, ProcessStops, Quiet, hostVars
<1>6. CASE UNCHANGED vars
  BY <1>6 DEF vars, hostVars, Quiet
<1> QED
  BY <1>1, <1>2, <1>3, <1>4, <1>5, <1>6 DEF Next

\* Which calls are inside after each of the four kinds of step.
LEMMA InsideAfter ==
  ASSUME HostTypeOK, NEW c \in Calls
  PROVE  /\ Enters(c) => InsideCalls' = InsideCalls \cup {c} /\ ~InCall(c) /\ InCall(c)' /\ call'[c].at = "admitted"
         /\ Refused(c) => InsideCalls' = InsideCalls /\ ~InCall(c) /\ ~InCall(c)'
         /\ Goes(c) => InsideCalls' = InsideCalls /\ InCall(c) /\ InCall(c)' /\ call'[c].at # "admitted"
         /\ Leaves(c) => InsideCalls' = InsideCalls \ {c} /\ InCall(c) /\ ~InCall(c)'
<1>0. call[c] \in CallType
  BY DEF HostTypeOK
<1>1. ASSUME Enters(c) PROVE call'[c].at = "admitted" /\ \A d \in Calls \ {c} : call'[d] = call[d]
  <2>1. PICK k \in {"ensure", "select"}, s \in Sessions :
          call' = [call EXCEPT ![c] = [call[c] EXCEPT !.at = "admitted", !.kind = k, !.session = s]]
    BY <1>1, ZenonT(30) DEF Enters
  <2>2. call'[c] = [call[c] EXCEPT !.at = "admitted", !.kind = k, !.session = s]
    BY <2>1 DEF HostTypeOK
  <2> QED
    BY <1>0, <1>1, <2>2, CallTypes DEF CallType
<1>2. ASSUME Refused(c) PROVE call'[c].at = "done" /\ \A d \in Calls \ {c} : call'[d] = call[d]
  BY <1>0, <1>2, CallTypes, ZenonT(30) DEF Refused, HostTypeOK, CallType
<1>3. ASSUME Goes(c) PROVE call'[c].at \in Inside \ {"admitted"} /\ \A d \in Calls \ {c} : call'[d] = call[d]
  <2>1. PICK at \in Inside \ {"admitted"} : call' = [call EXCEPT ![c].at = at]
    BY <1>3, ZenonT(30) DEF Goes
  <2>2. call'[c] = [call[c] EXCEPT !.at = at]
    BY <2>1, CallMoves, ZenonT(30)
  <2> QED
    BY <1>0, <1>3, <2>2, CallTypes DEF CallType
<1>4. ASSUME Leaves(c) PROVE call'[c].at = "done" /\ \A d \in Calls \ {c} : call'[d] = call[d]
  <2>1. PICK r \in Results : call' = [call EXCEPT ![c] = [call[c] EXCEPT !.at = "done", !.result = r]]
    BY <1>4, ZenonT(30) DEF Leaves, Return
  <2>2. call'[c] = [call[c] EXCEPT !.at = "done", !.result = r]
    BY <2>1 DEF HostTypeOK
  <2> QED
    BY <1>0, <1>4, <2>2, CallTypes DEF CallType
<1>5. "idle" \notin Inside /\ "done" \notin Inside /\ "admitted" \in Inside
  BY DEF Inside
<1>6. ASSUME Enters(c)
      PROVE  InsideCalls' = InsideCalls \cup {c} /\ ~InCall(c) /\ InCall(c)' /\ call'[c].at = "admitted"
  BY <1>1, <1>5, <1>6, ZenonT(30) DEF InsideCalls, InCall, Enters
<1>7. ASSUME Refused(c) PROVE InsideCalls' = InsideCalls /\ ~InCall(c) /\ ~InCall(c)'
  BY <1>2, <1>5, <1>7 DEF InsideCalls, InCall, Refused
<1>8. ASSUME Goes(c) PROVE InsideCalls' = InsideCalls /\ InCall(c) /\ InCall(c)' /\ call'[c].at # "admitted"
  BY <1>3, <1>5, <1>8, ZenonT(30) DEF InsideCalls, InCall, Goes
<1>9. ASSUME Leaves(c) PROVE InsideCalls' = InsideCalls \ {c} /\ InCall(c) /\ ~InCall(c)'
  BY <1>4, <1>5, <1>9 DEF InsideCalls, InCall, Leaves
<1> QED
  BY <1>6, <1>7, <1>8, <1>9

\* The calls inside are finitely many, and none if their number is zero.
LEMMA InsideFinite ==
  ASSUME HostAssumption
  PROVE  /\ IsFiniteSet(InsideCalls) /\ Cardinality(InsideCalls) \in Nat
         /\ Cardinality(InsideCalls) = 0 <=> InsideCalls = {}
<1>1. IsFiniteSet(InsideCalls)
  BY HostAssumption, FS_Subset DEF HostAssumption, InsideCalls
<1> QED
  BY <1>1, FS_CardinalityType, FS_EmptySet

\* Every step keeps the count and the lock in agreement with the calls.
LEMMA AdmissionStep ==
  ASSUME HostAssumption, TypeOK, AdmissionInv, [Next]_vars
  PROVE  AdmissionInv'
<1>0. HostTypeOK /\ HostTypeOK'
  BY TypeStep DEF TypeOK
<1>1. CASE Quiet
  BY <1>1 DEF Quiet, AdmissionInv, InsideCalls, InCall
<1>2. ASSUME NEW c \in Calls, CallNext(c) PROVE AdmissionInv'
  <2> DEFINE n == Cardinality(InsideCalls)
  <2>0. c # None
    BY HostAssumption DEF HostAssumption
  <2>1. n \in Nat /\ admission.count = n /\ IsFiniteSet(InsideCalls) /\ (n = 0 <=> InsideCalls = {})
    BY InsideFinite DEF AdmissionInv
  <2>2. \A d \in Calls \ {c} : call'[d] = call[d]
    BY <1>0, <1>2, CallSteps, CallTypes
  <2>3. CASE Enters(c)
    <3>1. InsideCalls' = InsideCalls \cup {c} /\ c \notin InsideCalls /\ ~InCall(c) /\ InCall(c)' /\ call'[c].at = "admitted"
      BY <1>0, <2>3, InsideAfter DEF InsideCalls
    <3>2. Cardinality(InsideCalls') = n + 1
      BY <2>1, <3>1, FS_AddElement, ZenonT(30)
    <3>3. admission'.count = admission.count + 1 /\ setup' = setup
      BY <1>0, <2>3 DEF Enters, HostTypeOK
    <3>4. \A d \in Calls : InCall(d)' /\ call'[d].at # "admitted" => setup' = d
      BY <2>2, <3>1, <3>3 DEF AdmissionInv, InCall
    <3>5. setup' # None => InCall(setup)' /\ call'[setup'].at # "admitted"
      BY <1>0, <2>2, <3>1, <3>3 DEF AdmissionInv, InCall, HostTypeOK
    <3> QED
      BY <2>1, <3>1, <3>2, <3>3, <3>4, <3>5 DEF AdmissionInv
  <2>4. CASE Refused(c)
    <3>1. InsideCalls' = InsideCalls /\ ~InCall(c) /\ ~InCall(c)'
      BY <1>0, <2>4, InsideAfter
    <3>2. admission' = admission /\ setup' = setup
      BY <2>4 DEF Refused
    <3>3. \A d \in Calls : InCall(d)' /\ call'[d].at # "admitted" => setup' = d
      BY <2>2, <3>1, <3>2 DEF AdmissionInv, InCall
    <3>4. setup' # None => InCall(setup)' /\ call'[setup'].at # "admitted"
      BY <1>0, <2>2, <3>1, <3>2 DEF AdmissionInv, InCall, HostTypeOK
    <3> QED
      BY <3>1, <3>2, <3>3, <3>4 DEF AdmissionInv
  <2>5. CASE Goes(c)
    <3>1. InsideCalls' = InsideCalls /\ InCall(c) /\ InCall(c)' /\ call'[c].at # "admitted"
      BY <1>0, <2>5, InsideAfter
    <3>2. admission' = admission
      BY <2>5 DEF Goes
    <3>3. setup' = c /\ setup \in {None, c}
      BY <2>5, <3>1 DEF Goes, AdmissionInv
    <3>4. \A d \in Calls : InCall(d)' /\ call'[d].at # "admitted" => setup' = d
      <4> SUFFICES ASSUME NEW d \in Calls, d # c, InCall(d), call[d].at # "admitted" PROVE FALSE
        BY <2>2, <3>3 DEF InCall
      <4> QED
        BY HostAssumption, <3>3 DEF HostAssumption, AdmissionInv
    <3> QED
      BY <3>1, <3>2, <3>3, <3>4 DEF AdmissionInv
  <2>6. CASE Leaves(c)
    <3>1. InsideCalls' = InsideCalls \ {c} /\ c \in InsideCalls /\ InCall(c) /\ ~InCall(c)'
      BY <1>0, <2>6, InsideAfter DEF InsideCalls
    <3>2. Cardinality(InsideCalls') = n - 1 /\ n # 0
      <4>1. Cardinality(InsideCalls') = n - 1
        BY <2>1, <3>1, FS_RemoveElement, ZenonT(30)
      <4>2. n # 0
        BY <2>1, <3>1, FS_EmptySet, ZenonT(30)
      <4> QED
        BY <4>1, <4>2
    <3>3. admission'.count = IF admission.count = 0 THEN 0 ELSE admission.count - 1
      BY <1>0, <2>6 DEF Leaves, Return, Released, HostTypeOK
    <3>4. setup' = IF setup = c THEN None ELSE setup
      BY <2>6 DEF Leaves, Return
    <3>5. admission'.count = Cardinality(InsideCalls')
      BY <2>1, <3>2, <3>3
    <3>6. \A d \in Calls : InCall(d)' /\ call'[d].at # "admitted" => setup' = d
      BY <2>2, <3>1, <3>4 DEF AdmissionInv, InCall
    <3>7. setup' # None => InCall(setup)' /\ call'[setup'].at # "admitted"
      BY <1>0, <2>2, <3>4 DEF AdmissionInv, InCall, HostTypeOK
    <3> QED
      BY <3>5, <3>6, <3>7 DEF AdmissionInv
  <2> QED
    BY <1>2, <2>3, <2>4, <2>5, <2>6, CallSteps
<1> QED
  BY <1>1, <1>2, QuietSteps

\* Before boot nobody is inside.
LEMMA AdmissionInit == Init => AdmissionInv
<1> SUFFICES ASSUME Init PROVE AdmissionInv
  OBVIOUS
<1>1. InsideCalls = {}
  BY DEF Init, InsideCalls, InCall, Inside
<1>2. \A c \in Calls : ~InCall(c)
  BY <1>1 DEF InsideCalls
<1>3. Cardinality(InsideCalls) = 0
  BY <1>1, FS_EmptySet
<1> QED
  BY <1>2, <1>3 DEF Init, AdmissionInv

-----------------------------------------------------------------------------
(* The shutdown lock and who closes the host *)

\* The shutdown lock has one holder; a host is closing from the moment a closer takes
\* it; the closer is not overtaken; the server and the process shut down in turn.
GateInv ==
  /\ \A x \in Stoppers : (stopper[x].at \in Holding) <=> (gate = x)
  /\ \A x \in Stoppers : stopper[x].at \in Holding \cup {"returned"} \/ stopper[x].closer => admission.closing
  /\ \A x \in Stoppers : stopper[x].at # "idle" => Up
  /\ \A x \in Stoppers : stopper[x].at \in {"settings"} \cup Drained => stopper[x].closer
  /\ \A x, y \in Stoppers : stopper[x].at \in Holding /\ stopper[x].closer => stopper[y].at # "returned"
  /\ server.at \in {"off", "serve", "calling", "draining"} => StopAt("sdk", "idle")
  /\ server.at \notin {"returned", "gone"} => StopAt("process", "idle")
  /\ cut => server.at = "gone"
  /\ server.at = "off" <=> ~Up
  /\ admission.closing => Up

\* What a step of a shutdown that holds the lock does: it goes on, or it returns.
StopsInside(x) ==
  /\ stopper[x].at \in Holding /\ stopper'[x].at \in Holding
  /\ stopper'[x].at \in {"settings"} \cup Drained => stopper[x].closer \/ stopper[x].at \in {"settings"} \cup Drained
  /\ UNCHANGED <<admission, gate>>
StopsAtLast(x) ==
  /\ stopper[x].at \in Holding /\ stopper'[x].at = "returned"
  /\ gate' = None /\ UNCHANGED admission

\* Each action of a shutdown takes the lock, goes on under it or gives it back.
LEMMA StopKinds ==
  ASSUME TypeOK, NEW x \in Stoppers, StopNext(x)
  PROVE  /\ \A y \in Stoppers : y # x => stopper'[y] = stopper[y]
         /\ UNCHANGED <<boot, cut, sdkVars, call, setup, orphaned, changes, relay>>
         /\ \/ StopBegin(x)
            \/ StopsInside(x) /\ stopper'[x].closer = stopper[x].closer
            \/ StopsAtLast(x) /\ stopper'[x].closer = stopper[x].closer
<1> USE DEF TypeOK, Holding, Drained, StopAt, StopsInside, StopsAtLast
<1>0. stopper[x] \in StopType
  BY DEF StopTypeOK
<1>1. UNCHANGED <<boot, cut, sdkVars, call, setup, orphaned, changes, relay>>
  BY DEF StopNext, StopBegin, StopSettings, DrainRegister, DrainCount, DrainWoken, StopDispose, StopOwned,
    StopFlush, StopRelays, StopJoin, StopLoader, StopLegacy, StopRoot, hostVars, relayVars
<1>2. CASE StopBegin(x)
  <2>1. \A y \in Stoppers : y # x => stopper'[y] = stopper[y]
    BY <1>2 DEF StopBegin, StopTypeOK
  <2> QED
    BY <1>1, <1>2, <2>1
<1>3. CASE StopSettings(x) \/ DrainWoken(x) \/ StopOwned(x) \/ StopRelays(x) \/ StopJoin(x)
  <2>1. PICK at \in {"drain", "flush", "join", "unload"} :
          /\ StopGoto(x, at) /\ stopper[x].at \in Holding
          /\ at # "drain" => stopper[x].at \in Drained
    BY <1>3 DEF StopSettings, DrainWoken, StopOwned, StopRelays, StopJoin
  <2>2. at \in StopPoints
    BY DEF StopPoints
  <2>3. stopper'[x] = [stopper[x] EXCEPT !.at = at] /\ \A y \in Stoppers : y # x => stopper'[y] = stopper[y]
    BY <2>1, <2>2, StopMoves
  <2>4. stopper'[x].at = at /\ stopper'[x].closer = stopper[x].closer
    BY <1>0, <2>3 DEF StopType
  <2>5. StopsInside(x)
    <3>1. UNCHANGED <<admission, gate>>
      BY <1>3 DEF StopSettings, DrainWoken, StopOwned, StopRelays, StopJoin, hostVars
    <3> QED
      BY <2>1, <2>4, <3>1
  <2> QED
    BY <1>1, <2>3, <2>4, <2>5
<1>4. CASE DrainRegister(x)
  <2>1. stopper' = [stopper EXCEPT ![x] = [stopper[x] EXCEPT !.at = "count", !.seen = admission.drains]]
    BY <1>4 DEF DrainRegister
  <2>2. stopper'[x] = [stopper[x] EXCEPT !.at = "count", !.seen = admission.drains] /\ \A y \in Stoppers : y # x => stopper'[y] = stopper[y]
    BY <2>1 DEF StopTypeOK
  <2>3. stopper'[x].at = "count" /\ stopper'[x].closer = stopper[x].closer
    BY <1>0, <2>2 DEF StopType
  <2> QED
    BY <1>1, <1>4, <2>2, <2>3 DEF DrainRegister, hostVars
<1>5. CASE DrainCount(x)
  <2>1. PICK at \in {"wait", "dispose", "returned"} :
          /\ StopGoto(x, at)
          /\ at = "dispose" => stopper[x].closer
          /\ gate' = IF at = "returned" THEN None ELSE gate
    BY <1>5 DEF DrainCount, StopReturn
  <2>2. at \in StopPoints
    BY DEF StopPoints
  <2>3. stopper'[x] = [stopper[x] EXCEPT !.at = at] /\ \A y \in Stoppers : y # x => stopper'[y] = stopper[y]
    BY <2>1, <2>2, StopMoves
  <2>4. stopper'[x].at = at /\ stopper'[x].closer = stopper[x].closer
    BY <1>0, <2>3 DEF StopType
  <2> QED
    BY <1>1, <1>5, <2>1, <2>3, <2>4 DEF DrainCount, hostVars
<1>6. CASE StopDispose(x) \/ StopFlush(x) \/ StopLoader(x) \/ StopLegacy(x)
  <2>1. PICK at \in {"owned", "relays", "legacy_stop", "root"}, step \in Closings : Closes(x, step, at)
    BY <1>6 DEF StopDispose, StopFlush, StopLoader, StopLegacy, Closings
  <2>2. at \in StopPoints
    BY DEF StopPoints
  <2>3. /\ stopper'[x].at = at /\ stopper'[x].closer = stopper[x].closer
        /\ \A y \in Stoppers : y # x => stopper'[y] = stopper[y]
    BY <2>1, <2>2, StopCloses
  <2> QED
    BY <1>0, <1>1, <1>6, <2>1, <2>3, ZenonT(30) DEF StopDispose, StopFlush, StopLoader, StopLegacy, hostVars
<1>7. CASE StopRoot(x)
  <2>1. "returned" \in StopPoints /\ "root" \in Closings /\ Closes(x, "root", "returned")
    BY <1>7 DEF StopRoot, StopPoints, Closings
  <2>2. /\ stopper'[x].at = "returned" /\ stopper'[x].closer = stopper[x].closer
        /\ \A y \in Stoppers : y # x => stopper'[y] = stopper[y]
    BY <2>1, StopCloses
  <2> QED
    BY <1>0, <1>1, <1>7, <2>2 DEF StopRoot
<1> QED
  BY <1>2, <1>3, <1>4, <1>5, <1>6, <1>7, ZenonT(30) DEF StopNext

\* What the actions of a shutdown take away, and which of them stops the relays.
LEMMA StopEffects ==
  ASSUME NEW x \in Stoppers, StopNext(x)
  PROVE  /\ made' \subseteq made /\ \A s \in Sessions : held'[s] \subseteq held[s]
         /\ held' = held \/ stopper[x].at \in {"dispose", "owned"}
         /\ stops' = stops \/ StopRelays(x)
<1> USE DEF hostVars, relayVars, StopAt
<1>1. CASE StopBegin(x) \/ DrainRegister(x) \/ DrainCount(x) \/ DrainWoken(x) \/ StopFlush(x) \/ StopRelays(x) \/ StopJoin(x)
  BY <1>1 DEF StopBegin, DrainRegister, DrainCount, DrainWoken, StopFlush, StopRelays, StopJoin
<1>2. CASE StopSettings(x) \/ StopLoader(x) \/ StopLegacy(x) \/ StopRoot(x)
  BY <1>2, ZenonT(30) DEF StopSettings, StopLoader, StopLegacy, StopRoot
<1>3. CASE StopDispose(x) \/ StopOwned(x)
  BY <1>3 DEF StopDispose, StopOwned
<1> QED
  BY <1>1, <1>2, <1>3, ZenonT(30) DEF StopNext

\* Before boot nobody has asked for a shutdown.
LEMMA GateInit == Init => GateInv
BY DEF Init, GateInv, Up, StopAt, Stoppers, Holding, Drained

\* A call leaves the shutdowns alone, and only the SDK's own prompts move its server.
LEMMA CallApart ==
  ASSUME TypeOK, NEW c \in Calls, CallNext(c)
  PROVE  /\ UNCHANGED <<boot, made, stopper, gate, cut, relayVars, wire>>
         /\ admission'.closing = admission.closing
         /\ \/ server'.at = server.at
            \/ server.at = "serve" /\ server'.at = "calling"
            \/ server.at = "calling" /\ server'.at = "gone"
         /\ server'.shown = server.shown
<1>1. UNCHANGED <<boot, made, stopper, gate, cut, relayVars>>
  BY CallSteps DEF stopVars
<1>2. admission'.closing = admission.closing
  BY CallSteps, ZenonT(30) DEF TypeOK, HostTypeOK, Enters, Refused, Goes, Leaves, Return, Released
<1>3. CASE ServePrompt(c)
  BY <1>1, <1>2, <1>3 DEF ServePrompt, Taken, TypeOK, SdkTypeOK, ServerType
<1>4. CASE SignalInCall(c)
  BY <1>1, <1>2, <1>4 DEF SignalInCall, TypeOK, SdkTypeOK, ServerType
<1>5. CASE UNCHANGED sdkVars
  BY <1>1, <1>2, <1>5 DEF sdkVars
<1> QED
  BY <1>3, <1>4, <1>5, ZenonT(30) DEF CallNext, Call, EnsureBegin, Create, Pin, Install, Drive, SelectLocked,
    SelectBegin, SelectRelease, SelectDispose, SelectEvent, Abandon

\* A call leaves the shutdown lock alone.
LEMMA GateCall == ASSUME TypeOK, GateInv, NEW c \in Calls, CallNext(c) PROVE GateInv'
BY CallApart DEF GateInv, StopAt, Up

\* The actions of a shutdown keep the lock exclusive.
LEMMA GateStop == ASSUME TypeOK, GateInv, NEW x \in Stoppers, StopNext(x) PROVE GateInv'
<1> USE DEF StopAt, Up
<1>0. /\ \A y \in Stoppers : y # x => stopper'[y] = stopper[y]
      /\ boot' = boot /\ cut' = cut /\ server' = server
      /\ x # None /\ \A y \in Stoppers : y # None
  BY StopKinds DEF sdkVars, Stoppers
<1>1. CASE StopBegin(x)
  <2>1. stopper'[x].at = IF admission.closing THEN "drain" ELSE "settings"
    BY <1>1 DEF StopBegin, TypeOK, StopTypeOK, StopType
  <2>2. stopper'[x].closer = ~admission.closing
    BY <1>1 DEF StopBegin, TypeOK, StopTypeOK, StopType
  <2>3. admission'.closing = TRUE
    BY <1>1 DEF StopBegin, TypeOK, HostTypeOK
  <2>4. gate' = x /\ gate = None /\ stopper[x].at = "lock"
    BY <1>1 DEF StopBegin
  <2>5. stopper'[x].at \in Holding /\ stopper'[x].at \notin Drained
        /\ "returned" \notin Holding /\ "idle" \notin Holding
    BY <2>1 DEF Holding, Drained
  <2>6. admission.closing \in BOOLEAN
    BY DEF TypeOK, HostTypeOK
  <2>7. \A y \in Stoppers : y # x => stopper[y].at \notin Holding
    BY <1>0, <2>4, ZenonT(30) DEF GateInv
  <2>8. server.at \notin {"off", "serve", "calling", "draining"} \/ x # "sdk"
    BY <2>4 DEF GateInv
  <2>9. server.at \in {"returned", "gone"} \/ x # "process"
    BY <2>4 DEF GateInv
  <2>10. \A y \in Stoppers : (stopper'[y].at \in Holding) <=> (gate' = y)
    BY <1>0, <2>4, <2>5, <2>7
  <2>11. \A y \in Stoppers : stopper'[y].at # "idle" => boot'.at = "up"
    BY <1>0, <2>4 DEF GateInv
  <2>12. \A y \in Stoppers : stopper'[y].at \in {"settings"} \cup Drained => stopper'[y].closer
    BY <1>0, <2>1, <2>2, <2>5, <2>6, ZenonT(30) DEF GateInv
  <2>13. \A y, z \in Stoppers : stopper'[y].at \in Holding /\ stopper'[y].closer => stopper'[z].at # "returned"
    BY <1>0, <2>2, <2>4, <2>5, <2>6, <2>10, ZenonT(30) DEF GateInv
  <2>14. server'.at \in {"off", "serve", "calling", "draining"} => stopper'["sdk"].at = "idle"
    BY <1>0, <2>8 DEF GateInv, Stoppers
  <2>15. server'.at \notin {"returned", "gone"} => stopper'["process"].at = "idle"
    BY <1>0, <2>9 DEF GateInv, Stoppers
  <2> QED
    BY <1>0, <2>3, <2>4, <2>10, <2>11, <2>12, <2>13, <2>14, <2>15, ZenonT(30) DEF GateInv
<1>2. CASE StopsInside(x) /\ stopper'[x].closer = stopper[x].closer
  <2>1. stopper[x].at \in Holding /\ stopper'[x].at \in Holding /\ admission' = admission /\ gate' = gate
        /\ "returned" \notin Holding /\ "idle" \notin Holding
        /\ (stopper'[x].at \in {"settings"} \cup Drained => stopper'[x].closer)
    BY <1>2 DEF StopsInside, Holding, GateInv
  <2> QED
    BY <1>0, <1>2, <2>1, ZenonT(30) DEF GateInv, Stoppers
<1>3. CASE StopsAtLast(x) /\ stopper'[x].closer = stopper[x].closer
  <2>1. stopper[x].at \in Holding /\ stopper'[x].at = "returned" /\ admission' = admission /\ gate' = None
        /\ gate = x /\ "returned" \notin Holding /\ "returned" \notin Drained /\ "idle" \notin Holding
    BY <1>3 DEF StopsAtLast, Holding, Drained, GateInv
  <2>2. \A y \in Stoppers : stopper'[y].at \notin Holding
    BY <1>0, <2>1 DEF GateInv
  <2>3. Drained \subseteq Holding /\ "settings" \in Holding
    BY DEF Holding, Drained
  <2>4. admission.closing /\ Up
    BY <2>1 DEF GateInv
  <2>5. server'.at \in {"off", "serve", "calling", "draining"} => stopper'["sdk"].at = "idle"
    BY <1>0, <2>1 DEF GateInv, Stoppers
  <2>6. server'.at \notin {"returned", "gone"} => stopper'["process"].at = "idle"
    BY <1>0, <2>1 DEF GateInv, Stoppers
  <2> QED
    BY <1>0, <2>1, <2>2, <2>3, <2>4, <2>5, <2>6, ZenonT(30) DEF GateInv
<1> QED
  BY <1>1, <1>2, <1>3, StopKinds

\* The moves of the server: it answers or ends, starts a shutdown, sees one
\* return, is dropped by a signal, or the process goes on to its own shutdown.
ServerGoes ==
  /\ UNCHANGED <<hostVars, stopVars>>
  /\ server'.at \notin {"gone", "off"} /\ server.at \notin {"gone", "off"}
  /\ \/ server'.at = server.at
     \/ server.at \in {"serve", "calling"} /\ server'.at \in {"serve", "returned"}
     \/ server.at \in {"cleanup", "draining"} /\ server'.at = "returned"
Moves(x, from, to) ==
  /\ stopper[x].at = from /\ stopper'[x].at = to
  /\ \A y \in Stoppers : stopper'[y].closer = stopper[y].closer /\ stopper'[y].failures = stopper[y].failures
                         /\ (y # x => stopper'[y] = stopper[y])
ServerAsks ==
  /\ Moves("sdk", stopper["sdk"].at, "lock") /\ UNCHANGED <<hostVars, gate, cut>>
  /\ server.at = "serve" /\ server'.at \in {"stopping", "cleanup"}
ServerSees ==
  /\ Moves("sdk", "returned", "idle") /\ UNCHANGED <<hostVars, gate, cut>>
  /\ server.at = "stopping" /\ server'.at \in {"draining", "serve", "returned"}
ProcessAsks ==
  /\ Moves("process", "idle", "lock") /\ UNCHANGED <<hostVars, gate, cut>>
  /\ server' = server /\ server.at \in {"returned", "gone"}
ServerDropped ==
  /\ Moves("sdk", stopper["sdk"].at, "dropped")
  /\ server.at \in Serving /\ server'.at = "gone"
  /\ gate' = IF gate = "sdk" THEN None ELSE gate
  /\ cut' = (cut \/ (gate = "sdk" /\ stopper["sdk"].closer))
  /\ made' \subseteq made /\ \A s \in Sessions : held'[s] \subseteq held[s]
  /\ UNCHANGED <<boot, admission, setup, call, orphaned>>

\* Moving a shutdown changes only where it is.
LEMMA StopGotoMoves ==
  ASSUME StopTypeOK, NEW x \in Stoppers, NEW where \in StopPoints, StopGoto(x, where)
  PROVE  Moves(x, stopper[x].at, where)
<1>1. stopper[x] \in StopType /\ \A y \in Stoppers : stopper[y] \in StopType
  BY DEF StopTypeOK
<1>2. stopper'[x] = [stopper[x] EXCEPT !.at = where] /\ \A y \in Stoppers : y # x => stopper'[y] = stopper[y]
  BY StopMoves
<1>3. stopper'[x].at = where /\ stopper'[x].closer = stopper[x].closer /\ stopper'[x].failures = stopper[x].failures
  BY <1>1, <1>2 DEF StopType
<1> QED
  BY <1>2, <1>3, ZenonT(30) DEF Moves

\* Each action of the server is one of these moves, and leaves the relays alone.
LEMMA ServerKinds ==
  ASSUME TypeOK, ServerNext
  PROVE  /\ ServerGoes \/ ServerAsks \/ ServerSees \/ ProcessAsks \/ ServerDropped
         /\ UNCHANGED relayVars
<1> USE DEF Serving
<1>0. /\ StopTypeOK /\ server \in ServerType
      /\ {"lock", "idle", "dropped"} \subseteq StopPoints /\ "sdk" \in Stoppers /\ "process" \in Stoppers
  BY DEF TypeOK, SdkTypeOK, StopPoints, Stoppers
<1>r. UNCHANGED relayVars
  BY ZenonT(30) DEF ServerNext, ClientSends, ServePrompted, ClientLeaves, WriterFails, ServeRequest, ServeShutdown,
    ServeStopped, ServeCleanup, ServeEnds, ServeNote, ServeLags, ServeBye, Signal, ProcessStops
<1>1. ASSUME NEW f \in Frames, ClientSends(f) PROVE ServerGoes
  BY <1>0, <1>1 DEF ClientSends, ServerGoes, ServerType
<1>2. ASSUME NEW c \in Calls, ServePrompted(c) PROVE ServerGoes
  BY <1>0, <1>2 DEF ServePrompted, Answer, ServerGoes, ServerType
<1>3. CASE ClientLeaves \/ WriterFails \/ ServeNote \/ ServeLags
  BY <1>0, <1>3 DEF ClientLeaves, WriterFails, ServeNote, ServeLags, ServerGoes, ServerType
<1>4. CASE ServeRequest
  BY <1>0, <1>4 DEF ServeRequest, Answer, Taken, ServerGoes, ServerType
<1>5. CASE ServeEnds \/ ServeBye
  BY <1>0, <1>5 DEF ServeEnds, ServeBye, ServerGoes, ServerType
<1>6. CASE ServeShutdown \/ ServeCleanup
  <2>1. StopGoto("sdk", "lock") /\ server.at = "serve" /\ UNCHANGED <<hostVars, gate, cut>>
    BY <1>6 DEF ServeShutdown, ServeCleanup
  <2>2. server'.at \in {"stopping", "cleanup"}
    BY <1>0, <1>6, ZenonT(30) DEF ServeShutdown, ServeCleanup, Taken, ServerType
  <2> QED
    BY <1>0, <1>r, <2>1, <2>2, StopGotoMoves DEF ServerAsks
<1>7. CASE ServeStopped
  <2>1. StopGoto("sdk", "idle") /\ server.at = "stopping" /\ stopper["sdk"].at = "returned" /\ UNCHANGED <<hostVars, gate, cut>>
    BY <1>7 DEF ServeStopped, StopAt
  <2>2. server'.at \in {"draining", "serve", "returned"}
    BY <1>0, <1>7 DEF ServeStopped, Answer, ServerType
  <2>3. Moves("sdk", stopper["sdk"].at, "idle")
    BY <1>0, <2>1, StopGotoMoves
  <2> QED
    BY <1>r, <2>1, <2>2, <2>3 DEF ServerSees
<1>8. CASE ProcessStops
  <2>1. StopGoto("process", "lock") /\ UNCHANGED <<hostVars, gate, cut>> /\ server' = server
        /\ server.at \in {"returned", "gone"} /\ stopper["process"].at = "idle"
    BY <1>8 DEF ProcessStops, StopAt, sdkVars
  <2>2. Moves("process", stopper["process"].at, "lock")
    BY <1>0, <2>1, StopGotoMoves
  <2> QED
    BY <1>r, <2>1, <2>2 DEF ProcessAsks
<1>9. CASE Signal
  <2>1. Moves("sdk", stopper["sdk"].at, "dropped")
    BY <1>0, <1>9, StopGotoMoves DEF Signal
  <2>2. server'.at = "gone" /\ server.at \in Serving
    BY <1>0, <1>9 DEF Signal, ServerType
  <2>3. made' \subseteq made
    BY <1>9 DEF Signal
  <2>4. \A s \in Sessions : held'[s] \subseteq held[s]
    BY <1>9 DEF Signal
  <2> QED
    BY <1>9, <1>r, <2>1, <2>2, <2>3, <2>4 DEF Signal, ServerDropped
<1> QED
  BY <1>r, <1>1, <1>2, <1>3, <1>4, <1>5, <1>6, <1>7, <1>8, <1>9 DEF ServerNext

\* The actions of the server keep the lock exclusive.
LEMMA GateServer == ASSUME TypeOK, GateInv, ServerNext PROVE GateInv'
<1> USE DEF StopAt, Up, Moves, Stoppers, Serving, Holding, Drained
<1>0. cut \in BOOLEAN /\ gate \in Stoppers \cup {None}
  BY DEF TypeOK, StopTypeOK
<1>1. CASE ServerGoes
  BY <1>1, ZenonT(30) DEF ServerGoes, GateInv, hostVars, stopVars
<1>2. CASE ServerAsks
  BY <1>2, ZenonT(30) DEF ServerAsks, GateInv, hostVars
<1>3. CASE ServerSees
  BY <1>3, ZenonT(30) DEF ServerSees, GateInv, hostVars
<1>4. CASE ProcessAsks
  BY <1>4 DEF ProcessAsks, GateInv, hostVars
<1>5. CASE ServerDropped
  BY <1>0, <1>5, ZenonT(30) DEF ServerDropped, GateInv
<1> QED
  BY <1>1, <1>2, <1>3, <1>4, <1>5, ServerKinds

\* The steps of boot come before everything else.
LEMMA BootApart ==
  ASSUME TypeOK, BootNext
  PROVE  /\ UNCHANGED <<admission, setup, call, held, orphaned, stopVars, changes, stops, wire>>
         /\ boot.at # "up"
         /\ \/ BootBind
            \/ boot'.at # "up" /\ UNCHANGED <<relay, server>>
<1>1. boot \in [at : Stages, failed : Stages \cup {None}]
  BY DEF TypeOK, HostTypeOK
<1> QED
  BY <1>1 DEF BootNext, BootConfig, BootModes, BootSettings, BootNamespaces, BootServices, BootTools,
    BootLegacy, BootComposition, BootLoader, BootFactory, BootStage, BootBind, relayVars, sdkVars

\* Every step keeps the lock exclusive.
LEMMA GateStep == ASSUME TypeOK, GateInv, [Next]_vars PROVE GateInv'
<1>1. CASE BootNext
  <2>1. CASE BootBind
    <3>1. boot'.at = "up" /\ server'.at = "serve"
      BY <2>1 DEF BootBind, TypeOK, HostTypeOK, SdkTypeOK, ServerType
    <3> QED
      BY <1>1, <2>1, <3>1, BootApart DEF BootBind, GateInv, Up, StopAt, stopVars
  <2>2. CASE ~ BootBind
    <3>1. /\ admission' = admission /\ gate' = gate /\ stopper' = stopper /\ cut' = cut
          /\ server' = server /\ boot.at # "up" /\ boot'.at # "up"
      BY <1>1, <2>2, BootApart DEF stopVars
    <3> QED
      BY <3>1, ZenonT(30) DEF GateInv, Up, StopAt
  <2> QED
    BY <2>1, <2>2
<1>2. CASE Change \/ (\E r \in Relays : RelayNext(r)) \/ UNCHANGED vars
  <2>1. UNCHANGED <<hostVars, stopVars, sdkVars>>
    BY <1>2, RestApart
  <2> QED
    BY <2>1, ZenonT(30) DEF hostVars, stopVars, sdkVars, GateInv, Up, StopAt
<1> QED
  BY <1>1, <1>2, GateServer, GateCall, GateStop DEF Next

-----------------------------------------------------------------------------
(* The wait for the admitted calls *)

\* A shutdown that waits is owed a notice or has been given one; one that has
\* gone past the wait has seen the last call leave.
DrainInv ==
  \A x \in Stoppers :
    /\ stopper[x].at \in {"count", "wait"} => stopper[x].seen <= admission.drains
    /\ StopAt(x, "wait") => admission.count > 0 \/ admission.drains > stopper[x].seen
    /\ stopper[x].at \in Drained => admission.count = 0

\* Before boot nobody waits.
LEMMA DrainInit == Init => DrainInv
BY DEF Init, DrainInv, Drained, StopAt, Stoppers

\* While the host is closing its admitted calls only leave, and the last one
\* to leave gives notice.
LEMMA CallsLeave ==
  ASSUME TypeOK, NEW c \in Calls, CallNext(c), admission.closing
  PROVE  /\ admission'.count <= admission.count /\ admission'.drains >= admission.drains
         /\ admission'.count = 0 => admission.count = 0 \/ admission'.drains > admission.drains
<1>1. admission \in [closing : BOOLEAN, count : Nat, drains : Nat]
  BY DEF TypeOK, HostTypeOK
<1>2. CASE admission' = Released
  <2>1. /\ admission'.count = IF admission.count = 0 THEN 0 ELSE admission.count - 1
        /\ admission'.drains = IF admission.count <= 1 THEN admission.drains + 1 ELSE admission.drains
    BY <1>1, <1>2 DEF Released
  <2> QED
    BY <1>1, <2>1
<1>3. CASE admission' = admission
  BY <1>1, <1>3
<1> QED
  BY <1>2, <1>3, CallSteps, ZenonT(30) DEF Enters, Refused, Goes, Leaves, Return

\* The actions of a shutdown keep its wait sound.
LEMMA DrainStop == ASSUME TypeOK, GateInv, DrainInv, NEW x \in Stoppers, StopNext(x) PROVE DrainInv'
<1> USE DEF StopAt, Holding, Drained
<1>0. stopper[x] \in StopType /\ admission \in [closing : BOOLEAN, count : Nat, drains : Nat]
  BY DEF TypeOK, StopTypeOK, HostTypeOK
<1> DEFINE D(y) == /\ stopper[y].at \in {"count", "wait"} => stopper[y].seen <= admission.drains
                   /\ stopper[y].at = "wait" => admission.count > 0 \/ admission.drains > stopper[y].seen
                   /\ stopper[y].at \in Drained => admission.count = 0
<1>1. ASSUME NEW y \in Stoppers, y # x PROVE D(y)'
  <2>1. stopper'[y] = stopper[y] /\ stopper[y].at \notin Holding
    BY <1>1, StopKinds DEF GateInv, StopBegin, StopsInside, StopsAtLast, Stoppers
  <2> QED
    BY <2>1
<1>2. D(x)'
  <2>0. D(x)
    BY DEF DrainInv
  <2>1. CASE StopBegin(x)
    <3>1. stopper'[x].at \in {"drain", "settings"}
      BY <1>0, <2>1 DEF StopBegin, StopType, TypeOK, StopTypeOK
    <3> QED
      BY <3>1
  <2>2. CASE StopSettings(x) \/ DrainWoken(x) \/ StopOwned(x) \/ StopRelays(x) \/ StopJoin(x)
    <3>1. PICK at \in {"drain", "flush", "join", "unload"} :
            /\ StopGoto(x, at) /\ admission' = admission
            /\ at # "drain" => stopper[x].at \in Drained
      BY <2>2 DEF StopSettings, DrainWoken, StopOwned, StopRelays, StopJoin, hostVars
    <3>2. at \in StopPoints
      BY DEF StopPoints
    <3>3. stopper'[x] = [stopper[x] EXCEPT !.at = at]
      BY <3>1, <3>2, StopMoves DEF TypeOK
    <3>4. stopper'[x].at = at
      BY <1>0, <3>3 DEF StopType
    <3> QED
      BY <2>0, <3>1, <3>4
  <2>3. CASE DrainRegister(x)
    <3>1. stopper'[x].at = "count" /\ stopper'[x].seen = admission.drains /\ admission' = admission
      BY <1>0, <2>3 DEF DrainRegister, TypeOK, StopTypeOK, StopType, hostVars
    <3> QED
      BY <1>0, <3>1
  <2>4. CASE DrainCount(x)
    <3>1. PICK at \in {"wait", "dispose", "returned"} :
            /\ StopGoto(x, at) /\ admission' = admission
            /\ at = "wait" <=> admission.count > 0
      BY <2>4, ZenonT(30) DEF DrainCount, StopReturn, hostVars
    <3>2. at \in StopPoints
      BY DEF StopPoints
    <3>3. stopper'[x] = [stopper[x] EXCEPT !.at = at]
      BY <3>1, <3>2, StopMoves DEF TypeOK
    <3>4. stopper'[x].at = at /\ stopper'[x].seen = stopper[x].seen
      BY <1>0, <3>3 DEF StopType
    <3>5. stopper[x].at = "count"
      BY <2>4 DEF DrainCount
    <3> QED
      BY <1>0, <2>0, <3>1, <3>4, <3>5
  <2>5. CASE StopDispose(x) \/ StopFlush(x) \/ StopLoader(x) \/ StopLegacy(x) \/ StopRoot(x)
    <3>1. PICK at \in {"owned", "relays", "legacy_stop", "root", "returned"}, step \in Closings : Closes(x, step, at)
      BY <2>5, ZenonT(30) DEF StopDispose, StopFlush, StopLoader, StopLegacy, StopRoot, Closings
    <3>2. at \in StopPoints
      BY DEF StopPoints
    <3>3. stopper'[x].at = at
      BY <3>1, <3>2, StopCloses DEF TypeOK
    <3>4. stopper[x].at \in Drained /\ admission' = admission
      BY <2>5, ZenonT(30) DEF StopDispose, StopFlush, StopLoader, StopLegacy, StopRoot, hostVars
    <3> QED
      BY <2>0, <3>3, <3>4
  <2> QED
    BY <2>1, <2>2, <2>3, <2>4, <2>5, ZenonT(30) DEF StopNext
<1> QED
  BY <1>1, <1>2 DEF DrainInv

\* Every step keeps the waits sound.
LEMMA DrainStep == ASSUME TypeOK, GateInv, DrainInv, [Next]_vars PROVE DrainInv'
<1> USE DEF StopAt
<1>1. CASE UNCHANGED <<admission, stopper>>
  BY <1>1 DEF DrainInv
<1>2. CASE BootNext
  BY <1>1, <1>2, BootApart DEF stopVars
<1>3. CASE Change \/ (\E r \in Relays : RelayNext(r)) \/ UNCHANGED vars
  BY <1>1, <1>3, RestApart DEF hostVars, stopVars
<1>4. ASSUME NEW c \in Calls, CallNext(c) PROVE DrainInv'
  <2>1. stopper' = stopper
    BY <1>4, CallApart
  <2>2. CASE ~admission.closing
    <3>1. \A x \in Stoppers : stopper'[x].at \notin Holding
      BY <2>1, <2>2 DEF GateInv
    <3> QED
      BY <3>1 DEF DrainInv, Holding, Drained
  <2>3. CASE admission.closing
    <3>1. admission \in [closing : BOOLEAN, count : Nat, drains : Nat]
          /\ admission' \in [closing : BOOLEAN, count : Nat, drains : Nat]
          /\ \A x \in Stoppers : stopper[x].seen \in Nat
      BY TypeStep DEF TypeOK, HostTypeOK, StopTypeOK, StopType
    <3>2. /\ admission'.count <= admission.count /\ admission'.drains >= admission.drains
          /\ admission'.count = 0 => admission.count = 0 \/ admission'.drains > admission.drains
      BY <1>4, <2>3, CallsLeave
    <3> QED
      BY <2>1, <3>1, <3>2 DEF DrainInv
  <2> QED
    BY <2>2, <2>3
<1>5. ASSUME ServerNext PROVE DrainInv'
  <2>1. admission' = admission
    BY <1>5, ServerKinds DEF ServerGoes, ServerAsks, ServerSees, ProcessAsks, ServerDropped, hostVars
  <2>2. \A x \in Stoppers : stopper'[x] = stopper[x] \/ stopper'[x].at \in {"lock", "idle", "dropped"}
    BY <1>5, ServerKinds, ZenonT(30) DEF ServerGoes, ServerAsks, ServerSees, ProcessAsks, ServerDropped, Moves, stopVars
  <2> QED
    BY <2>1, <2>2 DEF DrainInv, Drained
<1> QED
  BY <1>2, <1>3, <1>4, <1>5, DrainStop DEF Next

=============================================================================
