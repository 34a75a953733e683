------------------------ MODULE HostLifecycleProofs ------------------------
(***************************************************************************)
(* The inductive invariant of HostLifecycle and the theorems it gives, for *)
(* any calls, sessions, limits and faults: what a shutdown leaves behind,  *)
(* the drain before it, the limit on live agents, set-ups that are whole,  *)
(* and the answer that the SDK client reads last.                          *)
(***************************************************************************)
EXTENDS HostLifecycleInvariant

USE DEF None

\* Time, and further attempts, for a leaf on a loaded machine.
USE SMTT(30), ZenonT(30), SMTT(40), SMTT(50), SMTT(60)

-----------------------------------------------------------------------------
(* What the closing leaves *)

\* Left is what the steps that failed could not stop.  Each step of the closing
\* relies on what the ones before it have done (ClosingAt); when it is through, or
\* nobody is at it any more, the host is as a finished shutdown leaves it (Final).
Left(f) == (IF "unload" \in f THEN {"plugins"} ELSE {}) \cup (IF "legacy_stop" \in f THEN {"legacy"} ELSE {}) \cup (IF "root" \in f THEN {"root"} ELSE {})
Final ==
  /\ admission.count = 0
  /\ \A s \in Sessions : held[s] \subseteq (IF "dispose" \in Failures THEN {"agent"} ELSE {})
  /\ \A r \in Relays : relay[r].at = "ended"
  /\ made \subseteq Left(Failures)
After(x, steps) == stopper[x].closer /\ stopper[x].at \in steps
ClosingAt(x) ==
  /\ After(x, Holding \ {"settings"}) => "settings" \notin made
  /\ After(x, Drained \ {"dispose"}) => \A s \in Sessions : "agent" \in held[s] => "dispose" \in Failures
  /\ After(x, Drained \ {"dispose", "owned"}) => \A s \in Sessions : held[s] \subseteq {"agent"}
  /\ After(x, {"unload", "legacy_stop", "root"}) => \A r \in Relays : relay[r].at = "ended"
  /\ After(x, {"legacy_stop", "root"}) => ("plugins" \in made => "unload" \in Failures)
  /\ After(x, {"root"}) => ("legacy" \in made => "legacy_stop" \in Failures)
ClosingInv ==
  /\ admission.closing /\ ~cut => Final \/ \E x \in Stoppers : After(x, Holding)
  /\ \A x \in Stoppers : ClosingAt(x)

\* Failures that were noted stay noted.
LEMMA FailuresStay ==
  ASSUME TypeOK, [Next]_vars
  PROVE  Failures \subseteq Failures'
<1>0. StopTypeOK /\ "sdk" \in Stoppers /\ "process" \in Stoppers
  BY DEF TypeOK, Stoppers
<1>1. ASSUME \A y \in Stoppers : stopper[y].failures \subseteq stopper'[y].failures PROVE Failures \subseteq Failures'
  BY <1>0, <1>1 DEF Failures
<1>2. CASE BootNext \/ Change \/ (\E r \in Relays : RelayNext(r)) \/ (\E c \in Calls : CallNext(c)) \/ UNCHANGED vars
  <2>1. stopper' = stopper
    BY <1>2, BootApart, CallApart, RestApart DEF stopVars
  <2> QED
    BY <1>1, <2>1
<1>3. CASE ServerNext
  <2>1. \A y \in Stoppers : stopper'[y].failures = stopper[y].failures
    BY <1>3, ServerKinds DEF ServerGoes, ServerAsks, ServerSees, ProcessAsks, ServerDropped, Moves, stopVars
  <2> QED
    BY <1>1, <2>1
<1>4. ASSUME NEW x \in Stoppers, StopNext(x) PROVE Failures \subseteq Failures'
  <2>0. stopper[x] \in StopType
    BY <1>0 DEF StopTypeOK
  <2>1. CASE StopBegin(x)
    <3>1. stopper'[x].failures = stopper[x].failures
      BY <1>0, <2>0, <2>1 DEF StopBegin, StopTypeOK, StopType
    <3> QED
      BY <1>1, <1>4, <3>1, StopKinds
  <2>2. CASE DrainRegister(x)
    <3>1. stopper'[x].failures = stopper[x].failures
      BY <1>0, <2>0, <2>2 DEF DrainRegister, StopTypeOK, StopType
    <3> QED
      BY <1>1, <1>4, <3>1, StopKinds
  <2>3. ASSUME NEW at \in StopPoints, StopGoto(x, at) PROVE Failures \subseteq Failures'
    BY <1>0, <1>1, <2>3, StopGotoMoves DEF Moves
  <2>4. ASSUME NEW at \in StopPoints, NEW step \in Closings, Closes(x, step, at) PROVE Failures \subseteq Failures'
    BY <1>0, <1>1, <2>4, StopCloses
  <2>5. CASE DrainCount(x)
    BY <2>3, <2>5 DEF DrainCount, StopReturn, StopPoints, Holding
  <2>6. CASE StopSettings(x) \/ DrainWoken(x) \/ StopOwned(x) \/ StopRelays(x) \/ StopJoin(x)
    BY <2>3, <2>6 DEF StopSettings, DrainWoken, StopOwned, StopRelays, StopJoin, StopPoints, Holding
  <2>7. CASE StopDispose(x) \/ StopFlush(x) \/ StopLoader(x) \/ StopLegacy(x) \/ StopRoot(x)
    BY <2>4, <2>7 DEF StopDispose, StopFlush, StopLoader, StopLegacy, StopRoot, StopPoints, Holding, Closings
  <2> QED
    BY <1>4, <2>1, <2>2, <2>5, <2>6, <2>7 DEF StopNext
<1> QED
  BY <1>2, <1>3, <1>4 DEF Next

\* A relay that ended stays ended.
LEMMA RelaysStayEnded ==
  ASSUME TypeOK, [Next]_vars, Up, NEW r \in Relays, relay[r].at = "ended"
  PROVE  relay'[r] = relay[r]
<1>0. relay \in [Relays -> RelayType]
  BY DEF TypeOK, RelayTypeOK
<1>1. ASSUME NEW q \in Relays, RelayNext(q) PROVE relay'[r] = relay[r]
  <2>1. relay[q].at # "ended"
    BY <1>1 DEF RelayNext, RelayCheck, RelayEnter, RelayRecv, RelayLags, RelayStop, RelayDrain
  <2>2. r # q
    BY <2>1
  <2>3. relay'[r] = relay[r]
    BY <1>0, <1>1, <2>2 DEF RelayNext, RelayCheck, RelayEnter, RelayRecv, RelayLags, RelayStop, RelayDrain, Took, Leave, Goto
  <2> QED
    BY <2>3
<1>2. CASE UNCHANGED relay
  BY <1>2
<1>3. CASE BootNext
  BY <1>3, BootApart DEF Up
<1>4. CASE Change \/ UNCHANGED vars
  BY <1>2, <1>4 DEF Change, vars, relayVars
<1>5. CASE ServerNext
  BY <1>2, <1>5, ServerKinds DEF relayVars
<1>6. ASSUME NEW c \in Calls, CallNext(c) PROVE relay'[r] = relay[r]
  BY <1>2, <1>6, CallApart DEF relayVars
<1>7. ASSUME NEW x \in Stoppers, StopNext(x) PROVE relay'[r] = relay[r]
  BY <1>2, <1>7, StopKinds
<1> QED
  BY <1>1, <1>3, <1>4, <1>5, <1>6, <1>7 DEF Next

\* Once the host is up nothing is started any more.
LEMMA MadeShrinks ==
  ASSUME TypeOK, [Next]_vars, Up
  PROVE  made' \subseteq made
<1>3. CASE BootNext
  BY <1>3, BootApart DEF Up
<1>4. CASE Change \/ (\E r \in Relays : RelayNext(r)) \/ UNCHANGED vars
  BY <1>4, RestApart DEF hostVars
<1>5. CASE ServerNext
  BY <1>5, ServerKinds DEF ServerGoes, ServerAsks, ServerSees, ProcessAsks, ServerDropped, hostVars
<1>6. ASSUME NEW c \in Calls, CallNext(c) PROVE made' \subseteq made
  BY <1>6, CallApart
<1>7. ASSUME NEW x \in Stoppers, StopNext(x) PROVE made' \subseteq made
  BY <1>7, StopEffects
<1> QED
  BY <1>3, <1>4, <1>5, <1>6, <1>7 DEF Next

\* Once the host is closed and its calls have left, what is installed for the
\* sessions only goes.
LEMMA HeldShrinks ==
  ASSUME HostAssumption, TypeOK, AdmissionInv, GateInv, [Next]_vars, admission.closing, admission.count = 0
  PROVE  /\ admission'.closing /\ admission'.count = 0
         /\ \A s \in Sessions : held'[s] \subseteq held[s]
<1>0. Up /\ HostTypeOK
  BY DEF GateInv, TypeOK
<1>1. CASE UNCHANGED <<admission, held>>
  BY <1>1
<1>3. CASE BootNext
  BY <1>0, <1>3, BootApart DEF Up
<1>4. CASE Change \/ (\E r \in Relays : RelayNext(r)) \/ UNCHANGED vars
  BY <1>1, <1>4, RestApart DEF hostVars
<1>5. CASE ServerNext
  BY <1>5, ServerKinds DEF ServerGoes, ServerAsks, ServerSees, ProcessAsks, ServerDropped, hostVars
<1>6. ASSUME NEW c \in Calls, CallNext(c) PROVE UNCHANGED <<admission, held>>
  <2>1. ~InCall(c)
    BY InsideFinite DEF AdmissionInv, InsideCalls
  <2>2. ~Enters(c) /\ ~Goes(c) /\ ~Leaves(c)
    BY <1>0, <2>1, InsideAfter DEF Enters
  <2>3. Refused(c)
    BY <1>6, <2>2, CallSteps
  <2> QED
    BY <2>3 DEF Refused
<1>7. ASSUME NEW x \in Stoppers, StopNext(x) PROVE admission' = admission /\ \A s \in Sessions : held'[s] \subseteq held[s]
  <2>1. admission' = admission
    BY <1>7, StopKinds, ZenonT(30) DEF StopBegin, StopsInside, StopsAtLast
  <2>2. \A s \in Sessions : held'[s] \subseteq held[s]
    BY <1>7, StopEffects
  <2> QED
    BY <2>1, <2>2
<1> QED
  BY <1>1, <1>3, <1>4, <1>5, <1>6, <1>7 DEF Next

\* What the closing has done stays done while it is where it was.
LEMMA ClosingKept ==
  ASSUME HostAssumption, TypeOK, AdmissionInv, GateInv, DrainInv, [Next]_vars,
         NEW x \in Stoppers, ClosingAt(x), stopper'[x] = stopper[x]
  PROVE  ClosingAt(x)'
<1>1. CASE ~After(x, Holding)
  BY <1>1 DEF ClosingAt, After, Holding, Drained
<1>2. CASE After(x, Holding)
  <2>1. admission.closing /\ Up
    BY <1>2 DEF After, GateInv
  <2>2. made' \subseteq made /\ Failures \subseteq Failures'
    BY <2>1, MadeShrinks, FailuresStay
  <2>3. After(x, Drained) => \A s \in Sessions : held'[s] \subseteq held[s]
    BY <2>1, HeldShrinks DEF After, DrainInv
  <2>4. \A r \in Relays : relay[r].at = "ended" => relay'[r].at = "ended"
    BY <2>1, RelaysStayEnded
  <2>5. {"unload", "legacy_stop", "root"} \subseteq Drained
    BY DEF Drained
  <2>6. (\A r \in Relays : relay[r].at = "ended") => (\A r \in Relays : relay'[r].at = "ended")
    BY <2>4
  <2>7. After(x, Drained \ {"dispose"}) =>
          \A s \in Sessions : "agent" \in held'[s] => "dispose" \in Failures'
    BY <2>2, <2>3 DEF ClosingAt, After
  <2>8. After(x, Drained \ {"dispose", "owned"}) => \A s \in Sessions : held'[s] \subseteq {"agent"}
    BY <2>3 DEF ClosingAt, After
  <2> QED
    BY <2>2, <2>6, <2>7, <2>8 DEF ClosingAt, After
<1> QED
  BY <1>1, <1>2

\* Each step of the closing establishes what the next ones rely on.
LEMMA ClosingStop ==
  ASSUME HostAssumption, TypeOK, AdmissionInv, GateInv, DrainInv, NEW x \in Stoppers, StopNext(x), ClosingAt(x)
  PROVE  ClosingAt(x)'
<1> USE DEF StopAt
<1>0. StopTypeOK /\ stopper[x] \in StopType /\ RelayTypeOK /\ HostTypeOK /\ [Next]_vars
  BY DEF TypeOK, StopTypeOK, Next
<1>1. CASE StopBegin(x)
  <2>1. stopper'[x].at = "settings" \/ (stopper'[x].at = "drain" /\ ~stopper'[x].closer)
    BY <1>0, <1>1, ZenonT(30) DEF StopBegin, StopTypeOK, StopType
  <2> QED
    BY <2>1 DEF ClosingAt, After, Holding, Drained
<1>2. CASE StopSettings(x)
  <2>1. stopper'[x].at = "drain" /\ "settings" \notin made'
    BY <1>0, <1>2, StopGotoMoves DEF StopSettings, Moves, StopPoints, Holding
  <2> QED
    BY <2>1 DEF ClosingAt, After, Holding, Drained
<1>3. CASE DrainRegister(x) \/ DrainCount(x) \/ DrainWoken(x)
  <2>1. stopper[x].at \in {"drain", "count", "wait"} /\ made' = made
    BY <1>3 DEF DrainRegister, DrainCount, DrainWoken, hostVars
  <2>2. stopper'[x].at \in {"count", "wait", "dispose", "returned", "drain"}
    <3>1. CASE DrainRegister(x)
      BY <1>0, <3>1 DEF DrainRegister, StopTypeOK, StopType
    <3>2. CASE DrainCount(x) \/ DrainWoken(x)
      <4>1. PICK at \in {"wait", "dispose", "returned", "drain"} : StopGoto(x, at)
        BY <3>2 DEF DrainCount, DrainWoken, StopReturn
      <4> QED
        BY <1>0, <4>1, StopGotoMoves DEF Moves, StopPoints, Holding
    <3> QED
      BY <1>3, <3>1, <3>2
  <2>3. stopper'[x].closer = stopper[x].closer
    BY <1>3, StopKinds, ZenonT(30) DEF DrainRegister, DrainCount, DrainWoken, StopBegin
  <2> QED
    BY <2>1, <2>2, <2>3 DEF ClosingAt, After, Holding, Drained
<1>4. CASE StopDispose(x)
  <2>1. stopper'[x].at = "owned" /\ stopper'[x].closer = stopper[x].closer
    BY <1>0, <1>4, StopCloses, ZenonT(30) DEF StopDispose, StopPoints, Holding, Closings
  <2>2. "dispose" \in Failures' \/ \A s \in Sessions : "agent" \notin held'[s]
    BY <1>4 DEF StopDispose, Failed, Failures, Stoppers
  <2>3. stopper[x].at = "dispose" /\ made' = made
    BY <1>4 DEF StopDispose
  <2> QED
    BY <2>1, <2>2, <2>3 DEF ClosingAt, After, Holding, Drained
<1>5. CASE StopOwned(x)
  <2>1. stopper'[x].at = "flush" /\ stopper'[x].closer = stopper[x].closer /\ stopper[x].at = "owned"
    BY <1>0, <1>5, StopGotoMoves DEF StopOwned, Moves, StopPoints, Holding
  <2>2. Failures \subseteq Failures' /\ made' = made
    BY <1>0, <1>5, FailuresStay DEF StopOwned
  <2>3. \A s \in Sessions : held'[s] = held[s] \cap {"agent"}
    BY <1>5 DEF StopOwned
  <2> QED
    BY <2>1, <2>2, <2>3 DEF ClosingAt, After, Holding, Drained
<1>6. CASE StopFlush(x) \/ StopRelays(x) \/ StopJoin(x)
  <2>1. /\ stopper[x].at \in {"flush", "relays", "join"} /\ stopper'[x].closer = stopper[x].closer
        /\ stopper'[x].at \in {"relays", "join", "unload"}
    <3>1. CASE StopFlush(x)
      BY <1>0, <3>1, StopCloses, ZenonT(30) DEF StopFlush, StopPoints, Holding, Closings
    <3>2. CASE StopRelays(x) \/ StopJoin(x)
      BY <1>0, <3>2, StopGotoMoves DEF StopRelays, StopJoin, Moves, StopPoints, Holding
    <3> QED
      BY <1>6, <3>1, <3>2
  <2>2. Failures \subseteq Failures' /\ made' = made /\ held' = held
    BY <1>0, <1>6, FailuresStay DEF StopFlush, StopRelays, StopJoin, hostVars
  <2>3. stopper'[x].at = "unload" => \A r \in Relays : relay'[r].at = "ended"
    <3>1. CASE StopJoin(x)
      BY <3>1 DEF StopJoin, relayVars
    <3>2. CASE StopFlush(x)
      <4>1. Closes(x, "flush", "relays") /\ "flush" \in Closings /\ "relays" \in StopPoints
        BY <3>2 DEF StopFlush, StopPoints, Holding, Closings
      <4>2. stopper'[x].at = "relays"
        BY <1>0, <4>1, StopCloses
      <4> QED
        BY <4>2
    <3>3. CASE StopRelays(x)
      BY <1>0, <3>3, StopGotoMoves DEF StopRelays, Moves, StopPoints, Holding
    <3> QED
      BY <1>6, <3>1, <3>2, <3>3
  <2> QED
    BY <2>1, <2>2, <2>3 DEF ClosingAt, After, Holding, Drained
<1>7. CASE StopLoader(x)
  <2>1. stopper'[x].at = "legacy_stop" /\ stopper'[x].closer = stopper[x].closer /\ stopper[x].at = "unload"
    BY <1>0, <1>7, StopCloses, ZenonT(30) DEF StopLoader, StopPoints, Holding, Closings
  <2>2. Failures \subseteq Failures' /\ made' \subseteq made /\ held' = held /\ relay' = relay
    BY <1>0, <1>7, FailuresStay DEF StopLoader, relayVars
  <2>3. "plugins" \in made' => "unload" \in Failures'
    BY <1>7 DEF StopLoader, Failed, Failures, Stoppers
  <2> QED
    BY <2>1, <2>2, <2>3 DEF ClosingAt, After, Holding, Drained
<1>8. CASE StopLegacy(x)
  <2>1. stopper'[x].at = "root" /\ stopper'[x].closer = stopper[x].closer /\ stopper[x].at = "legacy_stop"
    BY <1>0, <1>8, StopCloses, ZenonT(30) DEF StopLegacy, StopPoints, Holding, Closings
  <2>2. Failures \subseteq Failures' /\ made' \subseteq made /\ held' = held /\ relay' = relay
    BY <1>0, <1>8, FailuresStay DEF StopLegacy, relayVars
  <2>3. "legacy" \in made' => "legacy_stop" \in Failures'
    BY <1>8 DEF StopLegacy, Failed, Failures, Stoppers
  <2> QED
    BY <2>1, <2>2, <2>3 DEF ClosingAt, After, Holding, Drained
<1>9. CASE StopRoot(x)
  <2>1. stopper'[x].at = "returned"
    BY <1>0, <1>9, StopCloses DEF StopRoot, StopPoints, Closings
  <2> QED
    BY <2>1 DEF ClosingAt, After, Holding, Drained
<1> QED
  BY <1>1, <1>2, <1>3, <1>4, <1>5, <1>6, <1>7, <1>8, <1>9 DEF StopNext

\* Before boot nobody closes the host.
LEMMA ClosingInit == Init => ClosingInv
<1> SUFFICES ASSUME Init PROVE ClosingInv
  OBVIOUS
<1>1. admission.closing = FALSE /\ \A x \in Stoppers : stopper[x].closer = FALSE
  BY DEF Init
<1> QED
  BY <1>1 DEF ClosingInv, ClosingAt, After

\* What a finished shutdown has left stays as it is.
LEMMA FinalKept ==
  ASSUME HostAssumption, TypeOK, AdmissionInv, GateInv, [Next]_vars, admission.closing, Final
  PROVE  Final'
<1>1. Up /\ admission.count = 0
  BY DEF GateInv, Final
<1>2. made' \subseteq made /\ Failures \subseteq Failures'
  BY <1>1, MadeShrinks, FailuresStay
<1>3. admission'.count = 0 /\ \A s \in Sessions : held'[s] \subseteq held[s]
  BY <1>1, HeldShrinks
<1>4. \A r \in Relays : relay'[r].at = "ended"
  BY <1>1, RelaysStayEnded DEF Final
<1>5. Left(Failures) \subseteq Left(Failures')
  BY <1>2 DEF Left
<1>6. \A s \in Sessions : held'[s] \subseteq (IF "dispose" \in Failures' THEN {"agent"} ELSE {})
  BY <1>2, <1>3 DEF Final
<1>7. made' \subseteq Left(Failures')
  BY <1>2, <1>5 DEF Final
<1> QED
  BY <1>3, <1>4, <1>6, <1>7 DEF Final

\* The last step of the closing leaves the host as a finished shutdown should.
LEMMA ClosingEnds ==
  ASSUME HostAssumption, TypeOK, AdmissionInv, GateInv, DrainInv, NEW x \in Stoppers, ClosingAt(x), After(x, {"root"}), StopRoot(x)
  PROVE  Final'
<1> USE DEF StopAt
<1>0. /\ StopTypeOK /\ [Next]_vars /\ made \subseteq {"root", "settings", "legacy", "plugins"}
      /\ made' \subseteq {"root", "settings", "legacy", "plugins"}
  BY DEF TypeOK, HostTypeOK, Next, StopNext, StopRoot
<1>1. Failures \subseteq Failures'
  BY <1>0, FailuresStay
<1>2. admission'.count = 0
  BY DEF DrainInv, Drained, StopRoot, After
<1>3. held' = held /\ relay' = relay /\ made' \subseteq made
  BY DEF StopRoot, relayVars
<1>4. "root" \in made' => "root" \in Failures'
  BY DEF StopRoot, Failed, Failures, Stoppers
<1>5. {"root"} \subseteq Drained \ {"dispose", "owned"} /\ "root" \in Holding \ {"settings"}
  BY DEF Drained, Holding
<1>6. "settings" \notin made /\ ("plugins" \in made => "unload" \in Failures) /\ ("legacy" \in made => "legacy_stop" \in Failures)
  BY <1>5 DEF ClosingAt, After
<1>7. \A s \in Sessions : held[s] \subseteq {"agent"} /\ ("agent" \in held[s] => "dispose" \in Failures)
  BY <1>5 DEF ClosingAt, After
<1>8. \A r \in Relays : relay'[r].at = "ended"
  BY <1>3 DEF ClosingAt, After
<1>9. \A s \in Sessions : held'[s] \subseteq (IF "dispose" \in Failures' THEN {"agent"} ELSE {})
  BY <1>1, <1>3, <1>7
<1>10. made' \subseteq Left(Failures')
  BY <1>0, <1>1, <1>3, <1>4, <1>6 DEF Left
<1> QED
  BY <1>2, <1>8, <1>9, <1>10 DEF Final

\* A shutdown that closes the host returns from its last step only.
LEMMA ReturnsAtRoot ==
  ASSUME TypeOK, NEW x \in Stoppers, StopNext(x), stopper[x].closer, stopper'[x].at = "returned", ~StopBegin(x)
  PROVE  StopRoot(x)
<1>0. StopTypeOK /\ stopper[x] \in StopType
  BY DEF TypeOK, StopTypeOK
<1>1. ASSUME NEW at \in StopPoints, StopGoto(x, at) PROVE at = "returned"
  BY <1>0, <1>1, StopGotoMoves DEF Moves
<1>2. ASSUME NEW at \in StopPoints, NEW step \in Closings, Closes(x, step, at) PROVE at = "returned"
  BY <1>0, <1>2, StopCloses
<1>3. ~DrainRegister(x)
  <2>1. DrainRegister(x) => stopper'[x] = [stopper[x] EXCEPT !.at = "count", !.seen = admission.drains]
    BY <1>0 DEF DrainRegister, StopTypeOK
  <2>2. [stopper[x] EXCEPT !.at = "count", !.seen = admission.drains].at = "count"
    BY <1>0 DEF StopType
  <2> QED
    BY <2>1, <2>2, ZenonT(30)
<1>4. ~DrainCount(x)
  BY <1>1 DEF DrainCount, StopPoints, Holding
<1>5. ~StopSettings(x) /\ ~DrainWoken(x) /\ ~StopOwned(x) /\ ~StopRelays(x) /\ ~StopJoin(x)
  BY <1>1 DEF StopSettings, DrainWoken, StopOwned, StopRelays, StopJoin, StopPoints, Holding
<1>6. ~StopDispose(x) /\ ~StopFlush(x) /\ ~StopLoader(x) /\ ~StopLegacy(x)
  BY <1>2 DEF StopDispose, StopFlush, StopLoader, StopLegacy, StopPoints, Holding, Closings
<1> QED
  BY <1>3, <1>4, <1>5, <1>6 DEF StopNext

\* Every step keeps what the closing relies on and what it has left.
LEMMA ClosingStep ==
  ASSUME HostAssumption, TypeOK, AdmissionInv, GateInv, DrainInv, ClosingInv, [Next]_vars
  PROVE  ClosingInv'
<1>1. ASSUME NEW x \in Stoppers PROVE ClosingAt(x)'
  <2>0. ClosingAt(x)
    BY DEF ClosingInv
  <2>1. CASE stopper'[x] = stopper[x]
    BY <2>0, <2>1, ClosingKept
  <2>2. CASE StopNext(x)
    BY <2>0, <2>2, ClosingStop
  <2>3. CASE ServerNext
    <3>1. stopper'[x] = stopper[x] \/ stopper'[x].at \in {"lock", "idle", "dropped"}
      BY <2>3, ServerKinds DEF ServerGoes, ServerAsks, ServerSees, ProcessAsks, ServerDropped, Moves, stopVars
    <3>2. CASE stopper'[x].at \in {"lock", "idle", "dropped"}
      BY <3>2 DEF ClosingAt, After, Holding, Drained
    <3> QED
      BY <2>1, <3>1, <3>2
  <2>4. ASSUME NEW y \in Stoppers, y # x, StopNext(y) PROVE stopper'[x] = stopper[x]
    BY <2>4, StopKinds
  <2>5. CASE BootNext \/ Change \/ (\E r \in Relays : RelayNext(r)) \/ (\E c \in Calls : CallNext(c)) \/ UNCHANGED vars
    <3>1. stopper' = stopper
      BY <2>5, BootApart, CallApart, RestApart DEF stopVars
    <3> QED
      BY <2>1, <3>1
  <2> QED
    BY <2>1, <2>2, <2>3, <2>4, <2>5 DEF Next
<1>2. ASSUME admission'.closing, ~cut' PROVE Final' \/ \E x \in Stoppers : After(x, Holding)'
  <2>1. CASE ~admission.closing
    <3>1. PICK x \in Stoppers : StopBegin(x)
      <4>1. CASE BootNext \/ Change \/ (\E r \in Relays : RelayNext(r)) \/ (\E c \in Calls : CallNext(c)) \/ UNCHANGED vars
        <5>1. admission'.closing = admission.closing
          BY <4>1, BootApart, CallApart, RestApart DEF hostVars
        <5> QED
          BY <1>2, <2>1, <5>1
      <4>2. CASE ServerNext
        BY <1>2, <2>1, <4>2, ServerKinds DEF ServerGoes, ServerAsks, ServerSees, ProcessAsks, ServerDropped, hostVars
      <4>3. ASSUME NEW x \in Stoppers, StopNext(x) PROVE StopBegin(x)
        BY <1>2, <2>1, <4>3, StopKinds DEF StopsInside, StopsAtLast
      <4> QED
        BY <4>1, <4>2, <4>3 DEF Next
    <3>2. stopper'[x].at = "settings" /\ stopper'[x].closer = TRUE
      BY <2>1, <3>1, ZenonT(30) DEF StopBegin, TypeOK, StopTypeOK, StopType
    <3> QED
      BY <3>2 DEF After, Holding
  <2>2. CASE admission.closing /\ Final
    BY <2>2, FinalKept
  <2>3. CASE admission.closing /\ ~Final
    <3>1. ~cut
      <4>1. CASE ServerNext
        BY <1>2, <4>1, ServerKinds, ZenonT(30) DEF ServerGoes, ServerAsks, ServerSees, ProcessAsks, ServerDropped, stopVars
      <4>2. CASE BootNext \/ Change \/ (\E r \in Relays : RelayNext(r)) \/ (\E c \in Calls : CallNext(c)) \/ UNCHANGED vars
        BY <1>2, <4>2, BootApart, CallApart, RestApart, ZenonT(30) DEF stopVars
      <4>3. ASSUME NEW x \in Stoppers, StopNext(x) PROVE ~cut
        BY <1>2, <4>3, StopKinds
      <4> QED
        BY <4>1, <4>2, <4>3 DEF Next
    <3>2. PICK x \in Stoppers : After(x, Holding)
      BY <2>3, <3>1 DEF ClosingInv
    <3>3. gate = x /\ x # None
      BY <3>2 DEF After, GateInv, Stoppers
    <3>4. CASE stopper'[x] = stopper[x]
      BY <3>2, <3>4 DEF After
    <3>5. CASE StopNext(x)
      <4>1. ~StopBegin(x)
        BY <3>3 DEF StopBegin
      <4>2. CASE StopsInside(x) /\ stopper'[x].closer = stopper[x].closer
        BY <3>2, <4>2, ZenonT(30) DEF StopsInside, After
      <4>3. CASE StopsAtLast(x) /\ stopper'[x].closer = stopper[x].closer
        <5>1. stopper'[x].at = "returned" /\ stopper[x].closer
          BY <3>2, <4>3 DEF StopsAtLast, After
        <5>2. StopRoot(x)
          BY <3>5, <4>1, <5>1, ReturnsAtRoot
        <5>3. After(x, {"root"})
          BY <3>2, <5>2 DEF StopRoot, StopAt, After
        <5> QED
          BY <5>2, <5>3, ClosingEnds DEF ClosingInv
      <4> QED
        BY <3>5, <4>1, <4>2, <4>3, StopKinds, ZenonT(30)
    <3>6. CASE ServerNext
      <4>1. ServerDropped => x # "sdk"
        BY <1>2, <3>2, <3>3, ZenonT(30) DEF ServerDropped, After
      <4>2. stopper'[x] = stopper[x]
        BY <3>2, <3>6, <4>1, ServerKinds, ZenonT(30) DEF ServerGoes, ServerAsks, ServerSees, ProcessAsks, ServerDropped, Moves,
          stopVars, After, Holding, GateInv, StopAt, Stoppers
      <4> QED
        BY <3>4, <4>2
    <3>7. ASSUME NEW y \in Stoppers, y # x, StopNext(y) PROVE stopper'[x] = stopper[x]
      BY <3>7, StopKinds
    <3>8. CASE BootNext \/ Change \/ (\E r \in Relays : RelayNext(r)) \/ (\E c \in Calls : CallNext(c)) \/ UNCHANGED vars
      <4>1. stopper' = stopper
        BY <3>8, BootApart, CallApart, RestApart DEF stopVars
      <4> QED
        BY <3>4, <4>1
    <3> QED
      BY <3>4, <3>5, <3>6, <3>7, <3>8 DEF Next
  <2> QED
    BY <2>1, <2>2, <2>3
<1> QED
  BY <1>1, <1>2 DEF ClosingInv

-----------------------------------------------------------------------------
(* The limit on live agents *)

\* A call on its way to owning an agent still has room for it.
CapacityInv ==
  /\ CapacityHolds
  /\ \A c \in Calls : call[c].at \in {"agent", "permission", "install"} => Cardinality(Owned) < MaxLive

\* The owned agents are finitely many, and fewer of them count for less.
LEMMA OwnedFinite ==
  ASSUME HostAssumption
  PROVE  /\ IsFiniteSet(Owned) /\ Cardinality(Owned) \in Nat
         /\ \A S : S \subseteq Owned => IsFiniteSet(S) /\ Cardinality(S) \in Nat /\ Cardinality(S) <= Cardinality(Owned)
<1>1. IsFiniteSet(Owned)
  BY HostAssumption, FS_Subset DEF HostAssumption, Owned
<1> QED
  BY <1>1, FS_CardinalityType, FS_Subset

\* Only a call that installs an agent makes it owned.
OwnsOne(c) ==
  /\ call[c].at = "install" /\ call'[c].at = "drive"
  /\ Owned' \subseteq Owned \cup {call[c].session}

\* The move that makes an agent owned is the install.
LEMMA WorksOwned ==
  ASSUME NEW from, NEW to, NEW h, NEW S, NEW lost, Works(from, to, h, S, lost),
         ~(from = "install" /\ to = "drive"), "owned" \in S
  PROVE  "owned" \in h
BY DEF Works

\* A move keeps what is owned, unless it installs an agent, and comes to the points
\* where it makes an agent by finding room for it.
LEMMA OwnedMove ==
  ASSUME HostTypeOK, NEW c \in Calls, NEW to \in Ahead, NEW S \in SUBSET Parts, NEW lost \in BOOLEAN,
         Does(c, to, S, lost), NEW s \in Sessions, s = call[c].session
  PROVE  /\ Owned' \subseteq Owned \/ OwnsOne(c)
         /\ call'[c].at \in {"agent", "permission", "install"} =>
              \/ call[c].at \in {"agent", "permission", "install"}
              \/ ~Capacity
<1>1. call'[c].at = to /\ held'[s] = S /\ \A t \in Sessions : t # s => held'[t] = held[t]
  BY DoesGive
<1>2. Works(call[c].at, to, held[s], S, lost) /\ (call[c].at = "admitted" /\ to = "agent" => ~Capacity)
  BY DEF Does
<1>3. CASE call[c].at = "install" /\ to = "drive"
  BY <1>1, <1>3 DEF OwnsOne, Owned
<1>4. CASE ~(call[c].at = "install" /\ to = "drive")
  <2>1. "owned" \in S => "owned" \in held[s]
    BY <1>2, <1>4, WorksOwned, ZenonT(30)
  <2>2. to \in {"agent", "permission", "install"} =>
          call[c].at \in {"agent", "permission", "install"} \/ ~Capacity
    BY <1>2, ZenonT(30) DEF Works
  <2> QED
    BY <1>1, <2>1, <2>2 DEF Owned
<1> QED
  BY <1>3, <1>4

\* The same of every action of a call.
LEMMA OwnedCall ==
  ASSUME TypeOK, NEW c \in Calls, CallNext(c)
  PROVE  /\ Owned' \subseteq Owned \/ OwnsOne(c)
         /\ call'[c].at \in {"agent", "permission", "install"} =>
              \/ call[c].at \in {"agent", "permission", "install"}
              \/ ~Capacity
<1>0. HostTypeOK
  BY DEF TypeOK
<1>1. CASE Enters(c) \/ Refused(c)
  <2>1. held' = held
    BY <1>1, ZenonT(30) DEF Enters, Refused
  <2>2. call'[c].at = "admitted" \/ ~InCall(c)'
    BY <1>0, <1>1, InsideAfter
  <2> QED
    BY <2>1, <2>2 DEF Owned, InCall, Inside
<1>2. ASSUME NEW to \in Ahead, NEW S \in SUBSET Parts, NEW lost \in BOOLEAN, Does(c, to, S, lost)
      PROVE  \E s \in Sessions : s = call[c].session
  BY <1>0, <1>2 DEF Does, HostTypeOK, InCall
<1> QED
  BY <1>0, <1>1, <1>2, CallKinds, OwnedMove, ZenonT(30)

\* Before boot no agent is owned.
LEMMA CapacityInit == ASSUME HostAssumption, Init PROVE CapacityInv
<1>1. Owned = {}
  BY DEF Init, Owned
<1>2. Cardinality(Owned) = 0
  BY <1>1, FS_EmptySet
<1>3. \A c \in Calls : call[c].at = "idle"
  BY DEF Init
<1> QED
  BY <1>2, <1>3, HostAssumption DEF HostAssumption, CapacityInv, CapacityHolds

\* Every step keeps the limit.
LEMMA CapacityStep ==
  ASSUME HostAssumption, TypeOK, AdmissionInv, CapacityInv, [Next]_vars
  PROVE  CapacityInv'
<1>0. Cardinality(Owned) \in Nat /\ MaxLive \in Nat /\ Cardinality(Owned) <= MaxLive /\ IsFiniteSet(Owned)
  BY OwnedFinite, HostAssumption DEF HostAssumption, CapacityInv, CapacityHolds
<1>1. ASSUME Owned' \subseteq Owned PROVE Cardinality(Owned') \in Nat /\ Cardinality(Owned') <= Cardinality(Owned)
  BY <1>1, OwnedFinite
<1>2. CASE call' = call /\ Owned' \subseteq Owned
  BY <1>0, <1>1, <1>2 DEF CapacityInv, CapacityHolds
<1>3. ASSUME NEW c \in Calls, CallNext(c) PROVE CapacityInv'
  <2>0. \A d \in Calls \ {c} : call'[d] = call[d]
    BY <1>3, CallSteps, CallTypes DEF TypeOK
  <2>1. CASE Owned' \subseteq Owned
    <3>1. Cardinality(Owned') \in Nat /\ Cardinality(Owned') <= Cardinality(Owned)
      BY <1>1, <2>1
    <3>2. ASSUME NEW d \in Calls, call'[d].at \in {"agent", "permission", "install"} PROVE Cardinality(Owned) < MaxLive
      <4>1. CASE d = c
        <5>1. call[c].at \in {"agent", "permission", "install"} \/ ~Capacity
          BY <1>3, <3>2, <4>1, OwnedCall
        <5> QED
          BY <1>0, <5>1 DEF CapacityInv, Capacity
      <4>2. CASE d # c
        BY <2>0, <3>2, <4>2 DEF CapacityInv
      <4> QED
        BY <4>1, <4>2
    <3>3. \A d \in Calls : call'[d].at \in {"agent", "permission", "install"} => Cardinality(Owned') < MaxLive
      BY <1>0, <3>1, <3>2
    <3> QED
      BY <1>0, <3>1, <3>3 DEF CapacityInv, CapacityHolds
  <2>2. CASE OwnsOne(c)
    <3>1. call[c].at = "install" /\ Cardinality(Owned) < MaxLive
      BY <2>2 DEF OwnsOne, CapacityInv
    <3>2. setup = c
      BY <3>1 DEF AdmissionInv, InCall, Inside
    <3>3. \A d \in Calls : call'[d].at \notin {"agent", "permission", "install"}
      <4>1. ASSUME NEW d \in Calls, d # c PROVE call[d].at \notin {"agent", "permission", "install"}
        BY <3>2, <4>1 DEF AdmissionInv, InCall, Inside
      <4> QED
        BY <2>0, <2>2, <4>1 DEF OwnsOne
    <3> DEFINE s == call[c].session
    <3>4. IsFiniteSet(Owned \cup {s}) /\ Cardinality(Owned \cup {s}) \in Nat
          /\ Cardinality(Owned \cup {s}) <= Cardinality(Owned) + 1
      <4>1. CASE s \in Owned
        <5>1. Owned \cup {s} = Owned
          BY <4>1
        <5> QED
          BY <1>0, <5>1
      <4>2. CASE s \notin Owned
        <5>1. IsFiniteSet(Owned \cup {s}) /\ Cardinality(Owned \cup {s}) = Cardinality(Owned) + 1
          BY <1>0, <4>2, FS_AddElement, ZenonT(30)
        <5> QED
          BY <1>0, <5>1
      <4> QED
        BY <4>1, <4>2
    <3>5. Owned' \subseteq Owned \cup {s}
      BY <2>2 DEF OwnsOne
    <3>6. Cardinality(Owned') <= Cardinality(Owned \cup {s}) /\ Cardinality(Owned') \in Nat
      BY <3>4, <3>5, FS_Subset, FS_CardinalityType
    <3>7. Cardinality(Owned') <= MaxLive
      BY <1>0, <3>1, <3>4, <3>6
    <3> QED
      BY <3>3, <3>7 DEF CapacityInv, CapacityHolds
  <2> QED
    BY <1>3, <2>1, <2>2, OwnedCall
<1>4. CASE BootNext \/ Change \/ (\E r \in Relays : RelayNext(r)) \/ UNCHANGED vars
  <2>1. call' = call /\ held' = held
    BY <1>4, BootApart, RestApart DEF hostVars
  <2> QED
    BY <1>2, <2>1 DEF Owned
<1>5. CASE ServerNext
  <2>1. call' = call /\ \A s \in Sessions : held'[s] \subseteq held[s]
    BY <1>5, ServerKinds DEF ServerGoes, ServerAsks, ServerSees, ProcessAsks, ServerDropped, hostVars
  <2> QED
    BY <1>2, <2>1 DEF Owned
<1>6. ASSUME NEW x \in Stoppers, StopNext(x) PROVE CapacityInv'
  <2>1. call' = call
    BY <1>6, StopKinds
  <2>2. \A s \in Sessions : held'[s] \subseteq held[s]
    BY <1>6, StopEffects
  <2> QED
    BY <1>2, <2>1, <2>2 DEF Owned
<1> QED
  BY <1>3, <1>4, <1>5, <1>6 DEF Next

-----------------------------------------------------------------------------
(* Set-ups that are whole *)

\* What is installed for a session while a call at work on it is at `at`.
AtWork(at, h) ==
  /\ at \in {"agent", "event"} => h \subseteq {"scope"}
  /\ at \in {"permission", "install"} => h \subseteq {"agent", "scope"}
  /\ at = "drive" => Parts \ {"scope"} \subseteq h
  /\ at = "releasing" => h \subseteq {"agent", "approval", "question"}
  /\ at = "disposing" => h \subseteq {"agent"}

\* What is installed for a session nobody works on.
Whole(s) ==
  \/ held[s] \subseteq {"scope"}
  \/ Parts \ {"scope"} \subseteq held[s]
  \/ s \in orphaned /\ held[s] \subseteq {"agent", "scope"}

SetupInv ==
  /\ SetupIsWhole
  /\ \A c \in Calls : AtWork(call[c].at, held[call[c].session])

\* A call at work changes its own session only, takes the lock before it
\* changes anything, and leaves the session as it should be.
LEMMA SetupCall ==
  ASSUME TypeOK, NEW c \in Calls, CallNext(c), InCall(c), NEW s \in Sessions, s = call[c].session,
         AtWork(call[c].at, held[s]), setup = None => Whole(s)
  PROVE  /\ \A t \in Sessions : t # s => held'[t] = held[t]
         /\ orphaned \subseteq orphaned'
         /\ call[c].at = "admitted" /\ setup # None => held' = held
         /\ call'[c].at \in Inside => AtWork(call'[c].at, held'[s])
         /\ call'[c].at \notin Inside => Whole(s)' \/ (call[c].at = "admitted" /\ held' = held)
<1>0. HostTypeOK /\ held[s] \in SUBSET Parts /\ held \in [Sessions -> SUBSET Parts]
  BY DEF TypeOK, HostTypeOK
<1>1. PICK to \in Ahead, S \in SUBSET Parts, lost \in BOOLEAN : Does(c, to, S, lost)
  <2>1. ~Enters(c) /\ ~Refused(c)
    BY ZenonT(30) DEF Enters, Refused, InCall, Inside
  <2> QED
    BY <1>0, <2>1, CallKinds
<1>2. /\ call'[c].at = to /\ held'[s] = S /\ held' \in [Sessions -> SUBSET Parts]
      /\ \A t \in Sessions : t # s => held'[t] = held[t]
      /\ orphaned \subseteq orphaned' /\ (lost => s \in orphaned')
  BY <1>0, <1>1, DoesGive
<1>3. Works(call[c].at, to, held[s], S, lost) /\ (call[c].at = "admitted" /\ to # "done" => setup = None)
  BY <1>1 DEF Does
<1>4. S = held[s] => held' = held
  BY <1>0, <1>2
<1>5. call[c].at = "admitted" /\ setup # None => held' = held
  BY <1>3, <1>4, ZenonT(30) DEF Works
<1>6. ASSUME to # "done" PROVE AtWork(to, S)
  <2>1. CASE call[c].at = "admitted"
    <3>1. Whole(s)
      BY <1>3, <1>6, <2>1, ZenonT(30)
    <3>2. "agent" \notin held[s] => held[s] \subseteq {"scope"}
      BY <3>1 DEF Whole, Parts
    <3>3. "owned" \notin held[s] => held[s] \subseteq {"agent", "scope"}
      BY <3>1 DEF Whole, Parts
    <3>4. \/ to = "agent" /\ S \subseteq {"scope"}
          \/ to = "event" /\ S \subseteq {"scope"}
          \/ to = "releasing" /\ S = held[s] \ {"jobs", "schedule", "scope", "owned", "tools"}
          \/ to = "disposing" /\ S \subseteq {"agent"}
      BY <1>3, <1>6, <2>1, <3>2, <3>3, ZenonT(30) DEF Works
    <3> QED
      BY <1>0, <3>4, ZenonT(30) DEF AtWork, Parts
  <2>2. CASE call[c].at # "admitted"
    BY <1>3, <1>6, <2>2, ZenonT(30) DEF Works, AtWork
  <2> QED
    BY <2>1, <2>2
<1>7. ASSUME to = "done" PROVE Whole(s)' \/ (call[c].at = "admitted" /\ held' = held)
  <2>1. CASE call[c].at = "admitted"
    BY <1>3, <1>4, <1>7, <2>1, ZenonT(30) DEF Works
  <2>2. CASE call[c].at # "admitted"
    <3>1. \/ S \subseteq {"scope"} \/ Parts \ {"scope"} \subseteq S
          \/ lost /\ S \subseteq {"agent", "scope"}
      BY <1>3, <1>7, <2>2, ZenonT(30) DEF Works, AtWork
    <3> QED
      BY <1>2, <3>1, ZenonT(30) DEF Whole
  <2> QED
    BY <2>1, <2>2, ZenonT(30)
<1>8. to \in Inside <=> to # "done"
  BY DEF Ahead, Inside
<1> QED
  BY <1>2, <1>5, <1>6, <1>7, <1>8, ZenonT(30)

\* Before boot nothing is installed.
LEMMA SetupInit == Init => SetupInv
<1> SUFFICES ASSUME Init PROVE SetupInv
  OBVIOUS
<1>1. \A s \in Sessions : held[s] \subseteq {"scope"}
  BY DEF Init
<1>2. \A c \in Calls : call[c].at = "idle"
  BY DEF Init
<1> QED
  BY <1>1, <1>2 DEF SetupInv, SetupIsWhole, AtWork

\* Steps of anything but a call leave what is installed alone, until the
\* closing takes it away from a host without calls.
LEMMA HeldApart ==
  ASSUME TypeOK, GateInv, DrainInv, [Next]_vars
  PROVE  \/ \E c \in Calls : CallNext(c)
         \/ /\ UNCHANGED <<call, setup, orphaned>> /\ admission'.count = admission.count
            /\ admission.closing => admission'.closing
            /\ held' = held \/ (admission.closing /\ admission.count = 0)
<1>1. CASE BootNext \/ Change \/ (\E r \in Relays : RelayNext(r)) \/ UNCHANGED vars
  BY <1>1, BootApart, RestApart DEF hostVars
<1>2. CASE ServerNext
  <2>1. UNCHANGED <<call, setup, orphaned, admission>>
    BY <1>2, ServerKinds, ZenonT(30) DEF ServerGoes, ServerAsks, ServerSees, ProcessAsks, ServerDropped, hostVars
  <2>2. held' = held \/ stopper["sdk"].at = "dispose"
    BY <1>2, ZenonT(30) DEF ServerNext, ClientSends, ServePrompted, ClientLeaves, WriterFails, ServeRequest, ServeShutdown,
      ServeStopped, ServeCleanup, ServeEnds, ServeNote, ServeLags, ServeBye, Signal, ProcessStops, hostVars, StopAt
  <2>3. stopper["sdk"].at = "dispose" => admission.closing /\ admission.count = 0
    BY ZenonT(30) DEF GateInv, DrainInv, Stoppers, Holding, Drained
  <2> QED
    BY <2>1, <2>2, <2>3
<1>3. ASSUME NEW x \in Stoppers, StopNext(x)
      PROVE  /\ UNCHANGED <<call, setup, orphaned>> /\ admission'.count = admission.count
             /\ admission.closing => admission'.closing
             /\ held' = held \/ (admission.closing /\ admission.count = 0)
  <2>1. UNCHANGED <<call, setup, orphaned>>
    BY <1>3, StopKinds
  <2>2. admission'.count = admission.count /\ (admission.closing => admission'.closing)
    <3>1. CASE StopBegin(x)
      BY <3>1 DEF StopBegin, TypeOK, HostTypeOK
    <3> QED
      BY <1>3, <3>1, StopKinds DEF StopsInside, StopsAtLast
  <2>3. held' = held \/ stopper[x].at \in {"dispose", "owned"}
    BY <1>3, StopEffects
  <2>4. stopper[x].at \in {"dispose", "owned"} => admission.closing /\ admission.count = 0
    BY DEF GateInv, DrainInv, Holding, Drained
  <2> QED
    BY <2>1, <2>2, <2>3, <2>4
<1> QED
  BY <1>1, <1>2, <1>3 DEF Next

\* Every step keeps the sessions whole.
LEMMA SetupStep ==
  ASSUME HostAssumption, TypeOK, AdmissionInv, GateInv, DrainInv, SetupInv, [Next]_vars
  PROVE  SetupInv'
<1>0. HostTypeOK /\ HostTypeOK' /\ AdmissionInv'
  BY TypeStep, AdmissionStep DEF TypeOK
<1>1. CASE /\ UNCHANGED <<call, setup, orphaned>> /\ admission'.count = admission.count
           /\ admission.closing => admission'.closing
           /\ held' = held \/ (admission.closing /\ admission.count = 0)
  <2>1. CASE held' = held
    BY <1>1, <2>1 DEF SetupInv, SetupIsWhole
  <2>2. CASE admission.closing /\ admission.count = 0
    <3>1. \A c \in Calls : call[c].at \notin Inside
      BY <2>2, InsideFinite DEF AdmissionInv, InsideCalls, InCall
    <3>2. \A c \in Calls : AtWork(call[c].at, held'[call[c].session])
      BY <3>1 DEF AtWork, Inside
    <3> QED
      BY <1>1, <2>2, <3>2 DEF SetupInv, SetupIsWhole
  <2> QED
    BY <1>1, <2>1, <2>2
<1>2. ASSUME NEW c \in Calls, CallNext(c), ~InCall(c) PROVE SetupInv'
  <2>1. Enters(c) \/ Refused(c)
    BY <1>0, <1>2, CallSteps, InsideAfter
  <2>2. UNCHANGED <<setup, held, orphaned>> /\ setup # c /\ \A d \in Calls \ {c} : call'[d] = call[d]
    BY <1>0, <1>2, <2>1, CallTypes, HostAssumption, ZenonT(30) DEF HostAssumption, Enters, Refused, AdmissionInv
  <2>3. admission.closing => admission' = admission
    BY <2>1 DEF Enters, Refused
  <2>4. call'[c].at \in {"admitted", "done"}
    <3>1. CASE Enters(c)
      BY <1>0, <3>1, InsideAfter
    <3>2. CASE Refused(c)
      <4>1. call'[c] = [call[c] EXCEPT !.at = "done", !.result = "refused"] /\ call[c] \in CallType
        BY <1>0, <3>2 DEF Refused, HostTypeOK
      <4> QED
        BY <4>1 DEF CallType
    <3> QED
      BY <2>1, <3>1, <3>2
  <2>5. setup' # None => call'[setup'] = call[setup]
    BY <1>0, <2>2 DEF HostTypeOK
  <2>6. SetupIsWhole'
    BY <2>2, <2>3, <2>5 DEF SetupInv, SetupIsWhole
  <2>7. \A d \in Calls : AtWork(call'[d].at, held'[call'[d].session])
    BY <2>2, <2>4 DEF SetupInv, AtWork
  <2> QED
    BY <2>6, <2>7 DEF SetupInv
<1>3. ASSUME NEW c \in Calls, CallNext(c), InCall(c) PROVE SetupInv'
  <2>s. PICK s \in Sessions : s = call[c].session
    BY <1>0, <1>3 DEF HostTypeOK, InCall
  <2>0. s = call[c].session /\ c # None
    BY <2>s, HostAssumption DEF HostAssumption
  <2>1. admission.count # 0
    BY <1>3, InsideFinite DEF AdmissionInv, InsideCalls
  <2>2. \A t \in Sessions : Whole(t) \/ (setup # None /\ call[setup].session = t)
    BY <2>1 DEF SetupInv, SetupIsWhole, Whole
  <2>3. AtWork(call[c].at, held[s]) /\ (setup = None => Whole(s))
    BY <2>0, <2>2 DEF SetupInv
  <2>4. /\ \A t \in Sessions : t # s => held'[t] = held[t]
        /\ orphaned \subseteq orphaned'
        /\ call[c].at = "admitted" /\ setup # None => held' = held
        /\ call'[c].at \in Inside => AtWork(call'[c].at, held'[s])
        /\ call'[c].at \notin Inside => Whole(s)' \/ (call[c].at = "admitted" /\ held' = held)
    BY <1>3, <2>0, <2>3, SetupCall, ZenonT(30)
  <2>5. Goes(c) \/ Leaves(c)
    BY <1>0, <1>3, CallSteps, InsideAfter
  <2>6. /\ \A d \in Calls \ {c} : call'[d] = call[d]
        /\ call'[c].session = s
    <3>1. \A d \in Calls \ {c} : call'[d] = call[d]
      BY <1>0, <2>5, CallTypes
    <3>2. CASE Goes(c)
      <4>1. PICK at \in Inside : call' = [call EXCEPT ![c].at = at]
        BY <3>2, ZenonT(30) DEF Goes
      <4>2. call'[c] = [call[c] EXCEPT !.at = at] /\ call[c] \in CallType
        BY <1>0, <4>1, CallMoves DEF HostTypeOK
      <4> QED
        BY <2>0, <3>1, <4>2 DEF CallType
    <3>3. CASE Leaves(c)
      <4>1. PICK r \in Results : call' = [call EXCEPT ![c] = [call[c] EXCEPT !.at = "done", !.result = r]]
        BY <3>3, ZenonT(30) DEF Leaves, Return
      <4>2. call'[c] = [call[c] EXCEPT !.at = "done", !.result = r] /\ call[c] \in CallType
        BY <1>0, <4>1 DEF HostTypeOK
      <4> QED
        BY <2>0, <3>1, <4>2 DEF CallType
    <3> QED
      BY <2>5, <3>2, <3>3, <3>1
  <2>7. setup = None \/ setup = c \/ (call[c].at = "admitted" /\ held' = held)
    BY <1>3, <2>4 DEF AdmissionInv
  <2>8. ASSUME NEW t \in Sessions PROVE Whole(t)' \/ (setup' # None /\ call'[setup'].session = t)
    <3>1. CASE t # s
      <4>1. Whole(t) => Whole(t)'
        BY <2>4, <3>1 DEF Whole
      <4>2. CASE ~Whole(t)
        <5>1. setup # None /\ call[setup].session = t /\ setup # c
          BY <2>0, <2>2, <3>1, <4>2
        <5>2. setup' = setup
          BY <2>5, <5>1, <2>7, ZenonT(30) DEF Goes, Leaves, Return
        <5> QED
          BY <1>0, <2>6, <5>1, <5>2 DEF HostTypeOK
      <4> QED
        BY <4>1, <4>2
    <3>2. CASE t = s /\ Goes(c)
      <4>1. setup' = c
        BY <1>3, <3>2 DEF Goes, AdmissionInv
      <4> QED
        BY <2>0, <2>6, <3>2, <4>1
    <3>3. CASE t = s /\ Leaves(c)
      <4>1. call'[c].at \notin Inside
        BY <1>0, <3>3, InsideAfter DEF InCall
      <4>2. CASE Whole(s)'
        BY <3>3, <4>2
      <4>3. CASE call[c].at = "admitted" /\ held' = held
        <5>1. setup # c
          BY <1>3, <4>3, <2>0 DEF AdmissionInv
        <5>2. setup' = setup
          BY <3>3, <5>1 DEF Leaves, Return
        <5>3. Whole(s) => Whole(s)'
          BY <2>4, <4>3, ZenonT(30) DEF Whole
        <5> QED
          BY <1>0, <2>2, <2>6, <3>3, <5>1, <5>2, <5>3 DEF HostTypeOK
      <4> QED
        BY <2>4, <4>1, <4>2, <4>3
    <3> QED
      BY <2>5, <3>1, <3>2, <3>3
  <2>9. ASSUME NEW d \in Calls PROVE AtWork(call'[d].at, held'[call'[d].session])
    <3>1. CASE d = c /\ call'[c].at \in Inside
      BY <2>4, <2>6, <3>1, ZenonT(30)
    <3>2. CASE call'[d].at \notin Inside \/ call'[d].at = "admitted"
      BY <3>2 DEF AtWork, Inside
    <3>3. CASE d # c /\ call'[d].at \in Inside /\ call'[d].at # "admitted"
      <4>1. setup = d /\ call'[d] = call[d]
        BY <2>6, <3>3 DEF AdmissionInv, InCall
      <4>2. held' = held
        BY <2>7, <3>3, <4>1, HostAssumption DEF HostAssumption
      <4> QED
        BY <4>1, <4>2 DEF SetupInv
    <3> QED
      BY <3>1, <3>2, <3>3, ZenonT(30)
  <2>10. SetupIsWhole'
    BY <2>8 DEF SetupIsWhole, Whole
  <2> QED
    BY <2>9, <2>10 DEF SetupInv
<1> QED
  BY <1>1, <1>2, <1>3, HeldApart

-----------------------------------------------------------------------------
(* The last answer of the SDK server *)

\* The settings relay has passed on all it went by, and all there is when it ends,
\* unless it was overtaken.
RelayTells ==
  /\ relay["settings"].lagged => changes > Kept
  /\ relay["settings"].lagged \/ relay["settings"].took = relay["settings"].got
  /\ relay["settings"].at = "ended" => relay["settings"].lagged \/ relay["settings"].got = changes

\* The settings relay ends after the last change, and the server answers a shutdown
\* when it has shown the client what was passed on.
ByeInv ==
  /\ server.shown = wire.notes
  /\ stops > 0 => "settings" \notin made /\ admission.closing
  /\ \A r \in Relays : relay[r].at \in {"drain", "ended"} => stops > 0
  /\ RelayTells
  /\ server.at = "draining" \/ wire.bye => relay["settings"].at = "ended"
  /\ wire.bye => server.shown = told /\ server.at = "returned"

\* Only the server and its notes move what the client has read.
LEMMA WireApart ==
  ASSUME TypeOK, [Next]_vars
  PROVE  \/ wire' = wire /\ server'.shown = server.shown
         \/ ServeNote \/ ServeBye
         \/ ServerNext /\ wire'.bye = wire.bye /\ wire'.notes = wire.notes /\ server'.shown = server.shown
<1>0. server \in ServerType /\ wire \in [answers : Nat, bye : BOOLEAN, notes : Nat]
  BY DEF TypeOK, SdkTypeOK
<1>1. CASE BootNext
  <2>1. CASE BootBind
    BY <1>0, <1>1, <2>1, BootApart DEF BootBind, ServerType
  <2> QED
    BY <1>1, <2>1, BootApart
<1>2. CASE Change \/ (\E r \in Relays : RelayNext(r)) \/ UNCHANGED vars
  BY <1>2, RestApart DEF sdkVars
<1>3. ASSUME NEW c \in Calls, CallNext(c) PROVE wire' = wire /\ server'.shown = server.shown
  BY <1>3, CallApart
<1>4. ASSUME NEW x \in Stoppers, StopNext(x) PROVE wire' = wire /\ server' = server
  BY <1>4, StopKinds DEF sdkVars
<1>5. CASE ServerNext
  <2>1. ASSUME NEW rest \in ServerType, rest.shown = server.shown, Answer(rest)
        PROVE  wire'.bye = wire.bye /\ wire'.notes = wire.notes /\ server'.shown = server.shown
    BY <1>0, <2>1 DEF Answer, ServerType
  <2>2. ASSUME NEW c \in Calls, ServePrompted(c)
        PROVE  wire'.bye = wire.bye /\ wire'.notes = wire.notes /\ server'.shown = server.shown
    <3>1. [server EXCEPT !.request = None] \in ServerType /\ [server EXCEPT !.request = None].shown = server.shown
      BY <1>0 DEF ServerType
    <3> QED
      BY <2>1, <2>2, <3>1, ZenonT(30) DEF ServePrompted
  <2>3. CASE ServeRequest
    <3>1. PICK i \in BOOLEAN : Answer([Taken EXCEPT !.initialized = i]) /\ server.frames # <<>>
      BY <1>0, <2>3, ZenonT(30) DEF ServeRequest, Taken, ServerType
    <3>2. Taken \in ServerType /\ Taken.shown = server.shown
      <4>1. Tail(server.frames) \in Seq(Frames)
        BY <1>0, <3>1 DEF ServerType
      <4> QED
        BY <1>0, <4>1, ZenonT(30) DEF ServerType, Taken
    <3>3. [Taken EXCEPT !.initialized = i] \in ServerType /\ [Taken EXCEPT !.initialized = i].shown = server.shown
      BY <3>2 DEF ServerType
    <3> QED
      BY <1>5, <2>1, <3>1, <3>3, ZenonT(30)
  <2>4. CASE ServeStopped
    <3>1. CASE Answer(server)
      BY <1>0, <1>5, <2>1, <3>1
    <3>2. CASE server' = [server EXCEPT !.at = "draining"] /\ UNCHANGED wire
      BY <1>0, <3>2 DEF ServerType
    <3> QED
      BY <2>4, <3>1, <3>2 DEF ServeStopped
  <2>5. CASE ClientLeaves \/ WriterFails \/ ServeCleanup \/ ServeEnds \/ ServeLags \/ Signal
    BY <1>0, <2>5 DEF ClientLeaves, WriterFails, ServeCleanup, ServeEnds, ServeLags, Signal, ServerType
  <2>6. ASSUME NEW f \in Frames, ClientSends(f) PROVE wire' = wire /\ server'.shown = server.shown
    BY <1>0, <2>6 DEF ClientSends, ServerType
  <2>7. CASE ServeShutdown
    BY <1>0, <2>7 DEF ServeShutdown, Taken, ServerType
  <2>8. CASE ProcessStops
    BY <2>8 DEF ProcessStops, sdkVars
  <2> QED
    BY <1>5, <2>2, <2>3, <2>4, <2>5, <2>6, <2>7, <2>8, ZenonT(30) DEF ServerNext
<1> QED
  BY <1>1, <1>2, <1>3, <1>4, <1>5 DEF Next

\* Before boot the client has read nothing.
LEMMA ByeInit == Init => ByeInv
<1> SUFFICES ASSUME Init PROVE ByeInv
  OBVIOUS
<1>1. \A r \in Relays : relay[r].at = "off" /\ relay[r].got = 0 /\ relay[r].took = 0 /\ relay[r].lagged = FALSE
  BY ZenonT(30) DEF Init
<1>2. server.shown = 0 /\ wire.notes = 0 /\ server.at = "off" /\ wire.bye = FALSE /\ stops = 0
  BY ZenonT(30) DEF Init
<1> QED
  BY <1>1, <1>2 DEF ByeInv, RelayTells, Relays

\* Every step keeps the answer to shutdown the last thing the client reads.
LEMMA ByeStep ==
  ASSUME HostAssumption, TypeOK, AdmissionInv, GateInv, ClosingInv, ByeInv, [Next]_vars
  PROVE  ByeInv'
<1> USE DEF told
<1>0. /\ server \in ServerType /\ wire \in [answers : Nat, bye : BOOLEAN, notes : Nat]
      /\ relay \in [Relays -> RelayType] /\ stops \in Nat /\ changes \in Nat
      /\ "settings" \in Relays /\ TypeOK'
  BY TypeStep DEF TypeOK, SdkTypeOK, RelayTypeOK, Relays
<1>1. server'.shown = wire'.notes
  <2>1. CASE ServeNote
    BY <1>0, <2>1 DEF ServeNote, ByeInv, ServerType
  <2>2. CASE ServeBye
    BY <1>0, <2>2 DEF ServeBye, ByeInv, ServerType
  <2> QED
    BY <2>1, <2>2, WireApart DEF ByeInv
<1>2. admission.closing => admission'.closing
  <2>1. CASE BootNext \/ Change \/ (\E r \in Relays : RelayNext(r)) \/ UNCHANGED vars
    BY <2>1, BootApart, RestApart DEF hostVars
  <2>2. ASSUME NEW c \in Calls, CallNext(c) PROVE admission'.closing = admission.closing
    BY <2>2, CallApart
  <2>3. CASE ServerNext
    BY <2>3, ServerKinds DEF ServerGoes, ServerAsks, ServerSees, ProcessAsks, ServerDropped, hostVars
  <2>4. ASSUME NEW x \in Stoppers, StopNext(x), admission.closing PROVE admission'.closing
    BY <2>4, StopKinds, ZenonT(30) DEF StopBegin, StopsInside, StopsAtLast
  <2> QED
    BY <2>1, <2>2, <2>3, <2>4, ZenonT(30) DEF Next
<1>3. stops' = stops \/ \E x \in Stoppers : StopRelays(x)
  <2>1. CASE BootNext \/ Change \/ (\E r \in Relays : RelayNext(r)) \/ UNCHANGED vars
    BY <2>1, BootApart, RestApart DEF relayVars
  <2>2. ASSUME NEW c \in Calls, CallNext(c) PROVE stops' = stops
    BY <2>2, CallApart DEF relayVars
  <2>3. CASE ServerNext
    BY <2>3, ServerKinds DEF relayVars
  <2>4. ASSUME NEW x \in Stoppers, StopNext(x) PROVE stops' = stops \/ StopRelays(x)
    BY <2>4, StopEffects
  <2> QED
    BY <2>1, <2>2, <2>3, <2>4 DEF Next
<1>4. stops' > 0 => "settings" \notin made' /\ admission'.closing
  <2>1. CASE stops' = stops
    <3>1. ASSUME stops > 0 PROVE "settings" \notin made' /\ admission'.closing
      <4>1. Up /\ admission.closing /\ "settings" \notin made
        BY <3>1, ZenonT(30) DEF ByeInv, GateInv
      <4> QED
        BY <1>2, <4>1, MadeShrinks
    <3> QED
      BY <2>1, <3>1
  <2>2. ASSUME NEW x \in Stoppers, StopRelays(x) PROVE "settings" \notin made' /\ admission'.closing
    <3>1. stopper[x].at = "relays" /\ made' = made /\ admission' = admission
      BY <2>2 DEF StopRelays, StopAt, hostVars
    <3>2. stopper[x].closer /\ admission.closing
      BY <3>1, ZenonT(30) DEF GateInv, Drained, Holding
    <3> QED
      BY <3>1, <3>2 DEF ClosingInv, ClosingAt, After, Holding
  <2> QED
    BY <1>3, <2>1, <2>2
<1>5. stops' >= stops /\ stops' \in Nat
  BY <1>0, <1>3 DEF StopRelays
<1>6. ASSUME NEW r \in Relays, relay'[r].at \in {"drain", "ended"} PROVE stops' > 0
  <2>0. relay[r] \in RelayType
    BY <1>0
  <2>1. CASE relay'[r].at = relay[r].at
    <3>1. stops > 0
      BY <1>6, <2>1 DEF ByeInv
    <3> QED
      BY <1>0, <1>5, <3>1
  <2>2. ASSUME NEW q \in Relays, RelayNext(q) PROVE stops' > 0
    <3>1. CASE relay[q].at = "drain" /\ stops' = stops
      BY <1>0, <3>1 DEF ByeInv
    <3>2. CASE relay[q].at \in {"check", "enter"} /\ Goto(q, "enter")
      <4>1. relay'[r].at = relay[r].at \/ relay'[r].at = "enter"
        BY <1>0, <3>2 DEF Goto, RelayType
      <4> QED
        BY <1>6, <2>1, <4>1
    <3>3. CASE RelayEnter(q) \/ RelayRecv(q) \/ RelayLags(q)
      <4>1. relay'[r].at = relay[r].at \/ relay'[r].at \in {"select", "check"}
        BY <1>0, <3>3 DEF RelayEnter, RelayRecv, RelayLags, Took, RelayType
      <4> QED
        BY <1>6, <2>1, <4>1
    <3>4. CASE RelayStop(q)
      <4>1. relay[q].seen \in Nat /\ stops > relay[q].seen /\ stops' = stops
        BY <1>0, <3>4 DEF RelayStop, RelayType
      <4> QED
        BY <1>0, <4>1
    <3>5. CASE RelayCheck(q)
      BY <1>0, <3>2, <3>5 DEF RelayCheck
    <3>6. CASE RelayDrain(q)
      BY <3>1, <3>6 DEF RelayDrain
    <3> QED
      BY <2>2, <3>3, <3>4, <3>5, <3>6 DEF RelayNext
  <2>3. CASE BootNext
    <3>1. CASE BootBind
      <4>1. relay'[r] = [relay[r] EXCEPT !.at = "check"]
        BY <3>1 DEF BootBind
      <4> QED
        BY <1>6, <2>0, <4>1 DEF RelayType
    <3> QED
      BY <2>1, <2>3, <3>1, BootApart
  <2>4. CASE Change \/ ServerNext \/ (\E c \in Calls : CallNext(c)) \/ (\E x \in Stoppers : StopNext(x)) \/ UNCHANGED vars
    <3>1. relay' = relay
      BY <2>4, ServerKinds, CallApart, StopKinds, ZenonT(30) DEF Change, vars, relayVars
    <3> QED
      BY <2>1, <3>1
  <2> QED
    BY <2>2, <2>3, <2>4 DEF Next
<1>7. RelayTells'
  <2>0. /\ relay["settings"] \in RelayType /\ Kept \in Nat /\ Heard("settings") = changes
        /\ Room("settings") = Kept /\ RelayTells
    BY <1>0 DEF HostAssumption, Heard, Room, ByeInv
  <2>1. CASE relay'["settings"] = relay["settings"] /\ changes' = changes
    BY <2>0, <2>1, ZenonT(30) DEF RelayTells
  <2>2. CASE Change
    <3>1. "settings" \in made /\ relay' = relay /\ changes' = changes + 1
      BY <2>2 DEF Change
    <3>2. relay["settings"].at # "ended"
      BY <1>0, <3>1 DEF ByeInv
    <3> QED
      BY <1>0, <2>0, <3>1, <3>2 DEF RelayTells
  <2>3. CASE BootNext
    <3>1. CASE BootBind
      <4>1. relay'["settings"] = [relay["settings"] EXCEPT !.at = "check"] /\ changes' = changes
        BY <1>0, <3>1 DEF BootBind
      <4> QED
        BY <2>0, <4>1 DEF RelayTells, RelayType
    <3> QED
      BY <2>1, <2>3, <3>1, BootApart DEF relayVars
  <2>4. CASE ServerNext \/ (\E c \in Calls : CallNext(c)) \/ (\E x \in Stoppers : StopNext(x)) \/ UNCHANGED vars
    <3>1. relay' = relay /\ changes' = changes
      BY <2>4, ServerKinds, CallApart, StopKinds, ZenonT(30) DEF vars, relayVars
    <3> QED
      BY <2>1, <3>1
  <2>5. ASSUME NEW q \in Relays, RelayNext(q) PROVE RelayTells'
    <3>0. changes' = changes
      BY <2>5 DEF RelayNext, RelayCheck, RelayEnter, RelayRecv, RelayLags, RelayStop, RelayDrain
    <3>1. CASE q # "settings"
      <4>1. relay'["settings"] = relay["settings"]
        BY <1>0, <2>5, <3>1 DEF RelayNext, RelayCheck, RelayEnter, RelayRecv, RelayLags, RelayStop, RelayDrain, Took, Leave, Goto
      <4> QED
        BY <2>1, <3>0, <4>1
    <3>2. ASSUME NEW w \in {"enter", "drain", "select"},
                 \/ relay'["settings"] = [relay["settings"] EXCEPT !.at = w]
                 \/ relay'["settings"] = [relay["settings"] EXCEPT !.at = w, !.seen = stops]
          PROVE  RelayTells'
      BY <2>0, <3>0, <3>2 DEF RelayTells, RelayType
    <3>3. ASSUME NEW w \in {"check", "drain"}, Took("settings", w) PROVE RelayTells'
      <4>1. relay'["settings"] = [relay["settings"] EXCEPT !.at = w, !.got = @ + 1, !.took = @ + 1]
        BY <1>0, <3>3 DEF Took
      <4> QED
        BY <2>0, <3>0, <4>1 DEF RelayTells, RelayType
    <3>4. ASSUME Behind("settings") PROVE changes > Kept
      BY <1>0, <2>0, <3>4 DEF Behind, Lagged, RelayType
    <3>5. CASE RelayLags("settings")
      <4>1. PICK k \in 1..changes :
              relay'["settings"] = [relay["settings"] EXCEPT !.at = "check", !.got = @ + k, !.lagged = TRUE]
        BY <1>0, <2>0, <3>5 DEF RelayLags
      <4>2. Behind("settings")
        BY <3>5 DEF RelayLags, Behind
      <4> QED
        BY <2>0, <3>0, <3>4, <4>1, <4>2 DEF RelayTells, RelayType
    <3>6. CASE RelayDrain("settings")
      <4>1. CASE relay["settings"].got = Heard("settings") /\ Goto("settings", "ended")
        <5>1. relay'["settings"] = [relay["settings"] EXCEPT !.at = "ended"]
          BY <1>0, <4>1 DEF Goto
        <5> QED
          BY <2>0, <3>0, <4>1, <5>1 DEF RelayTells, RelayType
      <4>2. CASE Behind("settings") /\ relay' = [relay EXCEPT !["settings"] = [relay["settings"] EXCEPT !.at = "ended", !.lagged = TRUE]]
        <5>1. relay'["settings"] = [relay["settings"] EXCEPT !.at = "ended", !.lagged = TRUE]
          BY <1>0, <4>2
        <5> QED
          BY <2>0, <3>0, <3>4, <4>2, <5>1 DEF RelayTells, RelayType
      <4> QED
        BY <3>3, <3>6, <4>1, <4>2 DEF RelayDrain
    <3>7. CASE RelayCheck("settings") \/ RelayStop("settings")
      BY <1>0, <3>2, <3>7 DEF RelayCheck, RelayStop, Leave, Goto
    <3>8. CASE RelayEnter("settings")
      BY <1>0, <3>2, <3>8 DEF RelayEnter
    <3>9. CASE RelayRecv("settings")
      BY <3>3, <3>9 DEF RelayRecv
    <3> QED
      BY <2>5, <3>1, <3>5, <3>6, <3>7, <3>8, <3>9 DEF RelayNext
  <2> QED
    BY <2>2, <2>3, <2>4, <2>5 DEF Next
<1>8. server'.at = "draining" \/ wire'.bye => relay'["settings"].at = "ended"
  <2>1. CASE relay["settings"].at = "ended"
    <3>1. Up
      BY <1>0, <2>1 DEF ByeInv, GateInv
    <3> QED
      BY <1>0, <2>1, <3>1, RelaysStayEnded
  <2>2. CASE relay["settings"].at # "ended"
    <3>1. server.at # "draining" /\ wire.bye = FALSE
      BY <1>0, <2>2 DEF ByeInv
    <3>2. wire'.bye = FALSE
      <4>1. ~ServeBye
        BY <3>1 DEF ServeBye
      <4>2. CASE ServeNote
        BY <1>0, <3>1, <4>2 DEF ServeNote
      <4> QED
        BY <3>1, <4>1, <4>2, WireApart, ZenonT(30)
    <3>3. ASSUME server'.at = "draining" PROVE FALSE
      <4>1. ServerNext /\ ServerSees
        <5>1. CASE BootNext
          <6>1. CASE BootBind
            BY <1>0, <3>3, <6>1 DEF BootBind, ServerType
          <6> QED
            BY <3>1, <3>3, <5>1, <6>1, BootApart
        <5>2. CASE Change \/ (\E r \in Relays : RelayNext(r)) \/ UNCHANGED vars
          BY <3>1, <3>3, <5>2, RestApart DEF sdkVars
        <5>3. CASE (\E c \in Calls : CallNext(c)) \/ (\E x \in Stoppers : StopNext(x))
          BY <3>1, <3>3, <5>3, CallApart, StopKinds DEF sdkVars
        <5>4. CASE ServerNext
          BY <3>1, <3>3, <5>4, ServerKinds, ZenonT(30) DEF ServerGoes, ServerAsks, ProcessAsks, ServerDropped
        <5> QED
          BY <5>1, <5>2, <5>3, <5>4 DEF Next
      <4>2. stopper["sdk"].at = "returned" /\ server.at = "stopping" /\ "sdk" \in Stoppers
        BY <4>1 DEF ServerSees, Moves, Stoppers
      <4>3. admission.closing /\ ~cut
        BY <4>2, ZenonT(30) DEF GateInv
      <4>4. Final
        BY <4>2, <4>3, ZenonT(30) DEF ClosingInv, GateInv, After
      <4> QED
        BY <1>0, <2>2, <4>4 DEF Final
    <3> QED
      BY <3>2, <3>3
  <2> QED
    BY <2>1, <2>2
<1>9. wire'.bye => server'.shown = relay'["settings"].took /\ server'.at = "returned"
  <2>1. CASE ServeBye
    <3>1. server'.at = "returned" /\ server'.shown = server.shown /\ relay' = relay
      BY <1>0, <2>1 DEF ServeBye, ServerType, relayVars
    <3>2. wire'.bye => server.shown = relay["settings"].took
      BY <1>0, <2>1 DEF ServeBye
    <3> QED
      BY <3>1, <3>2
  <2>2. CASE wire.bye
    <3>1. server.shown = relay["settings"].took /\ server.at = "returned" /\ relay["settings"].at = "ended" /\ Up
      BY <2>2, ZenonT(30) DEF ByeInv, GateInv
    <3>2. relay'["settings"] = relay["settings"]
      BY <1>0, <3>1, RelaysStayEnded
    <3>3. ~ServeNote /\ ~ServeBye
      BY <3>1 DEF ServeNote, ServeBye, Serving
    <3>4. server'.shown = server.shown
      BY <3>3, WireApart
    <3>5. server'.at = "returned"
      <4>1. ~BootNext
        BY <3>1, BootApart DEF Up
      <4>2. CASE Change \/ (\E r \in Relays : RelayNext(r)) \/ UNCHANGED vars
        BY <3>1, <4>2, RestApart DEF sdkVars
      <4>3. CASE (\E c \in Calls : CallNext(c)) \/ (\E x \in Stoppers : StopNext(x))
        BY <3>1, <4>3, CallApart, StopKinds, ZenonT(30) DEF sdkVars
      <4>4. CASE ServerNext
        BY <3>1, <4>4, ServerKinds, ZenonT(30) DEF ServerGoes, ServerAsks, ServerSees, ProcessAsks, ServerDropped, Serving
      <4> QED
        BY <4>1, <4>2, <4>3, <4>4 DEF Next
    <3> QED
      BY <3>1, <3>2, <3>4, <3>5
  <2>3. CASE ~wire.bye /\ ~ServeBye
    <3>1. CASE ServeNote
      BY <1>0, <2>3, <3>1 DEF ServeNote
    <3> QED
      BY <2>3, <3>1, WireApart, ZenonT(30)
  <2> QED
    BY <2>1, <2>2, <2>3
<1> QED
  BY <1>1, <1>4, <1>6, <1>7, <1>8, <1>9 DEF ByeInv

-----------------------------------------------------------------------------
(* The theorems *)

\* The inductive invariant of the host.
HostInv ==
  /\ TypeOK /\ AdmissionInv /\ GateInv /\ DrainInv
  /\ ClosingInv /\ CapacityInv /\ SetupInv /\ ByeInv

\* It holds of a host whose boot begins.
LEMMA HostInit == ASSUME HostAssumption PROVE Init => HostInv
BY TypeInit, AdmissionInit, GateInit, DrainInit, ClosingInit, CapacityInit, SetupInit, ByeInit DEF HostInv

\* Every step of the host keeps it.
LEMMA HostStep == ASSUME HostAssumption PROVE HostInv /\ [Next]_vars => HostInv'
<1> SUFFICES ASSUME HostInv, [Next]_vars PROVE HostInv'
  OBVIOUS
<1>0. TypeOK /\ AdmissionInv /\ GateInv /\ DrainInv /\ ClosingInv /\ CapacityInv /\ SetupInv /\ ByeInv
  BY DEF HostInv
<1>1. TypeOK' /\ AdmissionInv' /\ GateInv'
  BY <1>0, TypeStep, AdmissionStep, GateStep
<1>2. DrainInv' /\ ClosingInv'
  BY <1>0, DrainStep, ClosingStep
<1>3. CapacityInv' /\ SetupInv' /\ ByeInv'
  BY <1>0, CapacityStep, SetupStep, ByeStep
<1> QED
  BY <1>1, <1>2, <1>3 DEF HostInv

\* What it says of each of the properties.
LEMMA HostImplies ==
  ASSUME HostAssumption, HostInv
  PROVE  ShutdownReleases /\ DrainHolds /\ DrainIsNoticed /\ CapacityHolds /\ SetupIsWhole /\ ByeIsLast
<1>0. admission.count = 0 => \A c \in Calls : ~InCall(c)
  BY InsideFinite, ZenonT(30) DEF HostInv, AdmissionInv, InsideCalls
<1>1. DrainHolds
  BY <1>0 DEF HostInv, DrainInv, DrainHolds
<1>2. DrainIsNoticed
  <2>1. admission.count = 0 => ~(admission.count > 0)
    BY DEF HostInv, TypeOK, HostTypeOK
  <2> QED
    BY <2>1 DEF HostInv, DrainInv, DrainIsNoticed
<1>3. ShutdownReleases
  <2> SUFFICES ASSUME ~cut, NEW x \in Stoppers, StopAt(x, "returned") PROVE Final
    BY <1>0 DEF ShutdownReleases, Final, Left
  <2>1. admission.closing
    BY ZenonT(30) DEF HostInv, GateInv, StopAt
  <2>2. ~\E y \in Stoppers : After(y, Holding)
    BY DEF HostInv, GateInv, After, StopAt
  <2> QED
    BY <2>1, <2>2 DEF HostInv, ClosingInv
<1>4. CapacityHolds /\ SetupIsWhole
  BY DEF HostInv, CapacityInv, SetupInv
<1>5. ByeIsLast
  BY DEF HostInv, ByeInv, RelayTells, ByeIsLast, told
<1> QED
  BY <1>1, <1>2, <1>3, <1>4, <1>5

\* The invariant of the host, for any calls, sessions, limits and faults.
THEOREM HostInvariant == ASSUME HostAssumption PROVE Spec => []HostInv
BY HostInit, HostStep, PTL DEF Spec

\* shutdown_inner: what is left when a shutdown returns is what it reported.
THEOREM ShutdownIsComplete == ASSUME HostAssumption PROVE Spec => []ShutdownReleases
<1>1. HostInv => ShutdownReleases
  BY HostImplies
<1> QED
  BY <1>1, HostInvariant, PTL

\* wait_drained: after the drain no call is admitted that could undo the closing.
THEOREM DrainIsFinal == ASSUME HostAssumption PROVE Spec => []DrainHolds
<1>1. HostInv => DrainHolds
  BY HostImplies
<1> QED
  BY <1>1, HostInvariant, PTL

\* wait_drained and the drop of an admission: no wake-up is lost.
THEOREM NoDrainIsMissed == ASSUME HostAssumption PROVE Spec => []DrainIsNoticed
<1>1. HostInv => DrainIsNoticed
  BY HostImplies
<1> QED
  BY <1>1, HostInvariant, PTL

\* ensure_agent_under_setup: the setup lock makes the check of the limit and
\* the registration of the agent one step to every other call.
THEOREM LiveAgentsBounded == ASSUME HostAssumption PROVE Spec => []CapacityHolds
<1>1. HostInv => CapacityHolds
  BY HostImplies
<1> QED
  BY <1>1, HostInvariant, PTL

\* ensure_agent_under_setup and agent_mode_select: a session has the services
\* of its agent or none of them.
THEOREM SetupsAreWhole == ASSUME HostAssumption PROVE Spec => []SetupIsWhole
<1>1. HostInv => SetupIsWhole
  BY HostImplies
<1> QED
  BY <1>1, HostInvariant, PTL

\* JsonRpcServer::serve: the answer to shutdown comes after every notice of a
\* settings change, whatever the capacities of the channels, and a change without
\* a notice is one that more changes than its channel keeps have overtaken.
THEOREM ByeComesLast == ASSUME HostAssumption PROVE Spec => []ByeIsLast
<1>1. HostInv => ByeIsLast
  BY HostImplies
<1> QED
  BY <1>1, HostInvariant, PTL

=============================================================================
