---------------------------- MODULE Interaction ----------------------------
(***************************************************************************)
(* Asking the user: tool approvals (src/src/approval.rs) and the           *)
(* ask_user_question tool (src/src/question.rs) of one agent generation,   *)
(* the relay that shows the session's log to the browser registries, and   *)
(* the host's stop request (src/src/host.rs, cancel_inner).                *)
(*                                                                         *)
(* The calls run inside one turn, in parallel, and share the agent's       *)
(* cancellation token.  An append reads next_seq() before it waits for the *)
(* session's write gate, so it fails when another event got there first.   *)
(***************************************************************************)
EXTENDS Integers, Sequences, FiniteSets, SequencesExt

CONSTANTS
  Approvals,   \* approval calls
  Questions,   \* ask_user_question calls
  Policies,    \* calls of set_policy
  CallSets,    \* which of them are made during a turn
  Stopped,     \* those of CallSets during which the host is asked to stop
  MaxPending   \* HostApprovalRegistryInner.max_pending

VARIABLES
  log,       \* Session.state.events of the turn
  relayed,   \* how many of them relay_event has handled
  token,     \* whether the agent's CancellationToken fired
  agent,     \* cancelled: AgentState.cancellation is set; the rest by name
  slot,      \* whether the generation's slots are installed in the registries
  stop,      \* where the host's cancel_inner is
  policy,    \* ApprovalState.policy
  gate,      \* who holds ApprovalInner.write_gate
  pc,        \* where a call is
  seqRead,   \* the sequence number a call read for its append
  out,       \* a call's outcome
  entry,     \* its pending entry: none, open, claimed, gone
  sender,    \* its oneshot: held, dropped, <<"flying", r>>, <<"sent", r>>
  receipt,   \* how a call was answered: the browser's accepted response, a
             \* local answerer, or a response that was not pending
  expired,   \* whether an approval's deadline passed
  known,     \* PendingState.relayed_order
  shown      \* Requested and Resolved notices of a call

Calls == Approvals \cup Questions \cup Policies
callVars == <<pc, seqRead, out>>
hostVars == <<entry, sender, receipt, known, shown>>
vars == <<log, relayed, token, agent, slot, stop, policy, gate, callVars,
          hostVars, expired>>

Event(t, c, r) == [type |-> t, call |-> c, res |-> r]
Logged(t, c) == \E i \in DOMAIN log : log[i].type = t /\ log[i].call = c
Position(t, c) == CHOOSE i \in DOMAIN log : log[i].type = t /\ log[i].call = c
TurnActive == ~\E i \in DOMAIN log : log[i].type = "turn/end"
Live == agent.registered /\ ~agent.disposed

Init ==
  /\ log = <<>> /\ relayed = 0 /\ token = FALSE
  /\ agent = [running |-> TRUE, cancelled |-> FALSE, disposed |-> FALSE,
              registered |-> TRUE]
  /\ slot = TRUE /\ policy = "ask" /\ gate = "free"
  /\ \E S \in CallSets :
       /\ pc = [c \in Calls |-> IF c \in S THEN "new" ELSE "unused"]
       /\ stop = IF S \in Stopped THEN "none" ELSE "never"
  /\ seqRead = [c \in Calls |-> 0]
  /\ out = [c \in Calls |-> "none"]
  /\ entry = [c \in Calls |-> "none"] /\ sender = [c \in Calls |-> <<"held", "none">>]
  /\ receipt = [c \in Calls |-> "none"] /\ expired = [c \in Approvals |-> FALSE]
  /\ known = <<>>
  /\ shown = [c \in Calls |-> [requested |-> 0, resolved |-> 0]]

Goto(c, l) == pc' = [pc EXCEPT ![c] = l]
Ends(c, r) == Goto(c, "done") /\ out' = [out EXCEPT ![c] = r]
Decides(c, r) == Goto(c, "gate2") /\ out' = [out EXCEPT ![c] = r]
Requested(c) == shown' = [shown EXCEPT ![c].requested = @ + 1]

-----------------------------------------------------------------------------
(* ApprovalService::approve_with_audit *)

\* The checks before the write gate; all calls are made in the active turn.
BeginApproval(a) ==
  /\ pc[a] = "new" /\ agent.running
  /\ CASE ~Live -> Ends(a, "unavailable")
       [] Live /\ token -> Ends(a, "cancelled")
       [] Live /\ ~token /\ ~TurnActive -> Ends(a, "unavailable")
       [] OTHER -> Goto(a, "gate1") /\ out' = out
  /\ UNCHANGED <<log, relayed, token, agent, slot, stop, policy, gate, seqRead,
                 hostVars, expired>>

\* The checks are repeated under the gate, which also keeps the policy still.
TakeGate(a) ==
  /\ pc[a] = "gate1" /\ gate = "free"
  /\ IF token THEN Ends(a, "cancelled") /\ UNCHANGED <<gate, seqRead>>
     ELSE IF ~Live \/ ~TurnActive THEN Ends(a, "rejected") /\ UNCHANGED <<gate, seqRead>>
     ELSE /\ gate' = "held" /\ Goto(a, "asking")
          /\ seqRead' = [seqRead EXCEPT ![a] = Len(log)]
          /\ out' = out
  /\ UNCHANGED <<log, relayed, token, agent, slot, stop, policy, hostVars, expired>>

\* Session::append refuses a cancelled token and a stale sequence number; the
\* persistence may fail.
AppendOk(c, cancellable) == seqRead[c] = Len(log) /\ ~(cancellable /\ token)

AppendAsked(a) ==
  /\ pc[a] = "asking" /\ gate' = "free"
  /\ \/ /\ AppendOk(a, TRUE)
        /\ log' = Append(log, Event("approval/asked", a, policy))
        /\ Goto(a, "asked") /\ out' = out
     \/ log' = log /\ Ends(a, "rejected")
  /\ seqRead' = [seqRead EXCEPT ![a] = 0]
  /\ UNCHANGED <<relayed, token, agent, slot, stop, policy, hostVars, expired>>

\* The policy the call read under the gate and wrote with its asked event.
AskedUnder(a) == log[Position("approval/asked", a)].res

\* A cancelled token, a denying hook, the policy `never`, or an answerer
\* registered before the host's.
DecideLocally(a) ==
  /\ pc[a] = "asked"
  /\ \/ token /\ Decides(a, "cancelled")
     \/ ~token /\ Decides(a, "rejected")
     \/ ~token /\ AskedUnder(a) = "ask" /\ Decides(a, "unavailable")
     \/ ~token /\ AskedUnder(a) = "ask" /\ Decides(a, "allowed")
     \/ ~token /\ AskedUnder(a) = "ask" /\ Goto(a, "register") /\ out' = out
  /\ receipt' = [receipt EXCEPT ![a] = IF out'[a] = "allowed" THEN "local" ELSE @]
  /\ UNCHANGED <<log, relayed, token, agent, slot, stop, policy, gate, seqRead,
                 entry, sender, known, shown, expired>>

Open == {a \in Approvals : entry[a] \in {"open", "claimed"}}

\* Mutant: a request whose asked event was relayed already is not announced.
RegisterSilently(a) ==
  /\ pc[a] = "register" /\ ~token /\ slot /\ Live /\ Cardinality(Open) < MaxPending
  /\ entry' = [entry EXCEPT ![a] = "open"] /\ Goto(a, "waiting")
  /\ UNCHANGED <<log, relayed, token, agent, slot, stop, policy, gate, seqRead, out,
                 expired, sender, receipt, known, shown>>

\* HostApprovalRegistry::register_pending; a refusal ends the waterfall.
RegisterPending(a) ==
  /\ pc[a] = "register"
  /\ IF token THEN Decides(a, "cancelled") /\ UNCHANGED hostVars
     ELSE IF ~slot \/ ~Live \/ Cardinality(Open) >= MaxPending
     THEN Decides(a, "unavailable") /\ UNCHANGED hostVars
     ELSE /\ entry' = [entry EXCEPT ![a] = "open"]
          /\ IF Contains(known, a) THEN Requested(a) ELSE shown' = shown
          /\ Goto(a, "waiting") /\ out' = out
          /\ UNCHANGED <<sender, receipt, known>>
  /\ UNCHANGED <<log, relayed, token, agent, slot, stop, policy, gate, seqRead, expired>>

\* The biased select of HostApprovalRegistry::answer: cancellation, the
\* browser's response, a dropped sender.
ReceiveApproval(a) ==
  /\ pc[a] = "waiting"
  /\ \/ token /\ Decides(a, "cancelled")
     \/ ~token /\ sender[a] = <<"sent", "allow">> /\ Decides(a, "allowed")
     \/ ~token /\ sender[a] = <<"sent", "deny">> /\ Decides(a, "rejected")
  /\ UNCHANGED <<log, relayed, token, agent, slot, stop, policy, gate, seqRead,
                 hostVars, expired>>

Expire(a) ==
  /\ pc[a] = "waiting" /\ ~expired[a]
  /\ expired' = [expired EXCEPT ![a] = TRUE]
  /\ UNCHANGED <<log, relayed, token, agent, slot, stop, policy, gate, callVars, hostVars>>

\* The sleep branch wins; the receiver is dropped, then claim_timeout runs.
TimeOut(a) ==
  /\ pc[a] = "waiting" /\ expired[a] /\ ~token /\ sender[a][1] \in {"held", "flying"}
  /\ Goto(a, "timedout")
  /\ UNCHANGED <<log, relayed, token, agent, slot, stop, policy, gate, seqRead, out,
                 hostVars, expired>>

ClaimTimeout(a) ==
  /\ pc[a] = "timedout" /\ Decides(a, "unavailable")
  /\ entry' = [entry EXCEPT ![a] = IF @ = "open" THEN "claimed" ELSE @]
  /\ sender' = [sender EXCEPT ![a] = IF @[1] = "held" THEN <<"dropped", "none">> ELSE @]
  /\ UNCHANGED <<log, relayed, token, agent, slot, stop, policy, gate, seqRead,
                 receipt, known, shown, expired>>

\* Mutant: the policy is read again when the decision is written.
DemoteByPolicy(a) == IF out[a] = "allowed" /\ policy = "never" THEN "rejected" ELSE out[a]

\* The second gate: an `allowed' that is late is demoted.
Demote(a) ==
  IF out[a] # "allowed" THEN out[a]
  ELSE IF token THEN "cancelled"
  ELSE IF ~Live \/ ~TurnActive THEN "rejected" ELSE "allowed"

TakeDecisionGate(a) ==
  /\ pc[a] = "gate2" /\ gate = "free" /\ gate' = "held"
  /\ Goto(a, "deciding") /\ out' = [out EXCEPT ![a] = Demote(a)]
  /\ seqRead' = [seqRead EXCEPT ![a] = Len(log)]
  /\ UNCHANGED <<log, relayed, token, agent, slot, stop, policy, hostVars, expired>>

\* Mutant: a decision that could not be written is returned all the same.
DecidedUnlogged(a) ==
  /\ pc[a] = "deciding" /\ gate' = "free"
  /\ \/ /\ AppendOk(a, FALSE)
        /\ log' = Append(log, Event("approval/decided", a, out[a]))
     \/ log' = log
  /\ Ends(a, out[a])
  /\ seqRead' = [seqRead EXCEPT ![a] = 0]
  /\ UNCHANGED <<relayed, token, agent, slot, stop, policy, hostVars, expired>>

AppendDecided(a) ==
  /\ pc[a] = "deciding" /\ gate' = "free"
  /\ \/ /\ AppendOk(a, FALSE)
        /\ log' = Append(log, Event("approval/decided", a, out[a]))
        /\ Ends(a, out[a])
     \/ log' = log /\ Ends(a, "rejected")
  /\ seqRead' = [seqRead EXCEPT ![a] = 0]
  /\ UNCHANGED <<relayed, token, agent, slot, stop, policy, hostVars, expired>>

\* ApprovalService::set_policy, under the same gate.
SetPolicy(c, p) ==
  /\ pc[c] = "new" /\ p # policy /\ gate = "free" /\ Live /\ ~token
  /\ Goto(c, "done")
  /\ \/ log' = Append(log, Event("approval/policy", c, p)) /\ policy' = p
     \/ UNCHANGED <<log, policy>>
  /\ UNCHANGED <<relayed, token, agent, slot, stop, gate, seqRead, out, hostVars, expired>>

-----------------------------------------------------------------------------
(* HostApprovalRegistry::respond: the claim under the lock, then the send *)

Claim(a, r) ==
  /\ entry[a] = "open" /\ ~expired[a]
  /\ entry' = [entry EXCEPT ![a] = "claimed"]
  /\ sender' = [sender EXCEPT ![a] = <<"flying", r>>]
  /\ UNCHANGED <<log, relayed, token, agent, slot, stop, policy, gate, callVars,
                 receipt, known, shown, expired>>

\* Whether a call still holds the receiving end of its oneshot.
Receiving(c) == pc[c] \in {"waiting", "timedout", "qasking"}

Send(c) ==
  /\ sender[c][1] = "flying"
  /\ sender' = [sender EXCEPT ![c] = <<"sent", @[2]>>]
  /\ receipt' = [receipt EXCEPT ![c] = IF Receiving(c) THEN sender[c][2] ELSE "notPending"]
  /\ UNCHANGED <<log, relayed, token, agent, slot, stop, policy, gate, callVars,
                 entry, known, shown, expired>>

-----------------------------------------------------------------------------
(* HostQuestionRegistry::ask and its answers *)

\* The entry is registered before question/asked is written.
BeginQuestion(q) ==
  /\ pc[q] = "new" /\ agent.running
  /\ IF token \/ ~slot \/ ~Live \/ ~TurnActive
     THEN Ends(q, "error") /\ UNCHANGED <<entry, seqRead>>
     ELSE /\ entry' = [entry EXCEPT ![q] = "open"]
          /\ seqRead' = [seqRead EXCEPT ![q] = Len(log)]
          /\ Goto(q, "qasking") /\ out' = out
  /\ UNCHANGED <<log, relayed, token, agent, slot, stop, policy, gate,
                 sender, receipt, known, shown, expired>>

RemovePending(q) == entry' = [entry EXCEPT ![q] = "gone"]

AppendQuestionAsked(q) ==
  /\ pc[q] = "qasking"
  /\ \/ /\ AppendOk(q, TRUE)
        /\ log' = Append(log, Event("question/asked", q, "none"))
        /\ Goto(q, "waiting") /\ Requested(q) /\ UNCHANGED <<out, entry>>
     \/ log' = log /\ Ends(q, "error") /\ RemovePending(q) /\ shown' = shown
  /\ seqRead' = [seqRead EXCEPT ![q] = 0]
  /\ UNCHANGED <<relayed, token, agent, slot, stop, policy, gate,
                 sender, receipt, known, expired>>

\* The biased select, then the checks that turn a late answer into a
\* cancellation.
ReceiveAnswer(q) ==
  /\ pc[q] = "waiting" /\ (token \/ sender[q][1] = "sent")
  /\ Goto(q, "qresolving")
  /\ out' = [out EXCEPT ![q] =
       IF sender[q] = <<"sent", "answer">> /\ ~token /\ TurnActive /\ slot /\ Live
       THEN "answered" ELSE "cancelled"]
  /\ seqRead' = [seqRead EXCEPT ![q] = Len(log)]
  /\ UNCHANGED <<log, relayed, token, agent, slot, stop, policy, gate, hostVars, expired>>

AppendResolved(q) ==
  /\ pc[q] = "qresolving" /\ RemovePending(q)
  /\ \/ /\ AppendOk(q, FALSE)
        /\ log' = Append(log, Event("question/resolved", q, out[q]))
        /\ shown' = [shown EXCEPT ![q].resolved = @ + 1] /\ Ends(q, out[q])
     \/ log' = log /\ Ends(q, "error") /\ shown' = shown
  /\ seqRead' = [seqRead EXCEPT ![q] = 0]
  /\ UNCHANGED <<relayed, token, agent, slot, stop, policy, gate,
                 sender, receipt, known, expired>>

\* respond_answer and respond_cancelled take the entry out, then send.
RespondQuestion(q, r) ==
  /\ entry[q] = "open" /\ RemovePending(q)
  /\ sender' = [sender EXCEPT ![q] = <<"flying", r>>]
  /\ UNCHANGED <<log, relayed, token, agent, slot, stop, policy, gate, callVars,
                 receipt, known, shown, expired>>

-----------------------------------------------------------------------------
(* Cancellation by the registries *)

\* cancel_pending claims every unclaimed approval entry, fires the call's
\* token, which is the agent's, and drops the sender.
CancelsToken == \E a \in Approvals : entry[a] = "open"

\* cancel_pending and cancel_where, as they leave entries and senders.
CancelEntries(A, Q) ==
  /\ entry' = [c \in Calls |->
       IF c \in A /\ entry[c] = "open" THEN "claimed"
       ELSE IF c \in Q /\ entry[c] = "open" THEN "gone" ELSE entry[c]]
  /\ sender' = [c \in Calls |->
       IF c \in A /\ entry[c] = "open" THEN <<"dropped", "none">>
       ELSE IF c \in Q /\ entry[c] = "open" THEN <<"sent", "cancel">> ELSE sender[c]]

Remember(a) ==
  IF MaxPending = 0 \/ Contains(known, a) THEN known
  ELSE IF Len(known) < MaxPending THEN Append(known, a) ELSE Append(Tail(known), a)

ObserveAsked(a) ==
  /\ known' = Remember(a)
  /\ IF entry[a] = "open" THEN Requested(a) ELSE shown' = shown
  /\ UNCHANGED <<entry, sender, token>>

ObserveDecided(a) ==
  /\ IF entry[a] \in {"open", "claimed"}
     THEN entry' = [entry EXCEPT ![a] = "gone"] /\ shown' = [shown EXCEPT ![a].resolved = @ + 1]
     ELSE UNCHANGED <<entry, shown>>
  /\ UNCHANGED <<sender, known, token>>

ObserveTurnEnd ==
  /\ CancelEntries(Approvals, Questions) /\ token' = (token \/ CancelsToken)
  /\ UNCHANGED <<known, shown>>

\* relay_event: the next event of the log, in order.
Relay ==
  /\ relayed < Len(log) /\ relayed' = relayed + 1
  /\ LET e == log[relayed + 1] IN
       CASE e.type = "approval/asked" -> ObserveAsked(e.call)
         [] e.type = "approval/decided" -> ObserveDecided(e.call)
         [] e.type = "turn/end" -> ObserveTurnEnd
         [] OTHER -> UNCHANGED <<entry, sender, known, shown, token>>
  /\ UNCHANGED <<log, agent, slot, stop, policy, gate, callVars, receipt, expired>>

-----------------------------------------------------------------------------
(* The turn around the calls *)

\* run_tools awaits every call it started before the turn can end.
EndTurn ==
  /\ agent.running /\ \A c \in Calls : pc[c] \in {"new", "done", "unused"}
  /\ log' = Append(log, Event("turn/end", "none", "none"))
  /\ agent' = [agent EXCEPT !.running = FALSE]
  /\ UNCHANGED <<relayed, token, slot, stop, policy, gate, callVars, hostVars, expired>>

-----------------------------------------------------------------------------
(* HostHandle::cancel_inner *)

StopInteractions ==
  /\ stop = "none" /\ stop' = "cancel"
  /\ CancelEntries(Approvals, Questions) /\ token' = (token \/ CancelsToken)
  /\ UNCHANGED <<log, relayed, agent, slot, policy, gate, callVars,
                 receipt, known, shown, expired>>

\* AgentInner::cancel, the first of the generation.  The answer of
\* CancellationToken::cancel() for a token that had already fired belongs to
\* tessivum_core and is left open.
CancelAgent ==
  /\ stop = "cancel"
  /\ IF ~agent.running
     THEN UNCHANGED <<agent, token>> /\ stop' = "done"
     ELSE /\ agent' = [agent EXCEPT !.cancelled = TRUE] /\ token' = TRUE
          /\ \/ stop' = "release"
             \/ token /\ stop' = "done"
  /\ UNCHANGED <<log, relayed, slot, policy, gate, callVars, hostVars, expired>>

\* release_owned_agent drops both registrations; their close cancels what is
\* left of the generation.
ReleaseOwned ==
  /\ stop = "release" /\ stop' = "dispose" /\ slot' = FALSE
  /\ CancelEntries(Approvals, Questions) /\ token' = (token \/ CancelsToken)
  /\ UNCHANGED <<log, relayed, agent, policy, gate, callVars,
                 receipt, known, shown, expired>>

\* AgentInner::dispose marks the agent, waits for the driver, then leaves the
\* registry.
Dispose ==
  /\ stop = "dispose" /\ ~agent.disposed
  /\ agent' = [agent EXCEPT !.disposed = TRUE] /\ token' = TRUE
  /\ UNCHANGED <<log, relayed, slot, stop, policy, gate, callVars, hostVars, expired>>

Disposed ==
  /\ stop = "dispose" /\ agent.disposed /\ ~agent.running
  /\ agent' = [agent EXCEPT !.registered = FALSE] /\ stop' = "done"
  /\ UNCHANGED <<log, relayed, token, slot, policy, gate, callVars, hostVars, expired>>

-----------------------------------------------------------------------------
Next ==
  \/ \E a \in Approvals :
       \/ BeginApproval(a) \/ TakeGate(a) \/ AppendAsked(a) \/ DecideLocally(a)
       \/ RegisterPending(a) \/ ReceiveApproval(a) \/ Expire(a) \/ TimeOut(a)
       \/ ClaimTimeout(a) \/ TakeDecisionGate(a) \/ AppendDecided(a)
       \/ \E r \in {"allow", "deny"} : Claim(a, r)
  \/ \E q \in Questions :
       \/ BeginQuestion(q) \/ AppendQuestionAsked(q) \/ ReceiveAnswer(q) \/ AppendResolved(q)
       \/ \E r \in {"answer", "cancel"} : RespondQuestion(q, r)
  \/ \E c \in Calls : Send(c)
  \/ \E c \in Policies, p \in {"ask", "never"} : SetPolicy(c, p)
  \/ Relay \/ EndTurn
  \/ StopInteractions \/ CancelAgent \/ ReleaseOwned \/ Dispose \/ Disposed

Spec == Init /\ [][Next]_vars

-----------------------------------------------------------------------------
PolicyAt(i) ==
  LET P == {j \in 1 .. i - 1 : log[j].type = "approval/policy"}
  IN  IF P = {} THEN "ask" ELSE log[CHOOSE j \in P : \A k \in P : k <= j].res

\* A tool runs only on a decision that is on the log as `allowed' after its
\* asked event, that the user (or a local answerer) gave, and that the policy
\* in force where the asked event stands in the log permits; an answer reaches
\* the model only with question/asked and question/resolved on the log
\* (approve_with_audit, HostQuestionRegistry::ask).
OutcomeIsDurable ==
  /\ \A a \in Approvals : pc[a] = "done" /\ out[a] = "allowed" =>
       /\ Logged("approval/asked", a) /\ Logged("approval/decided", a)
       /\ Position("approval/asked", a) < Position("approval/decided", a)
       /\ log[Position("approval/decided", a)].res = "allowed"
       /\ receipt[a] \in {"allow", "local"}
       /\ PolicyAt(Position("approval/asked", a)) = "ask"
  /\ \A q \in Questions : pc[q] = "done" /\ out[q] = "answered" =>
       /\ Logged("question/asked", q) /\ Logged("question/resolved", q)
       /\ log[Position("question/resolved", q)].res = "answered"
       /\ receipt[q] = "answer"

\* A response the browser was told is accepted decides its call, unless the
\* agent was cancelled, the approval's deadline passed, or the decision could
\* not be written (respond, respond_answer, the biased selects).
AcceptedIsHonoured ==
  \A c \in Calls :
    pc[c] = "done" /\ receipt[c] \in {"allow", "deny", "answer", "cancel"} /\ ~token =>
      \/ out[c] = CASE receipt[c] = "allow" -> "allowed" [] receipt[c] = "deny" -> "rejected"
                    [] receipt[c] = "answer" -> "answered" [] OTHER -> "cancelled"
      \/ c \in Approvals /\ expired[c]
      \/ ~Logged("approval/decided", c) /\ ~Logged("question/resolved", c)

\* However the relay and the registration interleave, a request that is open
\* and whose asked event was relayed has been announced exactly once, and no
\* call is announced or resolved twice (register_pending, observe_asked).
AnnouncedOnce ==
  /\ \A a \in Approvals : entry[a] = "open" /\ Contains(known, a) => shown[a].requested = 1
  /\ \A c \in Calls : shown[c].requested <= 1 /\ shown[c].resolved <= 1

\* docs/PHASE3_PRODUCT_PLAN.md, B1: after a stop the next prompt continues the
\* session with a fresh generation, so the stopped generation is gone.
StopFreesSession == stop = "done" => ~(agent.registered /\ ~agent.disposed /\ token)
=============================================================================
