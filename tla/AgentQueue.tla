----------------------------- MODULE AgentQueue -----------------------------
(***************************************************************************)
(* The prompt queue of one session: the senders that enqueue messages, the *)
(* host's queue updates, the agent driver that claims them, cancellation   *)
(* and disposal of the agent, and crashes of the host.                     *)
(*                                                                         *)
(* Every accepted message lives twice, in the durable log (journal) and    *)
(* in the agent's memory (inbox), each with its operators below.  No lock  *)
(* spans the two: a sender appends to the log and then sends to the inbox, *)
(* an update or a claim reserves in the inbox, appends to the log and then *)
(* commits in the inbox.  Each of those is an action here, an append being *)
(* one action because it runs under the session's write gate.              *)
(*                                                                         *)
(* The host's prompt, steer and update handlers exclude each other (the    *)
(* host's setup lock); scheduled prompts, goal rounds, job notices and     *)
(* plugin sends hold no lock.                                              *)
(***************************************************************************)
EXTENDS Integers, Sequences, FiniteSetsExt, Functions, FiniteSets, TLC

-----------------------------------------------------------------------------
(* The in-memory inbox of one live agent (src/src/agent.rs, Inbox).  It is *)
(* a value guarded by one mutex, so every operation of the code is an      *)
(* operator from an inbox to an inbox.                                     *)
(*                                                                         *)
(*   followups  the next-turn FIFO;                                        *)
(*   steps      the next-step work in arrival order: step_order joined     *)
(*              with the payloads of the steers and injections queues;     *)
(*   injected   the ids of steps that are injections, not steers;          *)
(*   reserved   ids a claim or an update holds until its durable event is  *)
(*              committed.                                                 *)

\* Vec::retain and Iterator::filter: the elements of a sequence that lie in a
\* set, in their order.  The set takes the place of the predicate, so that the
\* operator is first-order.
Filter(s, S) ==
  LET keep[i \in 0..Len(s)] ==
        IF i = 0 THEN <<>> ELSE IF s[i] \in S THEN Append(keep[i - 1], s[i]) ELSE keep[i - 1]
  IN keep[Len(s)]

\* A queued message: its stable id and the version of its content.
Entry(id, body) == [id |-> id, body |-> body]

EmptyInbox == [followups |-> <<>>, steps |-> <<>>, injected |-> {}, reserved |-> {}]

\* The 1-based place of an id in a queue, 0 when it is not pending there.
PendingIndex(q, id) ==
  LET places == {i \in DOMAIN q : q[i].id = id}
  IN IF places = {} THEN 0 ELSE Min(places)

Ids(q) == {q[i].id : i \in DOMAIN q}

\* The queue with `removed` entries from the 0-based `start` on replaced by `inserted`.
Replaced(q, start, removed, inserted) ==
  SubSeq(q, 1, start) \o inserted \o SubSeq(q, start + removed + 1, Len(q))

Without(q, id) ==
  IF id \in Ids(q) THEN Replaced(q, PendingIndex(q, id) - 1, 1, <<>>) ELSE q

\* Inbox::send, for a message whose id is not pending already.
Send(ib, e, target) ==
  CASE target = "followup" -> [ib EXCEPT !.followups = Append(@, e)]
    [] target = "steer"    -> [ib EXCEPT !.steps = Append(@, e)]
    [] target = "inject"   -> [ib EXCEPT !.steps = Append(@, e), !.injected = @ \cup {e.id}]

\* Mutant: the claim ignores reservations.
NextTurnClaimReserved(ib) ==
  IF ib.followups = <<>> THEN <<>> ELSE <<Head(ib.followups)>>

\* What reserve_next_turn_claim would claim: the first followup, unless it is reserved.
NextTurnClaim(ib) ==
  IF ib.followups = <<>> \/ Head(ib.followups).id \in ib.reserved
  THEN <<>>
  ELSE <<Head(ib.followups)>>

\* What reserve_step_batch_claim would claim: everything or, if any of it is
\* reserved, nothing.
StepBatchClaim(ib) ==
  IF Ids(ib.steps) \cap ib.reserved # {} THEN <<>> ELSE ib.steps

Reserve(ib, ids) == [ib EXCEPT !.reserved = @ \cup ids]

\* commit_claim succeeds only when everything claimed is still reserved and pending.
ClaimHeld(ib, claim, target) ==
  LET queue == IF target = "next-turn" THEN ib.followups ELSE ib.steps
  IN Ids(claim) \subseteq ib.reserved \cap Ids(queue)

CommitClaim(ib, claim, target) ==
  LET unclaimed(q) == Filter(q, {e \in Range(q) : e.id \notin Ids(claim)})
  IN [ib EXCEPT !.followups = IF target = "next-turn" THEN unclaimed(@) ELSE @,
                !.steps     = IF target = "next-step" THEN unclaimed(@) ELSE @,
                !.injected  = @ \ Ids(claim),
                !.reserved  = @ \ Ids(claim)]

\* Dropping a claim or an update reservation (abort_claim, abort_reservation).
Unreserve(ib, ids) == [ib EXCEPT !.reserved = @ \ ids]

\* Mutant: an update may take an item that a claim holds.
CanReserveUpdateTwice(ib, id, update, running) ==
  \/ id \in Ids(ib.followups) /\ (update = "steer" => running)
  \/ id \in Ids(ib.steps) \ ib.injected /\ update # "steer"

\* reserve_update finds the item among the followups or the steers, never
\* among the injections, and only when nobody reserved it; steering moves
\* only followups, and only while the driver runs.
CanReserveUpdate(ib, id, update, running) ==
  /\ id \notin ib.reserved
  /\ \/ id \in Ids(ib.followups) /\ (update = "steer" => running)
     \/ id \in Ids(ib.steps) \ ib.injected /\ update # "steer"

\* The reservation: the queue it was found in, and its 0-based place there at
\* the time of the reservation, which the durable splice will name.
UpdateReservation(ib, id, update) ==
  LET followup == id \in Ids(ib.followups)
      queue    == IF followup THEN ib.followups ELSE ib.steps
      index    == PendingIndex(queue, id)
  IN [id |-> id, update |-> update,
      source |-> IF followup THEN "next-turn" ELSE "next-step",
      start |-> index - 1,
      message |-> IF update = "edit" THEN Entry(id, "edited") ELSE queue[index]]

\* commit_reservation: the update is applied by id, or not at all when the
\* reservation or the item is gone.
CommitUpdate(ib, r) ==
  LET ib1   == Unreserve(ib, {r.id})
      queue == IF r.source = "next-turn" THEN ib.followups ELSE ib.steps
      index == PendingIndex(queue, r.id)
      with(q) == IF r.source = "next-turn" THEN [ib1 EXCEPT !.followups = q]
                                           ELSE [ib1 EXCEPT !.steps = q]
  IN CASE r.id \notin ib.reserved \/ index = 0 -> ib1
       [] OTHER -> CASE r.update = "edit"   -> with([queue EXCEPT ![index] = r.message])
                     [] r.update = "remove" -> with(Without(queue, r.id))
                     [] r.update = "steer"  -> [with(Without(queue, r.id)) EXCEPT
                                                  !.steps = Append(@, queue[index])]

-----------------------------------------------------------------------------
(* The durable inbox: what replaying the agent/inbox/* and user/message    *)
(* events of a session log leaves pending (src/src/session.rs,             *)
(* InboxReplay).  append_under_gate replays the log before it admits an    *)
(* inbox event, so the events of a log always replay; the model keeps the  *)
(* replayed queues instead of the events.                                  *)
(*                                                                         *)
(*   followups, steps  the next-turn and next-step queues;                 *)
(*   enqueued          the ids the log has an agent/inbox/enqueued event   *)
(*                     for.                                                *)

EmptyJournal == [followups |-> <<>>, steps |-> <<>>, enqueued |-> {}]

Queue(j, target) == IF target = "next-turn" THEN j.followups ELSE j.steps

WithQueue(j, target, q) ==
  IF target = "next-turn" THEN [j EXCEPT !.followups = q] ELSE [j EXCEPT !.steps = q]

\* host.rs queue_target_name
TargetName(target) == IF target = "followup" THEN "next-turn" ELSE "next-step"

CanEnqueue(j, e) == e.id \notin Ids(j.followups) \cup Ids(j.steps)

Enqueue(j, e, target) ==
  [WithQueue(j, target, Append(Queue(j, target), e)) EXCEPT !.enqueued = @ \cup {e.id}]

\* The range form of agent/inbox/spliced: replace `removed` entries from the
\* 0-based `start` on by `inserted`.  The range must lie in the queue, and an
\* inserted id may be pending only inside the range it replaces.
CanSplice(j, target, start, removed, inserted) ==
  LET queue == Queue(j, target)
      range == {queue[i].id : i \in (start + 1)..(start + removed)}
  IN /\ start + removed <= Len(queue)
     /\ \A e \in {inserted[i] : i \in DOMAIN inserted} :
          e.id \in Ids(j.followups) \cup Ids(j.steps) => e.id \in range

\* Mutant: the splice removes one entry too many.
SpliceOneMore(j, target, start, removed, inserted) ==
  WithQueue(j, target, Replaced(Queue(j, target), start, removed + 1, inserted))

Splice(j, target, start, removed, inserted) ==
  WithQueue(j, target, Replaced(Queue(j, target), start, removed, inserted))

\* The action form with action "steer": by id, from next-turn to the end of
\* next-step, and only when the message is the one pending.
CanSteer(j, e) ==
  LET index == PendingIndex(j.followups, e.id)
  IN index # 0 /\ j.followups[index] = e

Steer(j, e) == [j EXCEPT !.followups = Without(@, e.id), !.steps = Append(@, e)]

\* Mutant: a user/message event leaves the queues alone.
PurgeNothing(j, id) == j

\* A user/message event takes its id out of both queues.
Purge(j, id) == [j EXCEPT !.followups = Without(@, id), !.steps = Without(@, id)]

-----------------------------------------------------------------------------
(* The state machine *)

CONSTANTS
  Messages,     \* message ids, each sent at most once
  Background,   \* senders that do not hold the setup lock
  Volatile,     \* background senders that write no enqueued event
  SendTargets,  \* the inbox targets in use
  Updates,      \* the queue updates in use
  MaxSteps,     \* the driver's max_steps
  MaxStops,     \* bound on crashes, cancellations and releases
  AppendFaults  \* whether persistence may refuse an append

Host == "host"
Senders == {Host} \cup Background

ASSUME QueueAssumption ==
  /\ Host \notin Background
  /\ Volatile \subseteq Background
  /\ SendTargets \subseteq {"followup", "steer", "inject"}
  /\ Updates \subseteq {"edit", "remove", "steer"}
  /\ MaxSteps \in Nat \ {0}
  /\ MaxStops \in Nat
  /\ AppendFaults \in BOOLEAN

VARIABLES
  journal,     \* the durable inbox of the session log
  transcript,  \* the user/message events of the log, as entries
  agent,       \* the registry's agent for the session
  inbox,       \* that agent's inbox
  woken,       \* whether wake_revision is ahead of the driver's seen_wake
  driver,      \* the agent loop
  sender,      \* per sender, its call in progress
  update,      \* the queue update in progress
  fate,        \* history: what the sender of a message was told became of it
  stops        \* crashes, cancellations and releases so far

vars == <<journal, transcript, agent, inbox, woken, driver, sender, update, fate, stops>>

NoSend == [pc |-> "idle"]
NoUpdate == [pc |-> "idle"]
DriverAt(pc) == [pc |-> pc, claim |-> <<>>, turn |-> <<>>, step |-> 0]

Init ==
  /\ journal = EmptyJournal /\ transcript = <<>>
  /\ agent = "absent" /\ inbox = EmptyInbox /\ woken = FALSE /\ driver = DriverAt("stopped")
  /\ sender = [p \in Senders |-> NoSend] /\ update = NoUpdate
  /\ fate = [m \in Messages |-> "unsent"]
  /\ stops = 0

\* An append is refused when persistence fails, and may be refused when the
\* agent is cancelled while the driver's append is on its way to the gate.
AppendMayFail(cancellable) == AppendFaults \/ (cancellable /\ agent = "cancelled")

-----------------------------------------------------------------------------
(* Senders *)

\* Mutant: a new agent resumes the next-step queue as well.
SetUpAgentWithSteps ==
  /\ agent' = "live" /\ woken' = FALSE /\ driver' = DriverAt("wait")
  /\ inbox' = [EmptyInbox EXCEPT !.followups = journal.followups \o journal.steps]

\* run_setup: a new agent resumes the durable next-turn queue, without a wake.
SetUpAgent ==
  /\ agent' = "live" /\ woken' = FALSE /\ driver' = DriverAt("wait")
  /\ inbox' = [EmptyInbox EXCEPT !.followups = journal.followups]

\* A goal, planning or command request sets the agent up under the setup lock
\* and sends nothing: what it resumes waits for somebody's wake.
EnsureAgent ==
  /\ agent = "absent" /\ sender[Host].pc = "idle" /\ update.pc = "idle"
  /\ SetUpAgent
  /\ UNCHANGED <<journal, transcript, sender, update, fate, stops>>

TargetsOf(p) ==
  SendTargets \cap (IF p = Host THEN {"followup", "steer"} ELSE {"followup", "steer", "inject"})

\* A sender looks the agent up, the host creating it when there is none.
SendBegin(p, m, target) ==
  /\ sender[p].pc = "idle" /\ fate[m] = "unsent"
  /\ p = Host => update.pc = "idle"
  /\ IF p = Host /\ agent = "absent"
     THEN SetUpAgent
     ELSE agent # "absent" /\ UNCHANGED <<agent, inbox, woken, driver>>
  /\ sender' = [sender EXCEPT ![p] = [pc |-> IF p \in Volatile THEN "deliver" ELSE "append",
                                      id |-> m, target |-> target, attached |-> TRUE]]
  /\ fate' = [fate EXCEPT ![m] = "sending"]
  /\ UNCHANGED <<journal, transcript, update, stops>>

SendAppend(p) ==
  LET s == sender[p]
      e == Entry(s.id, "sent")
  IN /\ s.pc = "append" /\ CanEnqueue(journal, e)
     /\ journal' = Enqueue(journal, e, TargetName(s.target))
     /\ sender' = [sender EXCEPT ![p].pc = "deliver"]
     /\ UNCHANGED <<transcript, agent, inbox, woken, driver, update, fate, stops>>

SendRefused(p) ==
  /\ sender[p].pc = "append" /\ AppendMayFail(FALSE)
  /\ sender' = [sender EXCEPT ![p] = NoSend]
  /\ fate' = [fate EXCEPT ![sender[p].id] = "rejected"]
  /\ UNCHANGED <<journal, transcript, agent, inbox, woken, driver, update, stops>>

\* The agent the call looked up still takes messages and wakes.
Reachable(p) == sender[p].attached /\ agent = "live"

\* AgentInner::send, under the agent's lock: refused by an agent that is
\* cancelled or disposed, which leaves the enqueued event in the log.
SendDeliver(p) ==
  LET s == sender[p]
  IN /\ s.pc = "deliver"
     /\ inbox' = IF Reachable(p) THEN Send(inbox, Entry(s.id, "sent"), s.target) ELSE inbox
     /\ sender' = [sender EXCEPT ![p] = IF Reachable(p) /\ s.target # "inject"
                                        THEN [s EXCEPT !.pc = "wake"] ELSE NoSend]
     /\ fate' = IF ~Reachable(p) THEN [fate EXCEPT ![s.id] = "rejected"]
                ELSE IF s.target = "inject" THEN [fate EXCEPT ![s.id] = "nextStep"]
                ELSE fate
     /\ UNCHANGED <<journal, transcript, agent, woken, driver, update, stops>>

\* The wake after the lock is released; by then the message may be claimed,
\* updated or dropped already, and the agent cancelled.
SendWake(p) ==
  LET s == sender[p]
  IN /\ s.pc = "wake"
     /\ woken' = (woken \/ Reachable(p))
     /\ sender' = [sender EXCEPT ![p] = NoSend]
     /\ fate' = [fate EXCEPT ![s.id] = IF @ # "sending" THEN @
                                       ELSE IF ~Reachable(p) THEN "rejected"
                                       ELSE IF s.target = "followup" THEN "accepted"
                                       ELSE "nextStep"]
     /\ UNCHANGED <<journal, transcript, agent, inbox, driver, update, stops>>

-----------------------------------------------------------------------------
(* update_queue_inner, under the setup lock *)

Running == driver.pc \notin {"wait", "stopped"}

UpdateReserve(m, u) ==
  /\ update.pc = "idle" /\ sender[Host].pc = "idle"
  /\ agent = "live" /\ CanReserveUpdate(inbox, m, u, Running)
  /\ update' = [pc |-> "append", attached |-> TRUE, r |-> UpdateReservation(inbox, m, u)]
  /\ inbox' = Reserve(inbox, {m})
  /\ UNCHANGED <<journal, transcript, agent, woken, driver, sender, fate, stops>>

\* The durable splice: by id for a steer, by the reserved place otherwise.
CanSpliceUpdate(r) ==
  IF r.update = "steer" THEN CanSteer(journal, r.message)
  ELSE CanSplice(journal, r.source, r.start, 1, IF r.update = "edit" THEN <<r.message>> ELSE <<>>)

SpliceUpdate(r) ==
  IF r.update = "steer" THEN Steer(journal, r.message)
  ELSE Splice(journal, r.source, r.start, 1, IF r.update = "edit" THEN <<r.message>> ELSE <<>>)

UpdateAppend ==
  /\ update.pc = "append" /\ CanSpliceUpdate(update.r)
  /\ journal' = SpliceUpdate(update.r)
  /\ update' = [update EXCEPT !.pc = "commit"]
  /\ fate' = IF update.r.update = "steer" THEN [fate EXCEPT ![update.r.id] = "nextStep"] ELSE fate
  /\ UNCHANGED <<transcript, agent, inbox, woken, driver, sender, stops>>

\* A refused splice drops the reservation; the user is told the update failed.
UpdateRefused ==
  /\ update.pc = "append" /\ (AppendMayFail(FALSE) \/ ~CanSpliceUpdate(update.r))
  /\ inbox' = IF update.attached THEN Unreserve(inbox, {update.r.id}) ELSE inbox
  /\ update' = NoUpdate
  /\ UNCHANGED <<journal, transcript, agent, woken, driver, sender, fate, stops>>

\* Committing wakes the driver only for a steer.
UpdateCommit ==
  LET r == update.r
      held == update.attached /\ r.id \in inbox.reserved
  IN /\ update.pc = "commit"
     /\ inbox' = IF update.attached THEN CommitUpdate(inbox, r) ELSE inbox
     /\ woken' = (woken \/ (held /\ agent = "live" /\ r.update = "steer"))
     /\ update' = NoUpdate
     /\ fate' = IF r.update = "remove" THEN [fate EXCEPT ![r.id] = "removed"] ELSE fate
     /\ UNCHANGED <<journal, transcript, agent, driver, sender, stops>>

-----------------------------------------------------------------------------
(* The driver: drive, claim_next_turn, run_turn *)

Go(pc) == driver' = [driver EXCEPT !.pc = pc]

\* Messages that leave the driver's hands without a user/message event.
Drop(ids) == [m \in Messages |-> IF m \in ids THEN "dropped" ELSE fate[m]]

DriverWake ==
  /\ driver.pc = "wait" /\ agent = "live" /\ woken
  /\ woken' = FALSE /\ Go("claim")
  /\ UNCHANGED <<journal, transcript, agent, inbox, sender, update, fate, stops>>

\* reserve_next_turn_claim
DriverClaim ==
  LET claim == NextTurnClaim(inbox)
  IN /\ driver.pc = "claim" /\ agent = "live"
     /\ inbox' = Reserve(inbox, Ids(claim))
     /\ driver' = [driver EXCEPT !.pc = IF claim = <<>> THEN "settle" ELSE "claimAppend",
                                 !.claim = claim]
     /\ UNCHANGED <<journal, transcript, agent, woken, sender, update, fate, stops>>

\* Mutant: the driver goes idle on a wake it has not acted on.
DriverSettleIdle ==
  /\ driver.pc = "settle"
  /\ woken' = FALSE /\ Go("wait")
  /\ UNCHANGED <<journal, transcript, agent, inbox, sender, update, fate, stops>>

\* With nothing to claim the driver goes idle, unless it was woken between the
\* look at the inbox and this look at the wake revision.
DriverSettle ==
  /\ driver.pc = "settle"
  /\ woken' = FALSE /\ Go(IF woken THEN "claim" ELSE "wait")
  /\ UNCHANGED <<journal, transcript, agent, inbox, sender, update, fate, stops>>

\* reserve_step_batch_claim at the start of a step.
DriverStepClaim ==
  LET claim == StepBatchClaim(inbox)
  IN /\ driver.pc = "stepClaim"
     /\ inbox' = Reserve(inbox, Ids(claim))
     /\ driver' = [driver EXCEPT !.pc = IF claim = <<>> THEN "post" ELSE "stepAppend",
                                 !.claim = claim]
     /\ UNCHANGED <<journal, transcript, agent, woken, sender, update, fate, stops>>

ClaimTarget == IF driver.pc \in {"claimAppend", "claimCommit"} THEN "next-turn" ELSE "next-step"

\* durable_inbox_claim: only a claim whose messages were all enqueued durably
\* is recorded by a splice.
DurableClaim == Ids(driver.claim) \subseteq journal.enqueued

ClaimAccepted ==
  DurableClaim => CanSplice(journal, ClaimTarget, 0, Len(driver.claim), <<>>)

DriverClaimAppend ==
  /\ driver.pc \in {"claimAppend", "stepAppend"} /\ ClaimAccepted
  /\ journal' = IF DurableClaim
                THEN Splice(journal, ClaimTarget, 0, Len(driver.claim), <<>>)
                ELSE journal
  /\ Go(IF driver.pc = "claimAppend" THEN "claimCommit" ELSE "stepCommit")
  /\ UNCHANGED <<transcript, agent, inbox, woken, sender, update, fate, stops>>

\* A refused claim drops its reservation.  A refused turn claim idles the
\* driver; a refused step claim ends run_turn, and with it the turn's message.
DriverClaimRefused ==
  /\ driver.pc \in {"claimAppend", "stepAppend"}
  /\ DurableClaim /\ (AppendMayFail(TRUE) \/ ~ClaimAccepted)
  /\ inbox' = Unreserve(inbox, Ids(driver.claim))
  /\ driver' = DriverAt(IF driver.pc = "claimAppend" THEN "wait" ELSE "claim")
  /\ fate' = Drop(Ids(driver.turn))
  /\ UNCHANGED <<journal, transcript, agent, woken, sender, update, stops>>

\* Committing a turn claim starts a turn on its message; committing a step
\* claim puts the batch before it.  A reservation lost to Inbox::clear fails both.
DriverClaimCommit ==
  /\ driver.pc \in {"claimCommit", "stepCommit"}
  /\ IF ClaimHeld(inbox, driver.claim, ClaimTarget)
     THEN /\ inbox' = CommitClaim(inbox, driver.claim, ClaimTarget)
          /\ driver' = [driver EXCEPT !.pc = IF driver.pc = "claimCommit" THEN "turn" ELSE "post",
                                      !.claim = <<>>, !.turn = driver.claim \o @]
          /\ UNCHANGED fate
     ELSE /\ inbox' = Unreserve(inbox, Ids(driver.claim))
          /\ driver' = DriverAt(IF driver.pc = "claimCommit" THEN "wait" ELSE "claim")
          /\ fate' = Drop(Ids(driver.claim \o driver.turn))
  /\ UNCHANGED <<journal, transcript, agent, woken, sender, update, stops>>

\* run_turn begins, or returns without the message when the agent was cancelled
\* meanwhile or turn/start is refused.
DriverTurnStart ==
  /\ driver.pc = "turn"
  /\ \/ /\ AppendMayFail(TRUE)
        /\ driver' = DriverAt("claim") /\ fate' = Drop(Ids(driver.turn))
     \/ /\ agent = "live"
        /\ driver' = [driver EXCEPT !.pc = "stepClaim", !.step = 1] /\ UNCHANGED fate
  /\ UNCHANGED <<journal, transcript, agent, inbox, woken, sender, update, stops>>

\* A step that finds the agent cancelled, or whose step/start is refused, ends
\* the turn before it posts anything.
DriverStepRefused ==
  /\ driver.pc = "stepClaim" /\ AppendMayFail(TRUE)
  /\ driver' = DriverAt("claim") /\ fate' = Drop(Ids(driver.turn))
  /\ UNCHANGED <<journal, transcript, agent, inbox, woken, sender, update, stops>>

\* One user/message event per message of the step, in order.
DriverPost ==
  /\ driver.pc = "post" /\ driver.turn # <<>>
  /\ transcript' = Append(transcript, Head(driver.turn))
  /\ journal' = Purge(journal, Head(driver.turn).id)
  /\ driver' = [driver EXCEPT !.turn = Tail(@)]
  /\ UNCHANGED <<agent, inbox, woken, sender, update, fate, stops>>

DriverPostRefused ==
  /\ driver.pc = "post" /\ driver.turn # <<>> /\ AppendMayFail(TRUE)
  /\ driver' = DriverAt("claim") /\ fate' = Drop(Ids(driver.turn))
  /\ UNCHANGED <<journal, transcript, agent, inbox, woken, sender, update, stops>>

\* Mutant: the turn goes on past max_steps.
DriverNextStepUnbounded ==
  /\ driver.pc = "post" /\ driver.turn = <<>> /\ agent = "live"
  /\ driver' = [driver EXCEPT !.pc = "stepClaim", !.step = @ + 1]
  /\ UNCHANGED <<journal, transcript, agent, inbox, woken, sender, update, fate, stops>>

\* The model call and its tools, then another step (tool calls, or a stop with
\* next-step work pending) ...
DriverNextStep ==
  /\ driver.pc = "post" /\ driver.turn = <<>> /\ agent = "live" /\ driver.step < MaxSteps
  /\ driver' = [driver EXCEPT !.pc = "stepClaim", !.step = @ + 1]
  /\ UNCHANGED <<journal, transcript, agent, inbox, woken, sender, update, fate, stops>>

\* ... or the end of the turn.
DriverTurnEnd ==
  /\ driver.pc = "post" /\ driver.turn = <<>>
  /\ driver' = DriverAt("claim")
  /\ UNCHANGED <<journal, transcript, agent, inbox, woken, sender, update, fate, stops>>

DriverStop ==
  /\ driver.pc \in {"wait", "claim"} /\ agent = "cancelled"
  /\ Go("stopped")
  /\ UNCHANGED <<journal, transcript, agent, inbox, woken, sender, update, fate, stops>>

-----------------------------------------------------------------------------
(* Cancellation, disposal, crash *)

\* AgentInner::cancel is a no-op on an idle agent (a compaction, which makes
\* the session busy as well, is not modelled).
Cancel(keepInbox) ==
  /\ agent = "live" /\ Running /\ stops < MaxStops
  /\ agent' = "cancelled" /\ stops' = stops + 1
  /\ inbox' = IF keepInbox THEN inbox ELSE EmptyInbox
  /\ UNCHANGED <<journal, transcript, woken, driver, sender, update, fate>>

\* cancel_all and the dispose of an agent nobody cancelled stop an idle agent
\* too, and clear its inbox.
Release ==
  /\ agent = "live" /\ stops < MaxStops
  /\ agent' = "cancelled" /\ stops' = stops + 1
  /\ inbox' = EmptyInbox
  /\ UNCHANGED <<journal, transcript, woken, driver, sender, update, fate>>

Detach == /\ sender' = [p \in Senders |-> IF sender[p].pc = "idle" THEN NoSend
                                          ELSE [sender[p] EXCEPT !.attached = FALSE]]
          /\ update' = IF update.pc = "idle" THEN update ELSE [update EXCEPT !.attached = FALSE]

\* dispose returns once the driver has stopped; the agent leaves the registry.
Dispose ==
  /\ agent = "cancelled" /\ driver.pc = "stopped"
  /\ agent' = "absent" /\ inbox' = EmptyInbox /\ woken' = FALSE
  /\ Detach
  /\ UNCHANGED <<journal, transcript, driver, fate, stops>>

\* Messages the log no longer has pending and has no user/message event for.
InHand == Ids(driver.turn) \cup
          (IF driver.pc \in {"claimCommit", "stepCommit"} THEN Ids(driver.claim) ELSE {})

\* The process dies: only the log survives.
Crash ==
  /\ agent # "absent" /\ stops < MaxStops
  /\ stops' = stops + 1
  /\ agent' = "absent" /\ inbox' = EmptyInbox /\ woken' = FALSE
  /\ driver' = DriverAt("stopped")
  /\ sender' = [p \in Senders |-> NoSend] /\ update' = NoUpdate
  /\ fate' = [m \in Messages |->
                IF fate[m] = "sending" THEN "rejected"
                ELSE IF m \in InHand THEN "dropped"
                ELSE fate[m]]
  /\ UNCHANGED <<journal, transcript>>

-----------------------------------------------------------------------------
SenderNext ==
  \/ EnsureAgent
  \/ \E p \in Senders :
       \/ \E m \in Messages, t \in TargetsOf(p) : SendBegin(p, m, t)
       \/ SendAppend(p)
       \/ SendRefused(p)
       \/ SendDeliver(p)
       \/ SendWake(p)

UpdateNext ==
  \/ \E m \in Messages, u \in Updates : UpdateReserve(m, u)
  \/ UpdateAppend
  \/ UpdateRefused
  \/ UpdateCommit

DriverNext ==
  \/ DriverWake
  \/ DriverClaim
  \/ DriverSettle
  \/ DriverStepClaim
  \/ DriverClaimAppend
  \/ DriverClaimRefused
  \/ DriverClaimCommit
  \/ DriverTurnStart
  \/ DriverStepRefused
  \/ DriverPost
  \/ DriverPostRefused
  \/ DriverNextStep
  \/ DriverTurnEnd
  \/ DriverStop

StopNext ==
  \/ \E keep \in BOOLEAN : Cancel(keep)
  \/ Release
  \/ Dispose
  \/ Crash

Next == SenderNext \/ UpdateNext \/ DriverNext \/ StopNext

\* The messages of the host are alike.
Symmetry == Permutations(Messages)

Spec == Init /\ [][Next]_vars

\* Tasks of the runtime run until they wait: the driver and every call in
\* progress keep stepping, and a cancelled agent is disposed.  Nobody is
\* obliged to send, update, cancel or crash.
Fairness ==
  /\ WF_vars(DriverNext)
  /\ \A p \in Senders : WF_vars(SendAppend(p) \/ SendRefused(p) \/ SendDeliver(p) \/ SendWake(p))
  /\ WF_vars(UpdateAppend \/ UpdateRefused \/ UpdateCommit)
  /\ WF_vars(Dispose)

FairSpec == Spec /\ Fairness

-----------------------------------------------------------------------------
(* Properties *)

Entries == [id : Messages, body : {"sent", "edited"}]

\* The queues hold messages, and every counter and control point of the driver,
\* the senders and the update is in its range (max_steps included).
TypeOK ==
  /\ journal.followups \in Seq(Entries) /\ journal.steps \in Seq(Entries)
  /\ journal.enqueued \subseteq Messages
  /\ transcript \in Seq(Entries)
  /\ agent \in {"absent", "live", "cancelled"}
  /\ inbox.followups \in Seq(Entries) /\ inbox.steps \in Seq(Entries)
  /\ inbox.injected \subseteq Ids(inbox.steps)
  /\ inbox.reserved \subseteq Messages
  /\ woken \in BOOLEAN /\ stops \in 0..MaxStops
  /\ driver.pc \in {"stopped", "wait", "claim", "settle", "claimAppend", "claimCommit", "turn",
                    "stepClaim", "stepAppend", "stepCommit", "post"}
  /\ driver.claim \in Seq(Entries) /\ driver.turn \in Seq(Entries)
  /\ driver.step \in 0..MaxSteps
  /\ \A p \in Senders : sender[p].pc \in {"idle", "append", "deliver", "wake"}
  /\ update.pc \in {"idle", "append", "commit"}
  /\ fate \in [Messages -> {"unsent", "sending", "accepted", "nextStep",
                             "rejected", "removed", "dropped"}]

\* No message is ever written to the conversation twice, whatever the crashes,
\* cancellations, resumed queues and lost reservations in between.
AtMostOnce ==
  \A i, j \in DOMAIN transcript : transcript[i].id = transcript[j].id => i = j

Copies(m) ==
  {e \in Range(journal.followups) \cup Range(journal.steps) \cup Range(inbox.followups)
         \cup Range(inbox.steps) \cup Range(driver.claim) \cup Range(driver.turn) : e.id = m}

\* Outside an edit's own window between its durable splice and its commit, all
\* copies of a message (log, inbox, the driver's claim and turn) have one
\* content: the driver never posts a text the user has replaced.
ContentAgrees ==
  \A m \in Messages :
    (update.pc = "commit" /\ update.r.id = m) \/ Cardinality(Copies(m)) <= 1

\* An item under a queue update is not at the same time claimed by the driver,
\* although no lock is held between the reservation and the commit of either.
UpdateExcludesClaim ==
  update.pc # "idle" /\ update.attached => update.r.id \notin Ids(driver.claim)

\* pending_next_turn_inbox: the log replays to exactly the next-turn messages
\* not yet claimed, in FIFO order, corrected for the call that is between its
\* durable event and its commit.
ReplayIsUnclaimedQueue ==
  LET leaving == (IF driver.pc = "claimCommit" THEN Ids(driver.claim) ELSE {})
                 \cup (IF update.pc = "commit" /\ update.r.update \in {"steer", "remove"}
                       THEN {update.r.id} ELSE {})
      arriving == {p \in Senders : sender[p].pc = "deliver" /\ sender[p].target = "followup"}
  IN agent = "live" =>
       /\ Ids(journal.followups) \ {sender[p].id : p \in arriving}
            = (Ids(inbox.followups) \cap journal.enqueued) \ leaving
       /\ arriving = {} /\ update.pc = "idle" =>
            journal.followups =
              Filter(inbox.followups, {e \in Range(inbox.followups) :
                                         e.id \in journal.enqueued \ leaving})

\* An accepted next-turn message is in the conversation, in the driver's hands,
\* or in the log's next-turn queue for the next agent to resume: no crash,
\* cancellation or claim of another message makes it vanish.  (Next-step
\* messages are not resumed; those the driver was holding when it was
\* cancelled or killed are dropped.)
AcceptedIsAccountedFor ==
  \A m \in Messages : fate[m] = "accepted" =>
    m \in Ids(transcript) \cup InHand \cup Ids(journal.followups)

\* Somebody is about to wake the driver, has woken it, or it is at work.
Roused ==
  woken \/ Running \/ \E p \in Senders : sender[p].pc = "wake" /\ sender[p].attached

\* Whatever is in the next-turn queue of a live agent when its driver is woken,
\* or arrives while it is at work, is eventually claimed: the messages sent to
\* this agent, and with the first of them all the ones it resumed (drive, send).
\* A set-up alone wakes nobody: until then the resumed ones wait.
NextTurnIsServed ==
  \A m \in Messages :
    (agent = "live" /\ m \in Ids(inbox.followups) /\ Roused)
      ~> (agent # "live" \/ m \notin Ids(inbox.followups))
=============================================================================
