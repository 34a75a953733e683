-------------------------- MODULE AgentQueueProofs --------------------------
(***************************************************************************)
(* The claims, posts and commits of AgentQueue keep the invariant of       *)
(* AgentQueueInvariant, and the theorems that follow, for every value of   *)
(* the constants.                                                          *)
(***************************************************************************)
EXTENDS AgentQueueInvariant, FiniteSetTheorems

\* Time, and further attempts, for a leaf on a loaded machine.
USE SMTT(30), ZenonT(30), SMTT(40), SMTT(50), SMTT(60)

\* A claim reserves what it takes, and takes only what nobody reserved.
LEMMA Claims ==
  ASSUME IInv, driver.pc # "stopped", NEW claim \in Seq(Entries),
         Range(claim) \subseteq Range(inbox.followups) \cup Range(inbox.steps),
         Distinct(claim), Ids(claim) \cap inbox.reserved = {},
         driver' \in Drivers, driver'.claim = claim, driver'.turn = driver.turn,
         inbox' = Reserve(inbox, Ids(claim)),
         UNCHANGED <<journal, transcript, agent, woken, sender, update, fate, stops>>
  PROVE  IInv'
<1>1. Ids(claim) \subseteq Inboxed
  BY IdsOfRange DEF Inboxed
<1>2. Ids(claim) \subseteq Messages
  <2>1. Range(claim) \subseteq Entries
    BY QueueFacts
  <2> QED BY <2>1, IdsOfRange DEF Entries
<1>3. /\ inbox' \in Inboxes /\ inbox'.followups = inbox.followups /\ inbox'.steps = inbox.steps
      /\ inbox'.injected = inbox.injected /\ inbox'.reserved = inbox.reserved \cup Ids(claim)
  BY <1>2, ZenonT(30) DEF IInv, Shape, Reserve, Inboxes
<1>4. Inboxed' = Inboxed /\ Logged' = Logged /\ Journaled' = Journaled /\ Held' \subseteq Held
  BY <1>3 DEF Inboxed, Held, Logged, Journaled
<1>5. Gone => Gone' /\ Ids(claim) = {}
  <2>1. Gone => Inboxed = {}
    BY EmptyInboxIs, EmptyQueue DEF Gone, Inboxed
  <2>2. Gone => Ids(claim) = {}
    BY <1>1, <2>1
  <2> QED BY <1>3, <2>2, EmptyInboxIs, EmptyQueue, NothingInbox DEF Gone
<1>6. ASSUME NEW n, Untouched(n) PROVE Untouched(n)'
  BY <1>1, <1>4, <1>6 DEF Untouched
<1>7. Shape' /\ OncePerPlace' /\ OnePlace'
  BY <1>1, <1>3, <1>4 DEF IInv, Shape, OncePerPlace, OnePlace
<1>8. ClaimIsHeld' /\ AbsentIsClean'
  BY <1>3, RunningIsPresent DEF ClaimIsHeld, AbsentIsClean
<1>9. UnsentIsNowhere'
  BY <1>4, <1>6 DEF IInv, UnsentIsNowhere
<1>10. SendersApart'
  <2> SUFFICES ASSUME NEW q \in Senders, Sending(q)'
               PROVE  /\ \A s \in Senders : Sending(s)' /\ sender'[s].id = sender'[q].id => s = q
                      /\ sender'[q].pc = "append" => Untouched(sender[q].id)' /\ sender'[q].id \notin Journaled'
                      /\ sender'[q].attached => Untouched(sender[q].id)'
    BY DEF SendersApart
  <2>1. PICK n : n = sender[q].id
    OBVIOUS
  <2>2. Untouched(n)' => Untouched(sender[q].id)'
    BY <2>1 DEF Untouched
  <2>3. \A s \in Senders : Sending(s)' <=> Sending(s)
    BY DEF Sending
  <2> QED BY <1>4, <1>6, <2>1, <2>2, <2>3 DEF IInv, SendersApart
<1>11. UpdateIsHeld'
  <2>1. update.pc # "idle" => update.r.id \notin Ids(claim)
    BY <1>5 DEF IInv, UpdateIsHeld
  <2> QED BY <1>3, <1>5, <2>1 DEF IInv, UpdateIsHeld
<1>12. OneContent'
  <2>1. \A n : Editing(n)' <=> Editing(n)
    BY DEF Editing
  <2>2. \A q \in Senders : Sending(q)' <=> Sending(q)
    BY DEF Sending
  <2> QED BY <1>4, <2>1, <2>2 DEF IInv, OneContent
<1> QED BY <1>7, <1>8, <1>9, <1>10, <1>11, <1>12 DEF IInv

\* Claiming the head of the follow-ups keeps the invariant.
LEMMA DriverClaimStep == ASSUME IInv, DriverClaim PROVE IInv'
<1>1. PICK claim : claim = NextTurnClaim(inbox)
  OBVIOUS
<1>2. /\ claim \in Seq(Entries) /\ Range(claim) \subseteq Range(inbox.followups)
      /\ Distinct(claim) /\ Ids(claim) \cap inbox.reserved = {}
  <2>1. CASE claim = <<>>
    BY <2>1, EmptyQueue
  <2>2. CASE claim # <<>>
    <3>1. /\ inbox.followups # <<>> /\ Head(inbox.followups).id \notin inbox.reserved
          /\ claim = <<Head(inbox.followups)>>
      BY <1>1, <2>2 DEF NextTurnClaim
    <3>2. inbox.followups \in Seq(Entries)
      BY DEF IInv, Shape, Inboxes
    <3>3. Head(inbox.followups) \in Entries /\ Head(inbox.followups) \in Range(inbox.followups)
      BY <3>1, <3>2, HeadQueue
    <3> QED BY <3>1, <3>3, OneEntryQueue
  <2> QED BY <2>1, <2>2
<1>3. /\ driver.pc = "claim" /\ inbox' = Reserve(inbox, Ids(claim))
      /\ driver' = [driver EXCEPT !.pc = IF claim = <<>> THEN "settle" ELSE "claimAppend",
                                  !.claim = claim]
      /\ UNCHANGED <<journal, transcript, agent, woken, sender, update, fate, stops>>
  BY <1>1 DEF DriverClaim
<1>4. driver' \in Drivers /\ driver'.claim = claim /\ driver'.turn = driver.turn
  BY <1>2, <1>3, ZenonT(30) DEF IInv, Shape, Drivers
<1> QED BY <1>2, <1>3, <1>4, Claims

\* Claiming the step entries keeps the invariant.
LEMMA DriverStepClaimStep == ASSUME IInv, DriverStepClaim PROVE IInv'
<1>1. PICK claim : claim = StepBatchClaim(inbox)
  OBVIOUS
<1>2. /\ claim \in Seq(Entries) /\ Range(claim) \subseteq Range(inbox.steps)
      /\ Distinct(claim) /\ Ids(claim) \cap inbox.reserved = {}
  <2>1. inbox.steps \in Seq(Entries) /\ Distinct(inbox.steps)
    BY DEF IInv, Shape, Inboxes, OncePerPlace
  <2> QED BY <1>1, <2>1, EmptyQueue DEF StepBatchClaim
<1>3. /\ driver.pc = "stepClaim" /\ inbox' = Reserve(inbox, Ids(claim))
      /\ driver' = [driver EXCEPT !.pc = IF claim = <<>> THEN "post" ELSE "stepAppend",
                                  !.claim = claim]
      /\ UNCHANGED <<journal, transcript, agent, woken, sender, update, fate, stops>>
  BY <1>1 DEF DriverStepClaim
<1>4. driver' \in Drivers /\ driver'.claim = claim /\ driver'.turn = driver.turn
  BY <1>2, <1>3, ZenonT(30) DEF IInv, Shape, Drivers
<1> QED BY <1>2, <1>3, <1>4, Claims

\* A queue without entries is the empty sequence.
LEMMA NothingQueued ==
  ASSUME NEW X, NEW q \in Seq(X), Range(q) = {}
  PROVE  q = <<>>
<1>1. /\ Len(q) \in Nat /\ \A i \in 1..Len(q) : q[i] \in Range(q)
  BY QueueFacts
<1>2. Len(q) = 0
  BY <1>1
<1> QED BY <1>2

\* What a committed claim leaves in the inbox.
Taken(ib, claim, new) ==
  /\ new \in Inboxes
  /\ Range(new.followups) \subseteq Range(ib.followups)
  /\ Range(new.steps) \subseteq Range(ib.steps)
  /\ Distinct(new.followups) /\ Distinct(new.steps)
  /\ Ids(new.followups) = Ids(ib.followups) \ Ids(claim)
  /\ Ids(new.steps) = Ids(ib.steps) \ Ids(claim)
  /\ new.injected = ib.injected \ Ids(claim) /\ new.reserved = ib.reserved \ Ids(claim)
  /\ new.injected \subseteq Ids(new.steps)

\* Committing a claim that is held takes exactly its messages from the inbox.
LEMMA CommitClaimIs ==
  ASSUME NEW ib \in Inboxes, NEW claim \in Seq(Entries), NEW target \in {"next-turn", "next-step"},
         ClaimHeld(ib, claim, target), Distinct(ib.followups), Distinct(ib.steps),
         Ids(ib.followups) \cap Ids(ib.steps) = {}, ib.injected \subseteq Ids(ib.steps)
  PROVE  Taken(ib, claim, CommitClaim(ib, claim, target))
<1>1. PICK new : new = CommitClaim(ib, claim, target)
  OBVIOUS
<1>2. PICK f : f = IF target = "next-turn"
                   THEN Filter(ib.followups, {e \in Range(ib.followups) : e.id \notin Ids(claim)})
                   ELSE ib.followups
  BY ZenonT(30)
<1>3. PICK s : s = IF target = "next-step"
                   THEN Filter(ib.steps, {e \in Range(ib.steps) : e.id \notin Ids(claim)})
                   ELSE ib.steps
  BY ZenonT(30)
<1>4. ib.followups \in Seq(Entries) /\ ib.steps \in Seq(Entries)
  BY DEF Inboxes
<1>5. /\ f \in Seq(Entries) /\ Range(f) \subseteq Range(ib.followups) /\ Distinct(f)
      /\ Ids(f) = Ids(ib.followups) \ Ids(claim)
  <2>1. CASE target = "next-turn"
    <3>1. PICK S : S = {e \in Range(ib.followups) : e.id \notin Ids(claim)}
      BY ZenonT(30)
    <3>2. f = Filter(ib.followups, S)
      BY <1>2, <2>1, <3>1
    <3>3. \A e \in Range(ib.followups) : e \in S <=> e.id \notin Ids(claim)
      BY <3>1
    <3>4. /\ Filter(ib.followups, S) \in Seq(Entries) /\ Range(Filter(ib.followups, S)) \subseteq Range(ib.followups)
          /\ Ids(Filter(ib.followups, S)) = Ids(ib.followups) \ Ids(claim)
          /\ Distinct(ib.followups) => Distinct(Filter(ib.followups, S))
      BY <1>4, <3>3, UnclaimedQueue, ZenonT(30)
    <3> QED BY <3>2, <3>4
  <2>2. CASE target # "next-turn"
    BY <1>2, <1>4, <2>2 DEF ClaimHeld
  <2> QED BY <2>1, <2>2
<1>6. /\ s \in Seq(Entries) /\ Range(s) \subseteq Range(ib.steps) /\ Distinct(s)
      /\ Ids(s) = Ids(ib.steps) \ Ids(claim)
  <2>1. CASE target = "next-step"
    <3>1. PICK S : S = {e \in Range(ib.steps) : e.id \notin Ids(claim)}
      BY ZenonT(30)
    <3>2. s = Filter(ib.steps, S)
      BY <1>3, <2>1, <3>1
    <3>3. \A e \in Range(ib.steps) : e \in S <=> e.id \notin Ids(claim)
      BY <3>1
    <3>4. /\ Filter(ib.steps, S) \in Seq(Entries) /\ Range(Filter(ib.steps, S)) \subseteq Range(ib.steps)
          /\ Ids(Filter(ib.steps, S)) = Ids(ib.steps) \ Ids(claim)
          /\ Distinct(ib.steps) => Distinct(Filter(ib.steps, S))
      BY <1>4, <3>3, UnclaimedQueue, ZenonT(30)
    <3> QED BY <3>2, <3>4
  <2>2. CASE target # "next-step"
    BY <1>3, <1>4, <2>2 DEF ClaimHeld
  <2> QED BY <2>1, <2>2
<1>7. new = [ib EXCEPT !.followups = f, !.steps = s, !.injected = @ \ Ids(claim),
                       !.reserved = @ \ Ids(claim)]
  BY <1>2, <1>3, <1>1, ZenonT(30) DEF CommitClaim
<1>8. /\ new.followups = f /\ new.steps = s /\ new.injected = ib.injected \ Ids(claim)
      /\ new.reserved = ib.reserved \ Ids(claim)
  BY <1>7 DEF Inboxes
<1>9. new \in Inboxes
  BY <1>5, <1>6, <1>7, ZenonT(30) DEF Inboxes
<1> QED BY <1>1, <1>5, <1>6, <1>8, <1>9 DEF Taken

\* Taking a held claim moves its messages from the inbox into the turn.
LEMMA ClaimTaken ==
  ASSUME IInv, driver.pc # "stopped", NEW target \in {"next-turn", "next-step"},
         ClaimHeld(inbox, driver.claim, target), inbox' = CommitClaim(inbox, driver.claim, target),
         driver' \in Drivers, driver'.claim = <<>>, driver'.turn = driver.claim \o driver.turn,
         UNCHANGED <<journal, transcript, agent, woken, sender, update, fate, stops>>
  PROVE  IInv'
<1>1. PICK claim : claim = driver.claim
  OBVIOUS
<1>2. PICK turn : turn = driver.turn
  OBVIOUS
<1>3. /\ claim \in Seq(Entries) /\ turn \in Seq(Entries) /\ Distinct(claim) /\ Distinct(turn)
      /\ Ids(claim) \cap Ids(turn) = {}
  BY <1>1, <1>2 DEF IInv, Shape, Drivers, OncePerPlace, OnePlace
<1>4. /\ claim \o turn \in Seq(Entries) /\ Distinct(claim \o turn)
      /\ Ids(claim \o turn) = Ids(claim) \cup Ids(turn)
      /\ Range(claim \o turn) = Range(claim) \cup Range(turn)
  BY <1>3, ConcatQueue
<1>5. /\ Ids(driver'.claim) = {} /\ Range(driver'.claim) = {} /\ Distinct(driver'.claim)
      /\ Ids(driver'.turn) = Ids(driver.claim) \cup Ids(driver.turn)
      /\ Range(driver'.turn) = Range(driver.claim) \cup Range(driver.turn)
      /\ Distinct(driver'.turn)
  BY <1>1, <1>2, <1>4, EmptyQueue
<1>6. /\ inbox' \in Inboxes
      /\ Range(inbox'.followups) \subseteq Range(inbox.followups)
      /\ Range(inbox'.steps) \subseteq Range(inbox.steps)
      /\ Distinct(inbox'.followups) /\ Distinct(inbox'.steps)
      /\ Ids(inbox'.followups) = Ids(inbox.followups) \ Ids(driver.claim)
      /\ Ids(inbox'.steps) = Ids(inbox.steps) \ Ids(driver.claim)
      /\ inbox'.injected = inbox.injected \ Ids(driver.claim)
      /\ inbox'.reserved = inbox.reserved \ Ids(driver.claim)
      /\ inbox'.injected \subseteq Ids(inbox'.steps)
  <2>1. /\ inbox \in Inboxes /\ Distinct(inbox.followups) /\ Distinct(inbox.steps)
        /\ Ids(inbox.followups) \cap Ids(inbox.steps) = {} /\ inbox.injected \subseteq Ids(inbox.steps)
    BY DEF IInv, Shape, OncePerPlace, OnePlace
  <2>2. PICK old : old = inbox
    OBVIOUS
  <2>3. /\ old \in Inboxes /\ Distinct(old.followups) /\ Distinct(old.steps)
        /\ Ids(old.followups) \cap Ids(old.steps) = {} /\ old.injected \subseteq Ids(old.steps)
        /\ ClaimHeld(old, claim, target)
    BY <1>1, <2>1, <2>2
  <2>4. Taken(old, claim, CommitClaim(old, claim, target))
    BY <1>3, <2>3, CommitClaimIs
  <2>5. Taken(inbox, driver.claim, inbox')
    BY <1>1, <2>2, <2>4
  <2> QED BY <2>5 DEF Taken
<1>7. /\ Inboxed' = Inboxed \ Ids(driver.claim) /\ Ids(driver.claim) \subseteq Inboxed
      /\ Logged' = Logged /\ Journaled' = Journaled /\ Held' \subseteq Held
  BY <1>5, <1>6 DEF Inboxed, Held, Logged, Journaled, ClaimHeld
<1>8. Gone => Gone'
  <2> SUFFICES ASSUME Gone PROVE Gone'
    OBVIOUS
  <2>1. Range(inbox'.followups) = {} /\ Range(inbox'.steps) = {}
    BY <1>6, EmptyInboxIs, EmptyQueue DEF Gone
  <2>2. inbox'.followups = <<>> /\ inbox'.steps = <<>>
    BY <1>6, <2>1, NothingQueued DEF Inboxes
  <2>3. inbox'.injected = {} /\ inbox'.reserved = {}
    BY <1>6, EmptyInboxIs DEF Gone
  <2> QED BY <1>6, <2>2, <2>3, NothingInbox DEF Gone
<1>9. ASSUME NEW n, Untouched(n) PROVE Untouched(n)'
  BY <1>5, <1>7, <1>9 DEF Untouched
<1>10. Shape' /\ OncePerPlace'
  BY <1>5, <1>6 DEF IInv, Shape, OncePerPlace
<1>11. OnePlace'
  BY <1>5, <1>6, <1>7 DEF IInv, OnePlace
<1>12. ClaimIsHeld' /\ AbsentIsClean'
  BY <1>5, RunningIsPresent DEF ClaimIsHeld, AbsentIsClean
<1>13. UnsentIsNowhere'
  BY <1>7, <1>9 DEF IInv, UnsentIsNowhere
<1>14. SendersApart'
  <2> SUFFICES ASSUME NEW q \in Senders, Sending(q)'
               PROVE  /\ \A s \in Senders : Sending(s)' /\ sender'[s].id = sender'[q].id => s = q
                      /\ sender'[q].pc = "append" => Untouched(sender[q].id)' /\ sender'[q].id \notin Journaled'
                      /\ sender'[q].attached => Untouched(sender[q].id)'
    BY DEF SendersApart
  <2>1. PICK n : n = sender[q].id
    OBVIOUS
  <2>2. Untouched(n)' => Untouched(sender[q].id)'
    BY <2>1 DEF Untouched
  <2>3. \A s \in Senders : Sending(s)' <=> Sending(s)
    BY DEF Sending
  <2> QED BY <1>7, <1>9, <2>1, <2>2, <2>3 DEF IInv, SendersApart
<1>15. UpdateIsHeld'
  BY <1>5, <1>6, <1>8 DEF IInv, UpdateIsHeld
<1>16. OneContent'
  <2>1. \A n : Editing(n)' <=> Editing(n)
    BY DEF Editing
  <2>2. \A q \in Senders : Sending(q)' <=> Sending(q)
    BY DEF Sending
  <2> QED BY <1>7, <2>1, <2>2 DEF IInv, OneContent
<1> QED BY <1>10, <1>11, <1>12, <1>13, <1>14, <1>15, <1>16 DEF IInv

\* Taking the claim out of the inbox keeps the invariant.
LEMMA DriverClaimCommitStep == ASSUME IInv, DriverClaimCommit PROVE IInv'
<1>1. /\ driver.pc \in {"claimCommit", "stepCommit"} /\ driver.pc # "stopped"
      /\ UNCHANGED <<journal, transcript, agent, woken, sender, update, stops>>
  BY DEF DriverClaimCommit
<1>2. CASE ClaimHeld(inbox, driver.claim, ClaimTarget)
  <2>1. PICK target : target = ClaimTarget
    OBVIOUS
  <2>2. /\ target \in {"next-turn", "next-step"} /\ ClaimHeld(inbox, driver.claim, target)
        /\ inbox' = CommitClaim(inbox, driver.claim, target) /\ UNCHANGED fate
        /\ driver' = [driver EXCEPT !.pc = IF driver.pc = "claimCommit" THEN "turn" ELSE "post",
                                    !.claim = <<>>, !.turn = driver.claim \o @]
    BY <1>2, <2>1 DEF DriverClaimCommit, ClaimTarget
  <2>3. PICK turn : turn = driver.claim \o driver.turn
    BY ZenonT(30)
  <2>4. turn \in Seq(Entries)
    BY <2>3, ConcatQueue DEF IInv, Shape, Drivers
  <2>5. PICK pc : pc = IF driver.pc = "claimCommit" THEN "turn" ELSE "post"
    OBVIOUS
  <2>6. driver' = [driver EXCEPT !.pc = pc, !.claim = <<>>, !.turn = turn]
    BY <2>2, <2>3, <2>5, ZenonT(30)
  <2>7. driver' \in Drivers /\ driver'.claim = <<>> /\ driver'.turn = turn
    <3>1. pc \in {"turn", "post"} /\ <<>> \in Seq(Entries) /\ driver \in Drivers
      BY <2>5 DEF IInv, Shape
    <3> QED BY <2>4, <2>6, <3>1, ZenonT(30) DEF Drivers
  <2> QED BY <1>1, <2>2, <2>3, <2>7, ClaimTaken, ZenonT(30)
<1>3. CASE ~ClaimHeld(inbox, driver.claim, ClaimTarget)
  <2>1. PICK ids : ids = Ids(driver.claim \o driver.turn)
    OBVIOUS
  <2>2. /\ inbox' = Unreserve(inbox, Ids(driver.claim))
        /\ driver' \in {DriverAt("wait"), DriverAt("claim")} /\ fate' = Drop(ids)
    BY <1>3, <2>1 DEF DriverClaimCommit
  <2> QED BY <1>1, <2>2, ClaimDropped
<1> QED BY <1>2, <1>3

\* Posting moves the first message of the turn into the conversation, and takes
\* it out of the log's queues.
LEMMA DriverPostStep == ASSUME IInv, DriverPost PROVE IInv'
<1>1. PICK turn : turn = driver.turn
  OBVIOUS
<1>2. PICK e : e = Head(turn)
  OBVIOUS
<1>3. PICK rest : rest = Tail(turn)
  BY ZenonT(30)
<1>4. PICK j : j = journal
  OBVIOUS
<1>5. /\ turn \in Seq(Entries) /\ turn # <<>> /\ Distinct(turn) /\ j \in Journals
      /\ Distinct(j.followups) /\ Distinct(j.steps) /\ driver.pc = "post"
      /\ transcript' = Append(transcript, e) /\ journal' = Purge(j, e.id)
      /\ driver' = [driver EXCEPT !.turn = rest] /\ driver \in Drivers
      /\ transcript \in Seq(Entries) /\ Distinct(transcript)
      /\ UNCHANGED <<agent, inbox, woken, sender, update, fate, stops>>
  BY <1>1, <1>2, <1>3, <1>4 DEF DriverPost, IInv, Shape, Drivers, OncePerPlace
<1>6. /\ rest \in Seq(Entries) /\ e \in Entries /\ Ids(turn) = {e.id} \cup Ids(rest)
      /\ Range(turn) = {e} \cup Range(rest) /\ Distinct(rest) /\ e.id \notin Ids(rest)
  BY <1>2, <1>3, <1>5, HeadQueue
<1>7. /\ driver' \in Drivers /\ driver'.claim = driver.claim /\ driver'.turn = rest
      /\ driver'.pc # "stopped"
  BY <1>5, <1>6, ZenonT(30) DEF Drivers
<1>8. /\ e.id \notin Ids(transcript) \cup Ids(driver.claim) \cup Inboxed
      /\ update.pc # "idle" => update.r.id # e.id
  <2>1. e.id \in Ids(driver.turn)
    BY <1>1, <1>6
  <2> QED BY <2>1 DEF IInv, OnePlace, UpdateIsHeld
<1>9. /\ transcript' \in Seq(Entries) /\ Distinct(transcript')
      /\ Ids(transcript') = Ids(transcript) \cup {e.id}
  BY <1>5, <1>6, <1>8, AppendQueue
<1>10. PICK f : f = Without(j.followups, e.id)
  OBVIOUS
<1>11. PICK s : s = Without(j.steps, e.id)
  OBVIOUS
<1>12. j.followups \in Seq(Entries) /\ j.steps \in Seq(Entries)
  BY <1>5 DEF Journals
<1>13. /\ f \in Seq(Entries) /\ Ids(f) = Ids(j.followups) \ {e.id}
       /\ Range(f) \subseteq Range(j.followups) /\ Distinct(f)
  BY <1>5, <1>10, <1>12, WithoutId
<1>14. /\ s \in Seq(Entries) /\ Ids(s) = Ids(j.steps) \ {e.id}
       /\ Range(s) \subseteq Range(j.steps) /\ Distinct(s)
  BY <1>5, <1>11, <1>12, WithoutId
<1>15. journal' = [j EXCEPT !.followups = f, !.steps = s]
  BY <1>5, <1>10, <1>11, ZenonT(30) DEF Purge
<1>16. journal' \in Journals /\ journal'.followups = f /\ journal'.steps = s
  BY <1>5, <1>13, <1>14, <1>15, ZenonT(30) DEF Journals
<1>17. /\ Journaled' = Journaled \ {e.id} /\ Logged' \subseteq Logged
       /\ Inboxed' = Inboxed /\ Held' \subseteq Held
  <2>1. Journaled' = Journaled \ {e.id} /\ Logged' \subseteq Logged
    BY <1>4, <1>13, <1>14, <1>16 DEF Journaled, Logged
  <2>2. Inboxed' = Inboxed /\ Held' \subseteq Held
    BY <1>1, <1>5, <1>6, <1>7 DEF Inboxed, Held
  <2> QED BY <2>1, <2>2
<1>18. Ids(driver'.turn) = Ids(driver.turn) \ {e.id} /\ e.id \in Ids(driver.turn)
  BY <1>1, <1>6, <1>7
<1>19. ASSUME NEW n, Untouched(n) PROVE Untouched(n)'
  BY <1>5, <1>7, <1>9, <1>17, <1>18, <1>19 DEF Untouched
<1>20. Shape'
  BY <1>5, <1>7, <1>9, <1>16 DEF IInv, Shape
<1>21. OncePerPlace'
  BY <1>5, <1>6, <1>7, <1>9, <1>13, <1>14, <1>16 DEF IInv, OncePerPlace
<1>22. OnePlace'
  <2>1. Ids(journal'.followups) \cap Ids(journal'.steps) = {}
    BY <1>4, <1>13, <1>14, <1>16 DEF IInv, OnePlace
  <2> QED BY <1>5, <1>7, <1>8, <1>9, <1>17, <1>18, <2>1 DEF IInv, OnePlace
<1>23. ClaimIsHeld' /\ AbsentIsClean'
  BY <1>5, <1>7, RunningIsPresent DEF IInv, ClaimIsHeld, AbsentIsClean, Gone
<1>24. UnsentIsNowhere'
  BY <1>5, <1>17, <1>19 DEF IInv, UnsentIsNowhere
<1>25. SendersApart'
  <2> SUFFICES ASSUME NEW q \in Senders, Sending(q)'
               PROVE  /\ \A p \in Senders : Sending(p)' /\ sender'[p].id = sender'[q].id => p = q
                      /\ sender'[q].pc = "append" => Untouched(sender[q].id)' /\ sender'[q].id \notin Journaled'
                      /\ sender'[q].attached => Untouched(sender[q].id)'
    BY DEF SendersApart
  <2>1. PICK n : n = sender[q].id
    OBVIOUS
  <2>2. Untouched(n)' => Untouched(sender[q].id)'
    BY <1>5, <2>1 DEF Untouched
  <2>3. \A p \in Senders : Sending(p)' <=> Sending(p)
    BY <1>5 DEF Sending
  <2> QED BY <1>5, <1>17, <1>19, <2>1, <2>2, <2>3 DEF IInv, SendersApart
<1>26. UpdateIsHeld'
  BY <1>5, <1>7, <1>8, <1>9, <1>18 DEF IInv, UpdateIsHeld, Gone
<1>27. OneContent'
  <2>1. \A n : Editing(n)' <=> Editing(n)
    BY <1>5 DEF Editing
  <2>2. \A q \in Senders : Sending(q)' <=> Sending(q)
    BY <1>5 DEF Sending
  <2> QED BY <1>5, <1>17, <2>1, <2>2 DEF IInv, OneContent
<1> QED BY <1>20, <1>21, <1>22, <1>23, <1>24, <1>25, <1>26, <1>27 DEF IInv

\* The durable event of an update: only the update's own message changes in the log.
LEMMA UpdateLogged ==
  ASSUME IInv, update.pc = "append",
         journal' \in Journals, Distinct(journal'.followups), Distinct(journal'.steps),
         Ids(journal'.followups) \cap Ids(journal'.steps) = {},
         Logged' \subseteq Logged \cup {update.r.message},
         update.r.update # "edit" => Logged' \subseteq Logged,
         update.r.update = "edit" => \A e \in Logged' : e.id = update.r.id => e = update.r.message,
         update' = [update EXCEPT !.pc = "commit"],
         fate' \in {fate, [fate EXCEPT ![update.r.id] = "nextStep"]},
         UNCHANGED <<transcript, agent, inbox, woken, driver, sender, stops>>
  PROVE  IInv'
<1>1. update \in QueueUpdates /\ fate \in [Messages -> Fates]
  BY DEF IInv, Shape, NoUpdate
<1>2. update' \in QueueUpdates /\ update'.pc = "commit" /\ update'.r = update.r /\ update'.attached = update.attached
  BY <1>1 DEF QueueUpdates
<1>3. fate' \in [Messages -> Fates] /\ \A n \in Messages : fate'[n] = "unsent" => fate[n] = "unsent"
  BY <1>1 DEF Fates
<1>4. update.r.message.id = update.r.id /\ update.r.id \notin Ids(transcript)
  BY DEF IInv, UpdateIsHeld
<1>5. Journaled' \subseteq Journaled \cup {update.r.id}
  <2>1. \A n : n \in Journaled <=> \E e \in Logged : e.id = n
    BY IdsOfRange DEF Journaled, Logged
  <2>2. \A n : n \in Journaled' <=> \E e \in Logged' : e.id = n
    BY IdsOfRange DEF Journaled, Logged
  <2> QED BY <1>4, <2>1, <2>2
<1>6. Inboxed' = Inboxed /\ Held' = Held
  BY DEF Inboxed, Held
<1>7. ASSUME NEW n, Untouched(n) PROVE Untouched(n)' /\ n # update.r.id
  BY <1>2, <1>6, <1>7 DEF Untouched
<1>8. Shape' /\ OncePerPlace'
  BY <1>2, <1>3 DEF IInv, Shape, OncePerPlace
<1>9. OnePlace'
  BY <1>4, <1>5, <1>6 DEF IInv, OnePlace
<1>10. ClaimIsHeld' /\ AbsentIsClean'
  BY <1>2 DEF IInv, ClaimIsHeld, AbsentIsClean, Gone
<1>11. UnsentIsNowhere'
  BY <1>3, <1>5, <1>7 DEF IInv, UnsentIsNowhere
<1>12. SendersApart'
  <2> SUFFICES ASSUME NEW q \in Senders, Sending(q)'
               PROVE  /\ \A p \in Senders : Sending(p)' /\ sender'[p].id = sender'[q].id => p = q
                      /\ sender'[q].pc = "append" => Untouched(sender[q].id)' /\ sender'[q].id \notin Journaled'
                      /\ sender'[q].attached => Untouched(sender[q].id)'
    BY DEF SendersApart
  <2>1. PICK n : n = sender[q].id
    OBVIOUS
  <2>2. Untouched(n)' => Untouched(sender[q].id)'
    BY <2>1 DEF Untouched
  <2>3. \A p \in Senders : Sending(p)' <=> Sending(p)
    BY DEF Sending
  <2> QED BY <1>5, <1>7, <2>1, <2>2, <2>3 DEF IInv, SendersApart
<1>13. UpdateIsHeld'
  BY <1>2 DEF IInv, UpdateIsHeld, Gone
<1>14. OneContent'
  <2>1. \A n : ~Editing(n) /\ (Editing(n)' <=> update.r.update = "edit" /\ update.r.id = n)
    BY <1>2 DEF Editing
  <2>2. \A q \in Senders : (Sending(q)' <=> Sending(q)) /\ (Sending(q) /\ sender[q].attached => sender[q].id # update.r.id)
    BY DEF Sending, IInv, SendersApart, Untouched
  <2>3. \A e, f \in Held' \cup Logged' : e.id = f.id => e = f \/ Editing(e.id)'
    <3>1. CASE update.r.update # "edit"
      BY <1>6, <2>1, <3>1 DEF IInv, OneContent
    <3>2. CASE update.r.update = "edit"
      BY <1>4, <1>6, <2>1, <3>2 DEF IInv, OneContent
    <3> QED BY <3>1, <3>2
  <2>4. \A e \in Logged' : Editing(e.id)' => e = update'.r.message
    BY <1>2, <2>1
  <2>5. \A q \in Senders : Sending(q)' /\ sender'[q].attached =>
          \A e \in Logged' : e.id = sender'[q].id => e = Entry(e.id, "sent")
    BY <1>4, <2>2 DEF IInv, OneContent
  <2> QED BY <2>3, <2>4, <2>5 DEF OneContent
<1> QED BY <1>8, <1>9, <1>10, <1>11, <1>12, <1>13, <1>14 DEF IInv

\* What the durable event of an update leaves in the log.
Spliced(j, r, k) ==
  /\ k \in Journals /\ Distinct(k.followups) /\ Distinct(k.steps)
  /\ Ids(k.followups) \cap Ids(k.steps) = {}
  /\ Range(k.followups) \cup Range(k.steps) \subseteq Range(j.followups) \cup Range(j.steps) \cup {r.message}
  /\ r.update # "edit" =>
       Range(k.followups) \cup Range(k.steps) \subseteq Range(j.followups) \cup Range(j.steps)
  /\ r.update = "edit" =>
       \A e \in Range(k.followups) \cup Range(k.steps) : e.id = r.id => e = r.message

\* A removal takes the entry at the reserved place out of its queue.
LEMMA RemoveIs ==
  ASSUME NEW j \in Journals, NEW r \in Reservations, r.update = "remove",
         Distinct(j.followups), Distinct(j.steps), Ids(j.followups) \cap Ids(j.steps) = {},
         CanSplice(j, r.source, r.start, 1, <<>>)
  PROVE  Spliced(j, r, Splice(j, r.source, r.start, 1, <<>>))
<1>1. PICK k : k = Splice(j, r.source, r.start, 1, <<>>)
  OBVIOUS
<1>2. r.start \in Nat
  BY DEF Reservations
<1>3. /\ k \in Journals /\ Distinct(k.followups) /\ Distinct(k.steps)
      /\ Range(k.followups) \subseteq Range(j.followups) /\ Range(k.steps) \subseteq Range(j.steps)
  BY <1>1, <1>2, SpliceOut, ZenonT(30)
<1>4. Ids(k.followups) \subseteq Ids(j.followups) /\ Ids(k.steps) \subseteq Ids(j.steps)
  BY <1>3, FewerIds
<1> QED BY <1>1, <1>3, <1>4 DEF Spliced

\* An edit replaces the entry at the reserved place, and is refused when its
\* message is pending anywhere else.
LEMMA EditIs ==
  ASSUME NEW j \in Journals, NEW r \in Reservations, r.update = "edit", r.message.id = r.id,
         Distinct(j.followups), Distinct(j.steps), Ids(j.followups) \cap Ids(j.steps) = {},
         CanSplice(j, r.source, r.start, 1, <<r.message>>)
  PROVE  Spliced(j, r, Splice(j, r.source, r.start, 1, <<r.message>>))
<1>1. PICK q : q = Queue(j, r.source)
  OBVIOUS
<1>2. PICK other : other = IF r.source = "next-turn" THEN j.steps ELSE j.followups
  OBVIOUS
<1>3. PICK e : e = r.message
  OBVIOUS
<1>4. PICK start : start = r.start
  OBVIOUS
<1>5. PICK a : a = Replaced(q, start, 1, <<e>>)
  OBVIOUS
<1>6. PICK k : k = Splice(j, r.source, r.start, 1, <<r.message>>)
  OBVIOUS
<1>7. /\ q \in Seq(Entries) /\ other \in Seq(Entries) /\ e \in Entries /\ start \in Nat
      /\ Distinct(q) /\ Distinct(other) /\ Ids(q) \cap Ids(other) = {}
      /\ Ids(q) \cup Ids(other) = Ids(j.followups) \cup Ids(j.steps)
      /\ Range(q) \cup Range(other) = Range(j.followups) \cup Range(j.steps)
  BY <1>1, <1>2, <1>3, <1>4 DEF Reservations, Journals, Queue
<1>8. start + 1 <= Len(q) /\ (e.id \in Ids(q) \cup Ids(other) => e.id = q[start + 1].id)
  <2>1. CanSplice(j, r.source, start, 1, <<e>>)
    BY <1>3, <1>4
  <2>2. /\ start + 1 <= Len(q)
        /\ \A x \in {<<e>>[i] : i \in DOMAIN <<e>>} :
             x.id \in Ids(j.followups) \cup Ids(j.steps) =>
               x.id \in {q[i].id : i \in (start + 1)..(start + 1)}
    BY <1>1, <2>1 DEF CanSplice
  <2>3. e \in {<<e>>[i] : i \in DOMAIN <<e>>}
    <3>1. 1 \in DOMAIN <<e>> /\ <<e>>[1] = e
      OBVIOUS
    <3> QED BY <3>1
  <2>4. e.id \in Ids(q) \cup Ids(other) => e.id \in {q[i].id : i \in (start + 1)..(start + 1)}
    BY <1>7, <2>2, <2>3, ZenonT(30)
  <2> QED BY <1>7, <2>2, <2>4
<1>9. q[start + 1].id \in Ids(q)
  BY <1>7, <1>8, QueueFacts
<1>10. e.id \notin Ids(other)
  BY <1>7, <1>8, <1>9
<1>11. /\ a \in Seq(Entries) /\ Ids(a) \subseteq Ids(q) \cup {e.id} /\ Range(a) \subseteq Range(q) \cup {e}
       /\ Distinct(a) /\ \A f \in Range(a) : f.id = e.id => f = e
  BY <1>5, <1>7, <1>8, ReplaceOne, ZenonT(30)
<1>12. k = WithQueue(j, r.source, a)
  BY <1>1, <1>3, <1>4, <1>5, <1>6 DEF Splice
<1>13. /\ k \in Journals
       /\ r.source = "next-turn" => k.followups = a /\ k.steps = other
       /\ r.source # "next-turn" => k.followups = other /\ k.steps = a
  BY <1>2, <1>11, <1>12, WithQueueIs
<1>14. \A f \in Range(other) : f.id # e.id
  BY <1>10, IdsOfRange
<1> QED BY <1>3, <1>6, <1>7, <1>10, <1>11, <1>13, <1>14 DEF Spliced

\* A steer moves the pending message to the end of the next-step queue.
LEMMA SteerIs ==
  ASSUME NEW j \in Journals, NEW r \in Reservations, r.update = "steer",
         Distinct(j.followups), Distinct(j.steps), Ids(j.followups) \cap Ids(j.steps) = {},
         CanSteer(j, r.message)
  PROVE  Spliced(j, r, Steer(j, r.message))
<1>1. PICK e : e = r.message
  OBVIOUS
<1>2. PICK i : i = PendingIndex(j.followups, e.id)
  OBVIOUS
<1>3. e \in Entries /\ j.followups \in Seq(Entries) /\ j.steps \in Seq(Entries)
  BY <1>1 DEF Reservations, Journals
<1>4. i # 0 /\ j.followups[i] = e
  BY <1>1, <1>2 DEF CanSteer
<1>5. e.id \in Ids(j.followups) /\ i \in 1..Len(j.followups)
  BY <1>2, <1>3, <1>4, PendingPlace
<1>6. e \in Range(j.followups) /\ e.id \notin Ids(j.steps)
  BY <1>3, <1>4, <1>5, QueueFacts
<1>7. PICK f : f = Without(j.followups, e.id)
  OBVIOUS
<1>8. PICK s : s = Append(j.steps, e)
  BY ZenonT(30)
<1>9. /\ f \in Seq(Entries) /\ Ids(f) = Ids(j.followups) \ {e.id}
      /\ Range(f) \subseteq Range(j.followups) /\ Distinct(f)
  BY <1>3, <1>7, WithoutId
<1>10. /\ s \in Seq(Entries) /\ Ids(s) = Ids(j.steps) \cup {e.id}
       /\ Range(s) = Range(j.steps) \cup {e} /\ Distinct(s)
  BY <1>3, <1>6, <1>8, AppendQueue
<1>11. PICK k : k = Steer(j, r.message)
  OBVIOUS
<1>12. k = [j EXCEPT !.followups = f, !.steps = s]
  BY <1>1, <1>7, <1>8, <1>11, ZenonT(30) DEF Steer
<1>13. k \in Journals /\ k.followups = f /\ k.steps = s
  BY <1>9, <1>10, <1>12, ZenonT(30) DEF Journals
<1> QED BY <1>1, <1>6, <1>9, <1>10, <1>11, <1>13 DEF Spliced

\* Logging a queue update keeps the invariant.
LEMMA UpdateAppendStep == ASSUME IInv, UpdateAppend PROVE IInv'
<1>1. PICK r : r = update.r
  OBVIOUS
<1>2. PICK j : j = journal
  OBVIOUS
<1>3. /\ r \in Reservations /\ r.message.id = r.id /\ j \in Journals
      /\ Distinct(j.followups) /\ Distinct(j.steps) /\ Ids(j.followups) \cap Ids(j.steps) = {}
  <2>1. update \in QueueUpdates
    BY DEF UpdateAppend, IInv, Shape, NoUpdate
  <2>2. r \in Reservations
    BY <1>1, <2>1 DEF QueueUpdates
  <2>3. r.message.id = r.id
    BY <1>1 DEF UpdateAppend, IInv, UpdateIsHeld
  <2> QED BY <1>2, <2>2, <2>3 DEF IInv, Shape, OncePerPlace, OnePlace
<1>4. /\ update.pc = "append" /\ CanSpliceUpdate(r) /\ journal' = SpliceUpdate(r)
      /\ update' = [update EXCEPT !.pc = "commit"]
      /\ fate' \in {fate, [fate EXCEPT ![update.r.id] = "nextStep"]}
      /\ UNCHANGED <<transcript, agent, inbox, woken, driver, sender, stops>>
  BY <1>1 DEF UpdateAppend
<1>5. Spliced(j, r, journal')
  <2>1. CASE r.update = "steer"
    <3>1. CanSteer(j, r.message) /\ journal' = Steer(j, r.message)
      BY <1>2, <1>4, <2>1 DEF CanSpliceUpdate, SpliceUpdate
    <3> QED BY <1>3, <2>1, <3>1, SteerIs
  <2>2. CASE r.update = "edit"
    <3>1. /\ CanSplice(j, r.source, r.start, 1, <<r.message>>)
          /\ journal' = Splice(j, r.source, r.start, 1, <<r.message>>)
      BY <1>2, <1>4, <2>2 DEF CanSpliceUpdate, SpliceUpdate
    <3> QED BY <1>3, <2>2, <3>1, EditIs
  <2>3. CASE r.update = "remove"
    <3>1. /\ CanSplice(j, r.source, r.start, 1, <<>>)
          /\ journal' = Splice(j, r.source, r.start, 1, <<>>)
      BY <1>2, <1>4, <2>3 DEF CanSpliceUpdate, SpliceUpdate
    <3> QED BY <1>3, <2>3, <3>1, RemoveIs
  <2> QED BY <1>3, <2>1, <2>2, <2>3 DEF Reservations
<1>6. /\ journal' \in Journals /\ Distinct(journal'.followups) /\ Distinct(journal'.steps)
      /\ Ids(journal'.followups) \cap Ids(journal'.steps) = {}
      /\ Logged' \subseteq Logged \cup {update.r.message}
      /\ update.r.update # "edit" => Logged' \subseteq Logged
      /\ update.r.update = "edit" => \A e \in Logged' : e.id = update.r.id => e = update.r.message
  BY <1>1, <1>2, <1>5 DEF Spliced, Logged
<1> QED BY <1>4, <1>6, UpdateLogged

\* What committing an update leaves in the inbox.
Updated(ib, r, new) ==
  LET before == Range(ib.followups) \cup Range(ib.steps)
      after  == Range(new.followups) \cup Range(new.steps)
  IN /\ new \in Inboxes /\ Distinct(new.followups) /\ Distinct(new.steps)
     /\ Ids(new.followups) \cap Ids(new.steps) = {}
     /\ new.injected = ib.injected /\ new.injected \subseteq Ids(new.steps)
     /\ new.reserved = ib.reserved \ {r.id}
     /\ Ids(new.followups) \cup Ids(new.steps) \subseteq Ids(ib.followups) \cup Ids(ib.steps)
     /\ after \subseteq before \cup {r.message}
     /\ r.update # "edit" => after \subseteq before
     /\ r.update = "edit" /\ r.id \in ib.reserved => \A e \in after : e.id = r.id => e = r.message
     /\ ib = EmptyInbox => new = EmptyInbox

\* The end of an update whose durable event is in the log.
LEMMA UpdateEnds ==
  ASSUME IInv, update.pc = "commit", update' = NoUpdate,
         \/ Updated(inbox, update.r, inbox')
         \/ inbox' = inbox /\ agent = "absent",
         woken' \in BOOLEAN, fate' \in {fate, [fate EXCEPT ![update.r.id] = "removed"]},
         UNCHANGED <<journal, transcript, agent, driver, sender, stops>>
  PROVE  IInv'
<1> DEFINE r == update.r
<1>1. /\ update \in QueueUpdates /\ fate \in [Messages -> Fates] /\ r.message.id = r.id
      /\ r.id \notin Ids(driver.claim) \cup Ids(driver.turn) /\ (r.id \in inbox.reserved \/ Gone)
  <2>1. update \in QueueUpdates /\ fate \in [Messages -> Fates]
    BY DEF IInv, Shape, NoUpdate
  <2> QED BY <2>1, ZenonT(30) DEF IInv, UpdateIsHeld
<1>2. fate' \in [Messages -> Fates] /\ \A n \in Messages : fate'[n] = "unsent" => fate[n] = "unsent"
  BY <1>1 DEF Fates
<1>3. update'.pc = "idle"
  BY DEF NoUpdate
<1>4. /\ inbox' \in Inboxes /\ Distinct(inbox'.followups) /\ Distinct(inbox'.steps)
      /\ Ids(inbox'.followups) \cap Ids(inbox'.steps) = {}
      /\ inbox'.injected \subseteq Ids(inbox'.steps)
      /\ inbox.reserved \ {r.id} \subseteq inbox'.reserved
      /\ Inboxed' \subseteq Inboxed /\ (inbox = EmptyInbox => inbox' = EmptyInbox)
  BY ZenonT(30) DEF IInv, Shape, OncePerPlace, OnePlace, Inboxed, Updated
<1>5. /\ Held' \subseteq Held \cup {r.message} /\ (r.update # "edit" => Held' \subseteq Held)
      /\ r.update = "edit" => \A e \in Held' : e.id = r.id => e = r.message
  <2>1. \A e \in Range(driver.claim) \cup Range(driver.turn) : e.id # r.id
    BY <1>1, IdsOfRange
  <2>2. CASE inbox = EmptyInbox
    <3>1. Held' = Range(driver.claim) \cup Range(driver.turn) /\ Held' = Held
      BY <1>4, <2>2, EmptyInboxIs, EmptyQueue DEF Held
    <3> QED BY <2>1, <3>1
  <2>3. CASE inbox # EmptyInbox
    <3>1. r.id \in inbox.reserved /\ Updated(inbox, r, inbox')
      BY <1>1, <2>3 DEF Gone, IInv, AbsentIsClean
    <3> QED BY <2>1, <3>1, ZenonT(30) DEF Held, Updated
  <2> QED BY <2>2, <2>3
<1> HIDE DEF r
<1>6. Logged' = Logged /\ Journaled' = Journaled
  BY DEF Logged, Journaled
<1>7. ASSUME NEW n, Untouched(n) PROVE Untouched(n)'
  BY <1>3, <1>4, <1>7 DEF Untouched
<1>8. Shape' /\ OncePerPlace'
  BY <1>2, <1>4 DEF IInv, Shape, OncePerPlace
<1>9. OnePlace'
  BY <1>4, <1>6 DEF IInv, OnePlace
<1>10. ClaimIsHeld' /\ AbsentIsClean'
  <2>1. ClaimIsHeld'
    BY <1>1, <1>4 DEF IInv, ClaimIsHeld, Gone
  <2> QED BY <1>3, <1>4, <2>1 DEF IInv, AbsentIsClean
<1>11. UnsentIsNowhere'
  BY <1>2, <1>6, <1>7 DEF IInv, UnsentIsNowhere
<1>12. SendersApart'
  <2> SUFFICES ASSUME NEW q \in Senders, Sending(q)'
               PROVE  /\ \A p \in Senders : Sending(p)' /\ sender'[p].id = sender'[q].id => p = q
                      /\ sender'[q].pc = "append" => Untouched(sender[q].id)' /\ sender'[q].id \notin Journaled'
                      /\ sender'[q].attached => Untouched(sender[q].id)'
    BY ZenonT(30) DEF SendersApart
  <2>1. PICK n : n = sender[q].id
    OBVIOUS
  <2>2. Untouched(n)' => Untouched(sender[q].id)'
    BY <2>1 DEF Untouched
  <2>3. \A p \in Senders : Sending(p)' <=> Sending(p)
    BY DEF Sending
  <2> QED BY <1>6, <1>7, <2>1, <2>2, <2>3, ZenonT(30) DEF IInv, SendersApart
<1>13. UpdateIsHeld'
  BY <1>3 DEF UpdateIsHeld
<1>14. OneContent'
  <2>1. \A n : ~Editing(n)' /\ (Editing(n) <=> r.update = "edit" /\ r.id = n)
    BY <1>3 DEF Editing, r
  <2>2. \A q \in Senders : Sending(q)' <=> Sending(q)
    BY DEF Sending
  <2>3. \A e \in Logged : Editing(e.id) => e = r.message
    BY DEF IInv, OneContent, r
  <2>4. \A e, f \in Held' \cup Logged' : e.id = f.id => e = f \/ Editing(e.id)'
    <3>1. CASE r.update # "edit"
      BY <1>5, <1>6, <2>1, <3>1 DEF IInv, OneContent
    <3>2. CASE r.update = "edit"
      BY <1>1, <1>5, <1>6, <2>1, <2>3, <3>2 DEF IInv, OneContent
    <3> QED BY <3>1, <3>2
  <2> QED BY <1>6, <2>1, <2>2, <2>4 DEF IInv, OneContent
<1> QED BY <1>8, <1>9, <1>10, <1>11, <1>12, <1>13, <1>14 DEF IInv

\* Putting a queue with the same message, or without it, back where it was found.
LEMMA PutBack ==
  ASSUME NEW ib \in Inboxes, NEW r \in Reservations, NEW q \in Seq(Entries), NEW a \in Seq(Entries),
         Distinct(ib.followups), Distinct(ib.steps), Ids(ib.followups) \cap Ids(ib.steps) = {},
         ib.injected \subseteq Ids(ib.steps), r.id \notin ib.injected, ib # EmptyInbox,
         r.source = "next-turn" => r.id \notin Ids(ib.steps) /\ q = ib.followups,
         r.source = "next-step" => r.id \notin Ids(ib.followups) /\ q = ib.steps,
         Distinct(a), Ids(a) \subseteq Ids(q), Ids(q) \ {r.id} \subseteq Ids(a),
         Range(a) \subseteq Range(q) \cup {r.message}, r.update # "edit" => Range(a) \subseteq Range(q),
         r.update = "edit" => \A e \in Range(a) : e.id = r.id => e = r.message,
         NEW new, new = IF r.source = "next-turn" THEN [Unreserve(ib, {r.id}) EXCEPT !.followups = a]
                                                  ELSE [Unreserve(ib, {r.id}) EXCEPT !.steps = a]
  PROVE  Updated(ib, r, new)
<1>1. PICK one : one = Unreserve(ib, {r.id})
  OBVIOUS
<1>2. /\ one \in Inboxes /\ one.followups = ib.followups /\ one.steps = ib.steps
      /\ one.injected = ib.injected /\ one.reserved = ib.reserved \ {r.id}
  BY <1>1, UnreserveIs
<1>3. ib.followups \in Seq(Entries) /\ ib.steps \in Seq(Entries)
  BY DEF Inboxes
<1>4. CASE r.source = "next-turn"
  <2>1. new = [one EXCEPT !.followups = a]
    BY <1>1, <1>4
  <2>2. /\ new \in Inboxes /\ new.followups = a /\ new.steps = ib.steps /\ new.injected = ib.injected
        /\ new.reserved = ib.reserved \ {r.id}
    BY <1>2, <2>1, ZenonT(30) DEF Inboxes
  <2>3. \A e \in Range(ib.steps) : e.id # r.id
    BY <1>4, IdsOfRange
  <2> QED BY <1>4, <2>2, <2>3, ZenonT(30) DEF Updated
<1>5. CASE r.source = "next-step"
  <2>1. new = [one EXCEPT !.steps = a]
    BY <1>1, <1>5
  <2>2. /\ new \in Inboxes /\ new.followups = ib.followups /\ new.steps = a /\ new.injected = ib.injected
        /\ new.reserved = ib.reserved \ {r.id}
    BY <1>2, <2>1, ZenonT(30) DEF Inboxes
  <2>3. \A e \in Range(ib.followups) : e.id # r.id
    BY <1>5, IdsOfRange
  <2> QED BY <1>5, <2>2, <2>3, ZenonT(30) DEF Updated
<1> QED BY <1>4, <1>5 DEF Reservations

\* Committing an update changes the update's own message only, and nothing at
\* all when the reservation or the message is gone.
LEMMA CommitUpdateIs ==
  ASSUME NEW ib \in Inboxes, NEW r \in Reservations, r.message.id = r.id,
         Distinct(ib.followups), Distinct(ib.steps), Ids(ib.followups) \cap Ids(ib.steps) = {},
         ib.injected \subseteq Ids(ib.steps), r.id \notin ib.injected,
         r.source = "next-turn" => r.id \notin Ids(ib.steps),
         r.source = "next-step" => r.id \notin Ids(ib.followups)
  PROVE  Updated(ib, r, CommitUpdate(ib, r))
<1>1. PICK q : q = IF r.source = "next-turn" THEN ib.followups ELSE ib.steps
  OBVIOUS
<1>2. PICK i : i = PendingIndex(q, r.id)
  OBVIOUS
<1>3. PICK one : one = Unreserve(ib, {r.id})
  OBVIOUS
<1>4. /\ one \in Inboxes /\ one.followups = ib.followups /\ one.steps = ib.steps
      /\ one.injected = ib.injected /\ one.reserved = ib.reserved \ {r.id}
      /\ ib = EmptyInbox => one = EmptyInbox
  BY <1>3, UnreserveIs
<1>5. /\ q \in Seq(Entries) /\ Distinct(q) /\ r.message \in Entries
      /\ ib.followups \in Seq(Entries) /\ ib.steps \in Seq(Entries)
      /\ r.source \in {"next-turn", "next-step"} /\ r.update \in {"edit", "remove", "steer"}
  BY <1>1 DEF Inboxes, Reservations
<1>6. PICK new : new = CommitUpdate(ib, r)
  OBVIOUS
<1>7. CASE r.id \notin ib.reserved \/ i = 0
  <2>1. new = one
    BY <1>1, <1>2, <1>3, <1>6, <1>7 DEF CommitUpdate
  <2>2. r.id \in ib.reserved => r.id \notin Ids(ib.followups) \cup Ids(ib.steps)
    BY <1>1, <1>2, <1>5, <1>7, PendingPlace
  <2>3. r.id \in ib.reserved => \A e \in Range(ib.followups) \cup Range(ib.steps) : e.id # r.id
    BY <2>2, IdsOfRange
  <2> QED BY <1>4, <1>6, <2>1, <2>3, ZenonT(30) DEF Updated
<1>8. CASE r.id \in ib.reserved /\ i # 0
  <2>1. r.id \in Ids(q) /\ i \in 1..Len(q) /\ q[i].id = r.id
    BY <1>2, <1>5, <1>8, PendingPlace
  <2>2. ib # EmptyInbox
    BY <1>8, EmptyInboxIs
  <2>3. CASE r.update = "edit"
    <3>1. PICK a : a = [q EXCEPT ![i] = r.message]
      BY ZenonT(30)
    <3>2. /\ a \in Seq(Entries) /\ Ids(a) = Ids(q) /\ Range(a) \subseteq Range(q) \cup {r.message}
          /\ Distinct(a) /\ \A e \in Range(a) : e.id = r.message.id => e = r.message
      <4>1. PICK msg : msg = r.message
        OBVIOUS
      <4>2. msg \in Entries /\ msg.id = q[i].id
        BY <1>5, <2>1, <4>1
      <4>3. [q EXCEPT ![i] = msg] \in Seq(Entries) /\ IsEdited([q EXCEPT ![i] = msg], q, msg)
        BY <1>5, <2>1, <4>2, EditQueue
      <4>4. a \in Seq(Entries) /\ IsEdited(a, q, msg)
        BY <3>1, <4>1, <4>3
      <4> QED BY <1>5, <4>1, <4>4 DEF IsEdited
    <3>3. new = IF r.source = "next-turn" THEN [Unreserve(ib, {r.id}) EXCEPT !.followups = a]
                                          ELSE [Unreserve(ib, {r.id}) EXCEPT !.steps = a]
      BY <1>1, <1>2, <1>6, <1>8, <2>3, <3>1 DEF CommitUpdate
    <3> QED BY <1>1, <1>5, <1>6, <2>2, <2>3, <3>2, <3>3, PutBack, ZenonT(30)
  <2>4. PICK w : w = Without(q, r.id)
    OBVIOUS
  <2>5. w \in Seq(Entries) /\ Ids(w) = Ids(q) \ {r.id} /\ Range(w) \subseteq Range(q) /\ Distinct(w)
    BY <1>5, <2>4, WithoutId
  <2>6. CASE r.update = "remove"
    <3>1. new = IF r.source = "next-turn" THEN [Unreserve(ib, {r.id}) EXCEPT !.followups = w]
                                          ELSE [Unreserve(ib, {r.id}) EXCEPT !.steps = w]
      BY <1>1, <1>2, <1>6, <1>8, <2>4, <2>6 DEF CommitUpdate
    <3> QED BY <1>1, <1>5, <1>6, <2>2, <2>5, <2>6, <3>1, PutBack, ZenonT(30)
  <2>7. CASE r.update = "steer"
    <3>1. PICK e : e = q[i]
      OBVIOUS
    <3>2. e \in Entries /\ e \in Range(q) /\ e.id = r.id
      BY <1>5, <2>1, <3>1, QueueFacts
    <3>3. PICK rest : rest = IF r.source = "next-turn" THEN ib.steps ELSE w
      OBVIOUS
    <3>4. /\ rest \in Seq(Entries) /\ Distinct(rest) /\ r.id \notin Ids(rest)
          /\ Range(rest) \subseteq Range(ib.steps) /\ Ids(ib.steps) \ {r.id} \subseteq Ids(rest)
          /\ Ids(rest) \subseteq Ids(ib.steps)
      BY <1>1, <1>5, <2>5, <3>3
    <3>5. PICK s : s = Append(rest, e)
      BY ZenonT(30)
    <3>6. /\ s \in Seq(Entries) /\ Ids(s) = Ids(rest) \cup {r.id} /\ Range(s) = Range(rest) \cup {e}
          /\ Distinct(s)
      BY <3>2, <3>4, <3>5, AppendQueue
    <3>7. PICK f : f = IF r.source = "next-turn" THEN w ELSE ib.followups
      OBVIOUS
    <3>8. /\ f \in Seq(Entries) /\ Distinct(f) /\ r.id \notin Ids(f)
          /\ Range(f) \subseteq Range(ib.followups) /\ Ids(f) \subseteq Ids(ib.followups)
      BY <1>1, <1>5, <2>5, <3>7
    <3>9. new.followups = f /\ new.steps = s /\ new.injected = ib.injected
          /\ new.reserved = ib.reserved \ {r.id} /\ new \in Inboxes
      <4>1. new = IF r.source = "next-turn" THEN [[one EXCEPT !.followups = w] EXCEPT !.steps = Append(@, e)]
                                            ELSE [[one EXCEPT !.steps = w] EXCEPT !.steps = Append(@, e)]
        BY <1>1, <1>2, <1>3, <1>6, <1>8, <2>4, <2>7, <3>1, ZenonT(30) DEF CommitUpdate
      <4>2. CASE r.source = "next-turn"
        <5>1. new = [one EXCEPT !.followups = f, !.steps = s]
          BY <1>4, <3>3, <3>5, <3>7, <4>1, <4>2, ZenonT(30) DEF Inboxes
        <5> QED BY <1>4, <3>6, <3>8, <5>1, ZenonT(30) DEF Inboxes
      <4>3. CASE r.source = "next-step"
        <5>1. new = [one EXCEPT !.steps = s]
          BY <1>4, <3>3, <3>5, <4>1, <4>3, ZenonT(30) DEF Inboxes
        <5>2. f = ib.followups
          BY <3>7, <4>3
        <5> QED BY <1>4, <3>6, <3>8, <5>1, <5>2 DEF Inboxes
      <4> QED BY <1>5, <4>2, <4>3
    <3>10. e \in Range(ib.followups) \cup Range(ib.steps) /\ r.id \in Ids(ib.followups) \cup Ids(ib.steps)
      BY <1>1, <2>1, <3>2
    <3>11. /\ Ids(new.followups) \cap Ids(new.steps) = {} /\ new.injected \subseteq Ids(new.steps)
           /\ Ids(new.followups) \cup Ids(new.steps) \subseteq Ids(ib.followups) \cup Ids(ib.steps)
      BY <3>4, <3>6, <3>8, <3>9, <3>10
    <3>12. Range(new.followups) \cup Range(new.steps) \subseteq Range(ib.followups) \cup Range(ib.steps)
      BY <3>4, <3>6, <3>8, <3>9, <3>10
    <3> QED BY <1>6, <2>2, <2>7, <3>6, <3>8, <3>9, <3>11, <3>12, ZenonT(30) DEF Updated
  <2> QED BY <1>5, <2>3, <2>6, <2>7
<1> QED BY <1>7, <1>8

\* Applying a logged update to the inbox keeps the invariant.
LEMMA UpdateCommitStep == ASSUME IInv, UpdateCommit PROVE IInv'
<1>1. /\ update.pc = "commit" /\ update' = NoUpdate
      /\ inbox' = IF update.attached THEN CommitUpdate(inbox, update.r) ELSE inbox
      /\ fate' \in {fate, [fate EXCEPT ![update.r.id] = "removed"]}
      /\ UNCHANGED <<journal, transcript, agent, driver, sender, stops>>
  BY DEF UpdateCommit
<1>2. woken' \in BOOLEAN
  BY DEF UpdateCommit, IInv, Shape
<1>3. PICK r : r = update.r
  OBVIOUS
<1>4. PICK ib : ib = inbox
  OBVIOUS
<1>5. CASE update.attached
  <2>1. r \in Reservations
    BY <1>1, <1>3 DEF IInv, Shape, NoUpdate, QueueUpdates
  <2>2. /\ ib \in Inboxes /\ r.message.id = r.id
        /\ Distinct(ib.followups) /\ Distinct(ib.steps) /\ Ids(ib.followups) \cap Ids(ib.steps) = {}
        /\ ib.injected \subseteq Ids(ib.steps) /\ r.id \notin ib.injected
        /\ r.source = "next-turn" => r.id \notin Ids(ib.steps)
        /\ r.source = "next-step" => r.id \notin Ids(ib.followups)
    BY <1>1, <1>3, <1>4, ZenonT(30) DEF IInv, Shape, OncePerPlace, OnePlace, UpdateIsHeld
  <2>3. Updated(ib, r, CommitUpdate(ib, r))
    BY <2>1, <2>2, CommitUpdateIs, ZenonT(30)
  <2>4. Updated(inbox, update.r, inbox')
    BY <1>1, <1>3, <1>4, <1>5, <2>3
  <2> QED BY <1>1, <1>2, <2>4, UpdateEnds
<1>6. CASE ~update.attached
  <2>1. inbox' = inbox /\ agent = "absent"
    BY <1>1, <1>6 DEF IInv, UpdateIsHeld
  <2> QED BY <1>1, <1>2, <2>1, UpdateEnds
<1> QED BY <1>5, <1>6

-----------------------------------------------------------------------------
(* The theorems *)

\* Every step of a sender, an update, the driver or a stop keeps the invariant.
LEMMA StepKeeps == IInv /\ [Next]_vars => IInv'
<1> SUFFICES ASSUME IInv, [Next]_vars PROVE IInv'
  OBVIOUS
<1>1. CASE SenderNext
  <2>1. CASE EnsureAgent
    BY <2>1, EnsureAgentStep
  <2>2. CASE \E p \in Senders : \/ \E m \in Messages, t \in TargetsOf(p) : SendBegin(p, m, t)
                                \/ SendAppend(p) \/ SendRefused(p) \/ SendDeliver(p) \/ SendWake(p)
    BY <2>2, SendBeginStep, SendAppendStep, SendRefusedStep, SendDeliverStep, SendWakeStep
  <2> QED BY <1>1, <2>1, <2>2 DEF SenderNext
<1>2. CASE UpdateNext
  BY <1>2, UpdateReserveStep, UpdateAppendStep, UpdateRefusedStep, UpdateCommitStep DEF UpdateNext
<1>3. CASE DriverNext
  BY <1>3, DriverWakeStep, DriverClaimStep, DriverSettleStep, DriverStepClaimStep,
     DriverClaimAppendStep, DriverClaimRefusedStep, DriverClaimCommitStep, DriverTurnStartStep,
     DriverStepRefusedStep, DriverPostStep, DriverPostRefusedStep, DriverNextStepStep,
     DriverTurnEndStep, DriverStopStep DEF DriverNext
<1>4. CASE StopNext
  BY <1>4, CancelStep, ReleaseStep, DisposeStep, CrashStep DEF StopNext
<1>5. CASE UNCHANGED vars
  <2>1. /\ Inboxed' = Inboxed /\ Journaled' = Journaled /\ Held' = Held /\ Logged' = Logged
        /\ \A n : Untouched(n)' <=> Untouched(n)
        /\ \A n : Editing(n)' <=> Editing(n)
        /\ \A q \in Senders : Sending(q)' <=> Sending(q)
    BY <1>5 DEF vars, Inboxed, Journaled, Held, Logged, Untouched, Editing, Sending
  <2>2. Shape' /\ OncePerPlace' /\ OnePlace' /\ ClaimIsHeld' /\ AbsentIsClean' /\ UpdateIsHeld'
    BY <1>5, <2>1, ZenonT(30) DEF IInv, vars, Shape, OncePerPlace, OnePlace, ClaimIsHeld, Gone, AbsentIsClean, UpdateIsHeld
  <2>3. UnsentIsNowhere' /\ OneContent'
    BY <1>5, <2>1, ZenonT(30) DEF IInv, vars, UnsentIsNowhere, OneContent
  <2>4. SendersApart'
    <3> SUFFICES ASSUME NEW q \in Senders, Sending(q)'
                 PROVE  /\ \A p \in Senders : Sending(p)' /\ sender'[p].id = sender'[q].id => p = q
                        /\ sender'[q].pc = "append" => Untouched(sender[q].id)' /\ sender'[q].id \notin Journaled'
                        /\ sender'[q].attached => Untouched(sender[q].id)'
      BY DEF SendersApart
    <3>1. PICK n : n = sender[q].id
      OBVIOUS
    <3>2. Untouched(n)' => Untouched(sender[q].id)'
      BY <1>5, <3>1 DEF Untouched, vars
    <3> QED BY <1>5, <2>1, <3>1, <3>2, ZenonT(30) DEF IInv, vars, SendersApart
  <2> QED BY <2>2, <2>3, <2>4 DEF IInv
<1> QED BY <1>1, <1>2, <1>3, <1>4, <1>5 DEF Next

\* The inductive invariant holds in every state, whatever the senders, updates,
\* cancellations, refused appends and crashes of the queue do.
THEOREM Invariance == Spec => []IInv
<1>1. Init => IInv
  BY InitInv
<1>2. IInv /\ [Next]_vars => IInv'
  BY StepKeeps
<1> QED BY <1>1, <1>2, PTL DEF Spec

\* The queues hold messages and every control point is in its range, the step
\* counter of the driver never passing max_steps.
THEOREM TypeCorrect == Spec => []TypeOK
<1>1. IInv => TypeOK
  BY DEF IInv, Shape, TypeOK, Journals, Inboxes, Drivers, Fates, QueueUpdates, Calls, NoSend, NoUpdate
<1> QED BY <1>1, Invariance, PTL

\* No message is ever written to the conversation twice, for any number of
\* senders, messages, stops and steps.
THEOREM MessagesAtMostOnce == Spec => []AtMostOnce
<1>1. IInv => AtMostOnce
  BY DEF IInv, OncePerPlace, Distinct, AtMostOnce
<1> QED BY <1>1, Invariance, PTL

\* An item under a queue update is never in the driver's claim, although the
\* two only exclude each other by the inbox's reservations.
THEOREM UpdatesExcludeClaims == Spec => []UpdateExcludesClaim
<1>1. IInv => UpdateExcludesClaim
  BY DEF IInv, UpdateIsHeld, UpdateExcludesClaim
<1> QED BY <1>1, Invariance, PTL

\* All copies of a message, in the log, the inbox and the driver's hands, have
\* one content except in an edit's own window: the driver never posts a text
\* the user has replaced.
THEOREM ContentsAgree == Spec => []ContentAgrees
<1>1. IInv => ContentAgrees
  <2> SUFFICES ASSUME IInv, NEW m \in Messages, ~(update.pc = "commit" /\ update.r.id = m)
               PROVE  Cardinality(Copies(m)) <= 1
    BY DEF ContentAgrees
  <2>1. Copies(m) = {e \in Held \cup Logged : e.id = m}
    BY DEF Copies, Held, Logged
  <2>2. \A e, f \in Copies(m) : e = f
    BY <2>1 DEF IInv, OneContent, Editing
  <2>3. CASE Copies(m) = {}
    BY <2>3, FS_EmptySet
  <2>4. CASE Copies(m) # {}
    <3>1. PICK e : e \in Copies(m)
      BY <2>4
    <3>2. Copies(m) = {e}
      BY <2>2, <3>1
    <3>3. Cardinality({e}) = 1
      BY FS_Singleton
    <3> QED BY <3>2, <3>3
  <2> QED BY <2>3, <2>4
<1> QED BY <1>1, Invariance, PTL
=============================================================================
