----------------------------- MODULE Projections ----------------------------
(***************************************************************************)
(* Named projections of a session's events (src/src/projection.rs) and the *)
(* two callers that attach a session and publish its projections: the      *)
(* relay of src/src/host.rs and the reader session_projections.  A state   *)
(* is the sequence of the events that changed it, so an event that was     *)
(* skipped shows.                                                          *)
(***************************************************************************)
EXTENDS Integers, Sequences, FiniteSets, SequencesExt

CONSTANTS
  KeySeq,      \* keys of the definitions, in the order of the BTreeMap
  MaxEvents,   \* bound: events of the session
  Quiet,       \* some event changes no projection
  FaultKeys,   \* keys whose apply callback may fail on an event
  SessionCap,  \* capacity of Session.updates
  CheckpointKeys, \* keys whose checkpoints are taken and restored
  Closes,      \* the registry is shut down
  WithReader   \* session_projections is called

VARIABLES
  log,       \* committed events; event n has number n - 1 in the code
  sent,      \* events Session.updates has broadcast
  entry,     \* the session's AttachedSession, <<>> when there is none
  caller,    \* an attach call: the relay's and the reader's
  observer,  \* observe_session, one per completed attach
  gate,      \* the caller whose replay holds apply_gate, or "free"
  relay,     \* the relay of host.rs: next event and the last notice of each key
  saved,     \* a ProjectionCheckpoint of a key, or <<>>
  down,      \* shutdown: "no", "draining", "done"
  ghost      \* what has happened that the promises exclude

vars == <<log, sent, entry, caller, observer, gate, relay, saved, down, ghost>>

Callers == {"relay", "reader"}
Keys == Range(KeySeq)
Before(j, k) == \E m, n \in DOMAIN KeySeq : m < n /\ KeySeq[m] = j /\ KeySeq[n] = k

\* An event: the keys whose state it changes and the keys whose callback refuses it.
Events ==
  {[chg |-> c, bad |-> b] :
      c \in {Keys} \cup {{k} : k \in Keys} \cup (IF Quiet THEN {{}} ELSE {}),
      b \in {{}} \cup {{k} : k \in FaultKeys}}

\* (definition.init)(&header): nothing applied, one frame.
Fresh == [state |-> <<>>, last |-> 0, frames |-> <<[at |-> 0, state |-> <<>>]>>, err |-> FALSE]
NoObserver == [at |-> "none", inbox |-> <<>>, lagged |-> FALSE, deaf |-> FALSE]

Init ==
  /\ log = <<>> /\ sent = 0 /\ entry = <<>> /\ gate = "free" /\ down = "no"
  /\ caller = [c \in Callers |-> [at |-> "idle", upto |-> 0, next |-> 0]]
  /\ observer = [c \in Callers |-> NoObserver]
  /\ relay = [at |-> "none", start |-> 0, next |-> 0, notice |-> [k \in Keys |-> <<>>]]
  /\ saved = [k \in Keys |-> <<>>]
  /\ ghost = [failed |-> FALSE, overlapped |-> FALSE, gap |-> FALSE, leaked |-> FALSE]

Attached == entry # <<>>

Commit(e) ==
  /\ Len(log) < MaxEvents
  /\ log' = log \o <<e>>
  /\ UNCHANGED <<sent, entry, caller, observer, gate, relay, saved, down, ghost>>

\* A receiver subscribed to the session's updates: from its subscription on.
Listening(c) == caller[c].at \in {"inserted", "replay"} \/ observer[c].at = "run"

Broadcast ==
  /\ sent < Len(log)
  /\ sent' = sent + 1
  /\ observer' = [c \in Callers |->
        LET q == observer[c].inbox \o <<sent + 1>>
            over == Len(q) > SessionCap
        IN IF Listening(c)
             THEN [observer[c] EXCEPT !.inbox = IF over THEN Tail(q) ELSE q, !.lagged = @ \/ over]
             ELSE observer[c]]
  /\ UNCHANGED <<log, entry, caller, gate, relay, saved, down, ghost>>

\* One definition's part of apply_event_locked.
ApplyKey(p, k, n) ==
  LET changed == k \in log[n].chg
      next == IF changed THEN p.state \o <<n>> ELSE p.state
  IN [p EXCEPT !.last = n, !.state = next,
               !.frames = IF changed THEN @ \o <<[at |-> n, state |-> next]>> ELSE @]

\* apply_event_locked: every definition behind the event folds it, in key order; the first
\* callback that fails ends the loop, so the keys after it do not see the event.
Behind(e, n) == {k \in Keys : e[k].last < n}
Failing(e, n) == Behind(e, n) \cap log[n].bad
Applied(e, n) ==
  [k \in Keys |->
     IF k \in Behind(e, n) /\ k \notin log[n].bad /\ ~\E j \in Failing(e, n) : Before(j, k)
       THEN ApplyKey(e[k], k, n) ELSE e[k]]

\* record_error.
Erred(e) == [k \in Keys |-> [e[k] EXCEPT !.err = TRUE]]

\* ProjectionRegistry::attach up to the lookup: a shut registry refuses, an attached session is
\* left alone, else the initial states are built.
AttachCheck(c) ==
  /\ caller[c].at = "attach"
  /\ caller' = [caller EXCEPT ![c].at =
        IF down # "no" THEN "refused" ELSE IF Attached THEN "attached" ELSE "checked"]
  /\ UNCHANGED <<log, sent, entry, observer, gate, relay, saved, down, ghost>>

\* Subscribe, then insert the entry: an entry another attach made meanwhile is replaced.
AttachInsert(c) ==
  /\ caller[c].at = "checked"
  /\ entry' = [k \in Keys |-> Fresh]
  /\ ghost' = [ghost EXCEPT !.overlapped = @ \/ Attached]
  /\ caller' = [caller EXCEPT ![c].at = "inserted"]
  /\ UNCHANGED <<log, sent, observer, gate, relay, saved, down>>

\* replay: take the gate and the committed events; then each of them; then spawn the observer.
ReplayStart(c) ==
  /\ caller[c].at = "inserted" /\ gate = "free"
  /\ gate' = c
  /\ caller' = [caller EXCEPT ![c] = [at |-> "replay", upto |-> Len(log), next |-> 1]]
  /\ UNCHANGED <<log, sent, entry, observer, relay, saved, down, ghost>>

ReplayEvent(c) ==
  LET n == caller[c].next IN
  /\ caller[c].at = "replay" /\ n <= caller[c].upto
  /\ entry' = Applied(entry, n)
  /\ IF Failing(entry, n) = {}
       THEN /\ caller' = [caller EXCEPT ![c].next = n + 1]
            /\ UNCHANGED <<gate, ghost>>
       ELSE /\ caller' = [caller EXCEPT ![c].at = "failed"]
            /\ gate' = "free" /\ ghost' = [ghost EXCEPT !.failed = TRUE]
  /\ UNCHANGED <<log, sent, observer, relay, saved, down>>

\* The observer subscribes to shutdown when it is spawned: a value sent before is not a change.
ReplayDone(c) ==
  /\ caller[c].at = "replay" /\ caller[c].next > caller[c].upto
  /\ gate' = "free"
  /\ observer' = [observer EXCEPT ![c].at = "run", ![c].deaf = down # "no"]
  /\ caller' = [caller EXCEPT ![c].at = "attached"]
  /\ ghost' = [ghost EXCEPT !.leaked = @ \/ down # "no"]
  /\ UNCHANGED <<log, sent, entry, relay, saved, down>>

\* observe_session: an event is applied; a lag replays the whole log (one step: it holds the gate).
Observe(c) ==
  /\ observer[c].at = "run" /\ gate = "free" /\ ~observer[c].lagged /\ observer[c].inbox # <<>>
  /\ LET n == Head(observer[c].inbox)
         bad == Failing(entry, n) # {}
     IN /\ entry' = IF bad THEN Erred(Applied(entry, n)) ELSE Applied(entry, n)
        /\ ghost' = [ghost EXCEPT !.failed = @ \/ bad]
  /\ observer' = [observer EXCEPT ![c].inbox = Tail(@)]
  /\ UNCHANGED <<log, sent, caller, gate, relay, saved, down>>

\* The committed events applied in order up to the first that fails.
Replayed(e, ns) ==
  FoldLeft(LAMBDA acc, n : IF acc.bad THEN acc
                           ELSE [e |-> Applied(acc.e, n), bad |-> Failing(acc.e, n) # {}],
           [e |-> e, bad |-> FALSE], ns)
All == [n \in 1..Len(log) |-> n]

ObserveLag(c) ==
  /\ observer[c].at = "run" /\ gate = "free" /\ observer[c].lagged
  /\ \E r \in {Replayed(entry, All)} :
       /\ entry' = IF r.bad THEN Erred(r.e) ELSE r.e
       /\ ghost' = [ghost EXCEPT !.failed = @ \/ r.bad]
  /\ observer' = [observer EXCEPT ![c].lagged = FALSE]
  /\ UNCHANGED <<log, sent, caller, gate, relay, saved, down>>

\* ensure_relay: the relayed set admits one; attach must not fail.  The relay starts at next_seq,
\* which may be past an event that nothing has folded yet.
EnsureRelay ==
  /\ relay.at = "none"
  /\ relay' = [relay EXCEPT !.at = "attach"]
  /\ caller' = [caller EXCEPT !["relay"].at = "attach"]
  /\ UNCHANGED <<log, sent, entry, observer, gate, saved, down, ghost>>

RelayStart ==
  /\ relay.at = "attach" /\ caller["relay"].at \in {"attached", "failed", "refused"}
  /\ relay' = IF caller["relay"].at = "attached"
                THEN [relay EXCEPT !.at = "run", !.start = Len(log), !.next = Len(log) + 1]
                ELSE [relay EXCEPT !.at = "panicked"]
  /\ ghost' = [ghost EXCEPT !.gap = @ \/ (Attached /\ \E k \in Keys : entry[k].last < Len(log))]
  /\ UNCHANGED <<log, sent, entry, caller, observer, gate, saved, down>>

\* relay_event: apply the event, then publish each projection whose newest frame is of this event.
Newest(p) == p.frames[Len(p.frames)]

RelayEvent ==
  LET n == relay.next IN
  /\ relay.at = "run" /\ n <= sent /\ gate = "free"
  /\ \E e \in {Applied(entry, n)} :
       LET ok == Failing(entry, n) = {} IN
       /\ entry' = e
       /\ ghost' = [ghost EXCEPT !.failed = @ \/ ~ok]
       /\ relay' = [relay EXCEPT !.next = n + 1,
             !.notice = [k \in Keys |-> IF ok /\ Newest(e[k]).at = n THEN Newest(e[k]).state ELSE @[k]]]
  /\ UNCHANGED <<log, sent, caller, observer, gate, saved, down>>

\* session_projections: snapshots, and attach first when the session is not attached.
Read ==
  /\ WithReader /\ caller["reader"].at = "idle" /\ ~Attached
  /\ caller' = [caller EXCEPT !["reader"].at = "attach"]
  /\ UNCHANGED <<log, sent, entry, observer, gate, relay, saved, down, ghost>>

\* checkpoint: the newest frame, with its number and not the last event folded.
Checkpoint(k) ==
  /\ Attached /\ saved[k] = <<>> /\ caller["relay"].at = "attached"
  /\ saved' = [saved EXCEPT ![k] = <<[at |-> Newest(entry[k]).at, state |-> Newest(entry[k]).state]>>]
  /\ UNCHANGED <<log, sent, entry, caller, observer, gate, relay, down, ghost>>

\* restore_floor: a compatible checkpoint at or past the floor replaces the state, an
\* incompatible one is refolded from the start only at floor zero, and the log is replayed.
Restore(k, compatible, floor) ==
  /\ Attached /\ saved[k] # <<>> /\ gate = "free"
  /\ LET cp == saved[k][1]
         based == [state |-> cp.state, last |-> cp.at, frames |-> <<cp>>, err |-> FALSE]
         start == IF compatible /\ cp.at >= floor THEN <<based>>
                  ELSE IF ~compatible /\ floor = 0 THEN <<Fresh>> ELSE <<>>
     IN IF start = <<>> THEN UNCHANGED <<entry, ghost>>
        ELSE \E r \in {Replayed([entry EXCEPT ![k] = start[1]], All)} :
               /\ entry' = r.e
               /\ ghost' = [ghost EXCEPT !.failed = @ \/ r.bad]
  /\ saved' = [saved EXCEPT ![k] = <<>>]
  /\ UNCHANGED <<log, sent, caller, observer, gate, relay, down>>

\* shutdown: tell the observers, take their handles, wait for them.
Shutdown ==
  /\ Closes /\ down = "no"
  /\ down' = "draining"
  /\ UNCHANGED <<log, sent, entry, caller, observer, gate, relay, saved, ghost>>

ObserverEnds(c) ==
  /\ observer[c].at = "run" /\ down # "no" /\ ~observer[c].deaf
  /\ observer' = [observer EXCEPT ![c].at = "ended"]
  /\ UNCHANGED <<log, sent, entry, caller, gate, relay, saved, down, ghost>>

Drained ==
  /\ down = "draining"
  /\ \A c \in Callers : observer[c].at = "run" => observer[c].deaf
  /\ down' = "done"
  /\ UNCHANGED <<log, sent, entry, caller, observer, gate, relay, saved, ghost>>

Next ==
  \/ \E e \in Events : Commit(e)
  \/ Broadcast
  \/ \E c \in Callers :
       \/ AttachCheck(c) \/ AttachInsert(c) \/ ReplayStart(c) \/ ReplayEvent(c) \/ ReplayDone(c)
       \/ Observe(c) \/ ObserveLag(c) \/ ObserverEnds(c)
  \/ EnsureRelay \/ RelayStart \/ RelayEvent \/ Read
  \/ \E k \in CheckpointKeys : \/ Checkpoint(k)
                               \/ \E b \in BOOLEAN, f \in 0..MaxEvents : Restore(k, b, f)
  \/ Shutdown \/ Drained

Spec == Init /\ [][Next]_vars

(***************************************************************************)
(* Properties.                                                             *)
(***************************************************************************)
\* The events up to n that change key k, in order.
Fold(k, n) == SelectSeq([m \in 1..n |-> m], LAMBDA m : k \in log[m].chg)

Whole == ~ghost.failed /\ ~ghost.overlapped /\ ~ghost.gap

\* apply_event_locked, replay, restore_floor: a projection's state is the fold of every event up
\* to the last one it has seen, each applied once and in order, whichever of observer, relay,
\* replay and restore applied it; unless a callback has failed, two attaches overlapped, or the
\* relay started past an event that only the observer still had to fold.
ProjectionIsFold ==
  (Attached /\ Whole) =>
    \A k \in Keys : /\ entry[k].state = Fold(k, entry[k].last)
                    /\ Newest(entry[k]).state = entry[k].state

\* observe_session: when the session's attach has returned and its observer has nothing left to
\* read, every broadcast event has been folded.
ObserverCatchesUp ==
  \A c \in Callers :
    (/\ observer[c].at = "run" /\ observer[c].inbox = <<>> /\ ~observer[c].lagged
     /\ Whole)
      => \A k \in Keys : entry[k].last >= sent

\* relay_event: a relay that has passed on every event has published the newest state of every
\* projection that changed since it started, although it skips a frame the observer overtook.
NewestIsPublished ==
  (relay.at = "run" /\ relay.next > Len(log) /\ Whole) =>
    \A k \in Keys : Newest(entry[k]).at > relay.start => relay.notice[k] = entry[k].state

\* ProjectionRegistry::shutdown: no observer runs once it has returned, save one whose attach was
\* under way and that subscribed to the shutdown signal after it was given.
ObserversEnd == (down = "done" /\ ~ghost.leaked) => \A c \in Callers : observer[c].at # "run"
=============================================================================
