------------------------------ MODULE Schedule ------------------------------
(***************************************************************************)
(* Reminders of one session (src/src/schedule.rs): the durable record of   *)
(* creations, deletions and dispatches, the tools that write it, and the   *)
(* drives of a ScheduleOwner that deliver what is due.  An owner belongs   *)
(* to one agent generation; a stopped one may still be inside a drive.     *)
(*                                                                         *)
(* A request supersedes the earlier ones of its owner and is only made     *)
(* inside its gate, so an owner has at most one drive that holds the gate  *)
(* (`drive') or one spawned drive, waiter or timer (`next').  Prompts, the *)
(* choice of ids and the calendar are left out.                            *)
(***************************************************************************)
EXTENDS Integers, Sequences, FiniteSets, SequencesExt, FiniteSetsExt

CONSTANTS
  Reminders,  \* record ids
  Kind,       \* [Reminders -> {"once", "every"}]
  Interval,   \* everySeconds
  Owners,     \* agent generations 1 .. n
  MaxTime,    \* bound: the clock
  MaxFaults   \* bound: refused appends and flushes

VARIABLES
  clock,
  log,      \* schedule/change events
  live,     \* the owner whose agent is registered
  busy,     \* its AgentStatus is not Idle
  next,     \* the newest request of an owner: none, spawned, idle, timer
  timer,    \* when its timer fires
  drive,    \* the drive inside an owner's gate
  sent,     \* enqueued deliveries of a reminder
  faults,   \* refused appends and flushes so far
  broken    \* deliveries that were enqueued by a drive that did not record them

vars == <<clock, log, live, busy, next, timer, drive, sent, faults, broken>>

Free == [at |-> "free", todo |-> {}, accepted |-> 0]

Init ==
  /\ clock = 0 /\ log = <<>> /\ live = 1 /\ busy = FALSE
  /\ next = [o \in Owners |-> IF o = 1 THEN "spawned" ELSE "none"]
  /\ timer = [o \in Owners |-> 0] /\ drive = [o \in Owners |-> Free]
  /\ sent = [r \in Reminders |-> 0] /\ faults = 0 /\ broken = {}

-----------------------------------------------------------------------------
(* Folding the log *)

\* every_next: the first occurrence after `accepted' on the record's grid.
EveryNext(target, accepted) == target + ((accepted - target) \div Interval + 1) * Interval

\* One event of fold; a target of 0 stands for an id that is not active.
FoldEvent(f, e) ==
  IF f.bad THEN f
  ELSE CASE e.op = "create" /\ e.id \notin f.seen ->
              [f EXCEPT !.seen = @ \cup {e.id}, !.active[e.id] = e.target]
         [] e.op = "delete" /\ f.active[e.id] > 0 -> [f EXCEPT !.active[e.id] = 0]
         [] e.op = "dispatch" /\ f.active[e.id] > 0 /\ Kind[e.id] = "once" ->
              [f EXCEPT !.active[e.id] = 0]
         [] e.op = "dispatch" /\ f.active[e.id] > 0 /\ Kind[e.id] = "every"
              /\ e.accepted >= f.active[e.id] ->
              [f EXCEPT !.active[e.id] = EveryNext(@, e.accepted)]
         [] OTHER -> [f EXCEPT !.bad = TRUE]

Folded ==
  FoldLeft(FoldEvent, [active |-> [r \in Reminders |-> 0], seen |-> {}, bad |-> FALSE], log)

\* Folded::decide: the earliest due one-shot alone, else every due fixed-rate
\* record.
Due(kind) == {r \in Reminders : Kind[r] = kind /\ Folded.active[r] \in 1 .. clock}
Decide ==
  IF Due("once") # {}
  THEN {CHOOSE r \in Due("once") : \A s \in Due("once") : Folded.active[r] <= Folded.active[s]}
  ELSE Due("every")

\* Mutant: the timer is set for the last record.
Latest(S) == Max(S)

Earliest(S) == Min(S)
Upcoming == {Folded.active[r] : r \in {s \in Reminders : Folded.active[s] > clock}}

-----------------------------------------------------------------------------
(* request_drive and drive *)

\* A stopped owner takes no request; the newest one is the only current one.
Request(o, gate) ==
  /\ next' = IF o = live THEN [next EXCEPT ![o] = "spawned"] ELSE next
  /\ timer' = IF o = live THEN [timer EXCEPT ![o] = 0] ELSE timer
  /\ drive' = [drive EXCEPT ![o] = gate]

\* The drive takes the gate; with a busy agent it leaves a waiter behind.
Enter(o) ==
  /\ next[o] = "spawned" /\ drive[o] = Free
  /\ IF busy THEN next' = [next EXCEPT ![o] = "idle"] /\ drive' = drive
     ELSE /\ next' = [next EXCEPT ![o] = "none"]
          /\ drive' = [drive EXCEPT ![o] = [Free EXCEPT !.at = "flush"]]
  /\ UNCHANGED <<clock, log, live, busy, timer, sent, faults, broken>>

\* when_idle, or the timer of `arm', asks for the next drive.
Wake(o) ==
  /\ \/ next[o] = "idle" /\ ~busy
     \/ next[o] = "timer" /\ clock >= timer[o]
  /\ next' = [next EXCEPT ![o] = "spawned"]
  /\ timer' = [timer EXCEPT ![o] = 0]
  /\ UNCHANGED <<clock, log, live, busy, drive, sent, faults, broken>>

\* An append that has passed its cancellation check and holds the session's
\* write gate, which a flush waits for.
Writing == \E o \in Owners : drive[o].at = "writing"

\* Mutant: a flush that does not wait for an append in progress.
FlushedAtOnce == TRUE

Flushed == ~Writing

\* flush, the second look at the owner, fold and decide.
FlushAndDecide(o) ==
  /\ drive[o].at = "flush" /\ Flushed
  /\ IF o # live \/ Folded.bad
     THEN drive' = [drive EXCEPT ![o] = Free] /\ UNCHANGED <<next, timer>>
     ELSE IF Decide # {}
     THEN /\ drive' = [drive EXCEPT ![o] = [@ EXCEPT !.at = "enqueue", !.todo = Decide,
                                                    !.accepted = clock]]
          /\ UNCHANGED <<next, timer>>
     ELSE /\ drive' = [drive EXCEPT ![o] = Free]
          /\ IF Upcoming = {} THEN UNCHANGED <<next, timer>>
             ELSE /\ next' = [next EXCEPT ![o] = "timer"]
                  /\ timer' = [timer EXCEPT ![o] = Earliest(Upcoming)]
  /\ UNCHANGED <<clock, log, live, busy, sent, faults, broken>>

\* enqueue: the durable inbox event and the followup; a stopped owner's token
\* has fired, so its append is refused.
Enqueue(o) ==
  /\ drive[o].at = "enqueue" /\ o = live
  /\ sent' = [r \in Reminders |-> sent[r] + IF r \in drive[o].todo THEN 1 ELSE 0]
  /\ busy' = TRUE /\ drive' = [drive EXCEPT ![o].at = "record"]
  /\ UNCHANGED <<clock, log, live, next, timer, faults, broken>>

\* append_change of one dispatch: past the token, inside the write gate.
RecordBegin(o) ==
  /\ drive[o].at = "record" /\ o = live /\ ~Writing
  /\ drive' = [drive EXCEPT ![o].at = "writing"]
  /\ UNCHANGED <<clock, log, live, busy, next, timer, sent, faults, broken>>

\* The dispatches of a batch are written one by one; after the last one the
\* owner drives again.
RecordCommit(o) ==
  /\ drive[o].at = "writing"
  /\ \E r \in drive[o].todo :
       /\ log' = Append(log, [op |-> "dispatch", id |-> r, accepted |-> drive[o].accepted])
       /\ IF drive[o].todo = {r} THEN Request(o, Free)
          ELSE /\ drive' = [drive EXCEPT ![o].at = "record", ![o].todo = @ \ {r}]
               /\ UNCHANGED <<next, timer>>
  /\ UNCHANGED <<clock, live, busy, sent, faults, broken>>

\* A refused append or flush ends the drive; nothing asks for another one.
Fail(o) ==
  /\ drive[o].at # "free"
  /\ IF o = live \/ drive[o].at = "writing"
     THEN faults < MaxFaults /\ faults' = faults + 1
     ELSE faults' = faults
  /\ broken' = broken \cup IF drive[o].at \in {"record", "writing"} THEN drive[o].todo ELSE {}
  /\ drive' = [drive EXCEPT ![o] = Free]
  /\ UNCHANGED <<clock, log, live, busy, next, timer, sent>>

-----------------------------------------------------------------------------
(* The tools, called inside a turn of the live agent *)

Tool(o) == o = live /\ busy /\ drive[o] = Free /\ ~Writing /\ ~Folded.bad

\* A change is written, then flushed; a refused flush returns an error without
\* a request.
Change(e) ==
  /\ log' = Append(log, e)
  /\ \/ Request(live, Free) /\ faults' = faults
     \/ faults < MaxFaults /\ faults' = faults + 1 /\ UNCHANGED <<next, timer, drive>>
  /\ UNCHANGED <<clock, live, busy, sent, broken>>

CreateReminder(r) ==
  /\ Tool(live) /\ r \notin Folded.seen
  /\ Change([op |-> "create", id |-> r, target |-> clock + Interval])

DeleteReminder(r) ==
  /\ Tool(live) /\ Folded.active[r] > 0
  /\ Change([op |-> "delete", id |-> r])

\* schedule_list, and a deletion that finds nothing.
ListReminders ==
  /\ Tool(live) /\ Request(live, Free)
  /\ UNCHANGED <<clock, log, live, busy, sent, faults, broken>>

-----------------------------------------------------------------------------
(* The agent and the clock *)

BeginTurn == ~busy /\ busy' = TRUE
  /\ UNCHANGED <<clock, log, live, next, timer, drive, sent, faults, broken>>

EndTurn == busy /\ busy' = FALSE
  /\ UNCHANGED <<clock, log, live, next, timer, drive, sent, faults, broken>>

Tick == clock < MaxTime /\ clock' = clock + 1
  /\ UNCHANGED <<log, live, busy, next, timer, drive, sent, faults, broken>>

\* The agent is replaced: its token fires, its owner is disposed (which ends
\* its waiters and timers but no drive inside the gate), a new owner starts.
\* A crash also ends the drives.
Replace(crash) ==
  /\ live + 1 \in Owners /\ live' = live + 1 /\ busy' = FALSE
  /\ next' = [next EXCEPT ![live + 1] = "spawned", ![live] = "none"]
  /\ timer' = [timer EXCEPT ![live] = 0]
  /\ IF crash
     THEN /\ drive' = [o \in Owners |-> Free]
          /\ broken' = broken \cup UNION {drive[o].todo : o \in
                         {p \in Owners : drive[p].at \in {"record", "writing"}}}
     ELSE UNCHANGED <<drive, broken>>
  /\ UNCHANGED <<clock, log, sent, faults>>

Next ==
  \/ \E o \in Owners : \/ Enter(o) \/ Wake(o) \/ FlushAndDecide(o) \/ Enqueue(o)
                       \/ RecordBegin(o) \/ RecordCommit(o) \/ Fail(o)
  \/ \E r \in Reminders : CreateReminder(r) \/ DeleteReminder(r)
  \/ ListReminders \/ BeginTurn \/ EndTurn \/ Tick
  \/ \E crash \in BOOLEAN : Replace(crash)

Spec == Init /\ [][Next]_vars

-----------------------------------------------------------------------------
Dispatches(r) == {i \in DOMAIN log : log[i].op = "dispatch" /\ log[i].id = r}
Recording(r) == \E o \in Owners : r \in drive[o].todo /\ drive[o].at \in {"record", "writing"}

\* The log of reminders always folds: no id is created twice, nothing is
\* dispatched or deleted that is not active, and a dispatch of a fixed-rate
\* record is not before its time; a record that is active was delivered once
\* for every dispatch, plus the deliveries that a fault or a stop kept from
\* being recorded (drive, fold, the tools).
RemindersAccounted ==
  /\ ~Folded.bad
  /\ \A r \in Reminders :
       /\ sent[r] >= Cardinality(Dispatches(r))
       /\ sent[r] > Cardinality(Dispatches(r)) => r \in broken \/ Recording(r)
  /\ \A r \in Reminders : Folded.active[r] > 0 =>
       \A i \in DOMAIN log : log[i].op = "create" /\ log[i].id = r =>
         (Folded.active[r] - log[i].target) % Interval = 0

\* No reminder is forgotten: while one is active and nothing was refused, the
\* live owner has a drive under way, or a waiter, or a timer that fires no
\* later than the earliest record (request_drive, arm, when_idle).
RemindersWatched ==
  faults = 0 /\ (\E r \in Reminders : Folded.active[r] > 0) =>
    \/ drive[live] # Free
    \/ next[live] \in {"spawned", "idle"}
    \/ next[live] = "timer" /\ \A r \in Reminders :
         Folded.active[r] > 0 => timer[live] <= Folded.active[r]
=============================================================================
