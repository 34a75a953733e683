-------------------------------- MODULE Jobs --------------------------------
(***************************************************************************)
(* Background jobs (src/src/jobs.rs) and the host's delivery of their      *)
(* completions (JobCompletionDelivery of src/src/host.rs): owners attached *)
(* per agent generation, jobs whose run hook settles once, disposal of one *)
(* owner or of the whole registry by any caller, a run hook included, and  *)
(* the steps of deliver.  Output, labels and observers are left out.       *)
(***************************************************************************)
EXTENDS Integers, FiniteSets

CONSTANTS
  Owners,    \* sessions
  JobIds,    \* jobs
  Settlements, \* of {"completed", "failed"}: what a hook may claim or return
  Reentrant, \* jobs whose hook disposes
  Callers,   \* tasks outside the jobs that dispose
  MaxGen,    \* bound: generations of an owner
  MaxWakes   \* MAX_CONSECUTIVE_JOB_WAKES

VARIABLES
  owner,     \* RegistryState.owners, and the generation last attached
  registry,  \* "live", "disposing" (disposed), "finished" (dispose_finished)
  mapped,    \* the host's job_owners holds the owner
  job,       \* one Job
  call,      \* what a task, or the hook of a job, waits for
  notice,    \* where deliver is for a job
  busy,      \* AgentStatus of a session is not Idle
  wakeups    \* JobCompletionDelivery.wakeups

vars == <<owner, registry, mapped, job, call, notice, busy, wakeups>>

Tasks == Callers \cup JobIds
NoJob == [owner |-> "none", gen |-> 0, status |-> "none", claim |-> "none", hook |-> "none"]
NoCall == [at |-> "idle", of |-> "none", gen |-> 0, waits |-> {}]

Terminal(j) == job[j].status \in {"completed", "killed", "failed"}
Live(j) == job[j].status \in {"running", "stopping"}

Init ==
  /\ owner = [o \in Owners |-> [gen |-> 0, state |-> "none"]] /\ registry = "live"
  /\ mapped = {} /\ job = [j \in JobIds |-> NoJob] /\ call = [c \in Tasks |-> NoCall]
  /\ notice = [j \in JobIds |-> "none"] /\ busy = [o \in Owners |-> FALSE]
  /\ wakeups = [o \in Owners |-> 0]

-----------------------------------------------------------------------------
(* Owners and jobs *)

\* attach_owner, then the host's insert into job_owners.
Attach(o) ==
  /\ registry = "live" /\ owner[o].state = "none" /\ owner[o].gen < MaxGen
  /\ owner' = [owner EXCEPT ![o] = [gen |-> @.gen + 1, state |-> "attached"]]
  /\ mapped' = mapped \cup {o}
  /\ UNCHANGED <<registry, job, call, notice, busy, wakeups>>

\* authorize_owner for a holder of the owner's current generation.
Authorized(o, gen) == registry = "live" /\ owner[o] = [gen |-> gen, state |-> "attached"]

Start(j, o) ==
  /\ job[j] = NoJob /\ Authorized(o, owner[o].gen)
  /\ job' = [job EXCEPT ![j] = [owner |-> o, gen |-> owner[o].gen, status |-> "running",
                                claim |-> "none", hook |-> "running"]]
  /\ UNCHANGED <<owner, registry, mapped, call, notice, busy, wakeups>>

\* JobControl::complete and fail: the first settlement wins.
Claim(j, s) ==
  /\ job[j].hook = "running" /\ job[j].claim = "none" /\ call[j] = NoCall
  /\ job' = [job EXCEPT ![j].claim = s]
  /\ UNCHANGED <<owner, registry, mapped, call, notice, busy, wakeups>>

\* Job::request_stop
Stopped(r) ==
  IF r.status \notin {"running", "stopping"} THEN r
  ELSE [r EXCEPT !.status = "stopping", !.claim = IF @ = "none" THEN "killed" ELSE @]

Kill(j) ==
  /\ Live(j) /\ Authorized(job[j].owner, job[j].gen)
  /\ job' = [job EXCEPT ![j] = Stopped(@)]
  /\ UNCHANGED <<owner, registry, mapped, call, notice, busy, wakeups>>

\* The hook's future has ended and is dropped.
HookReturn(j) ==
  /\ job[j].hook = "running" /\ call[j] = NoCall
  /\ job' = [job EXCEPT ![j].hook = "returned"]
  /\ UNCHANGED <<owner, registry, mapped, call, notice, busy, wakeups>>

\* Job::finalize and notify_done: the host spawns deliver.
Finalize(j, fallback) ==
  /\ job[j].hook = "returned"
  /\ job' = [job EXCEPT ![j].status = IF job[j].claim = "none" THEN fallback ELSE job[j].claim,
                        ![j].hook = "settled"]
  /\ notice' = [notice EXCEPT ![j] = "spawned"]
  /\ UNCHANGED <<owner, registry, mapped, call, busy, wakeups>>

\* finish_disposals: owners without live jobs leave, the registry finishes.
FinishDisposals ==
  /\ owner' = [o \in Owners |->
       IF /\ owner[o].state = "disposing"
          /\ \A j \in JobIds : job[j].owner = o /\ job[j].gen = owner[o].gen => ~Live(j)
       THEN [owner[o] EXCEPT !.state = "none"] ELSE owner[o]]
  /\ registry' = IF registry = "disposing" /\ \A j \in JobIds : ~Live(j)
                 THEN "finished" ELSE registry

\* The end of run_job.
RunJobEnd(j) ==
  /\ job[j].hook = "settled" /\ job' = [job EXCEPT ![j].hook = "done"]
  /\ FinishDisposals
  /\ UNCHANGED <<mapped, call, notice, busy, wakeups>>

-----------------------------------------------------------------------------
(* Disposal *)

\* A task may call; so may the hook of a running job (RUNNING_JOB).
MayCall(c) == call[c] = NoCall /\ (c \in JobIds => c \in Reentrant /\ job[c].hook = "running")

StopAll(jobs) == job' = [j \in JobIds |-> IF j \in jobs THEN Stopped(job[j]) ELSE job[j]]

\* dispose_owner joins a disposal under way, unless it runs in one of the
\* owner's own jobs (current_job_is_owned_by).
JoinsOwner(c, o, gen) == ~(c \in JobIds /\ job[c].owner = o /\ job[c].gen = gen)

\* begin_owner_dispose with stop_and_join's requests; a hook does not wait for
\* its own job.
DisposeOwner(c, o) ==
  /\ MayCall(c) /\ owner[o].gen > 0
  /\ c \in JobIds => job[c].owner = o
  /\ CASE owner[o].state = "attached" ->
            LET jobs == {j \in JobIds : job[j].owner = o /\ job[j].gen = owner[o].gen /\ Live(j)}
            IN  /\ owner' = [owner EXCEPT ![o].state = "disposing"] /\ StopAll(jobs)
                /\ call' = [call EXCEPT ![c] = [at |-> "start", of |-> o, gen |-> owner[o].gen,
                                                waits |-> jobs \ {c}]]
       [] owner[o].state = "disposing" /\ JoinsOwner(c, o, owner[o].gen) ->
            /\ call' = [call EXCEPT ![c] = [at |-> "join", of |-> o, gen |-> owner[o].gen,
                                            waits |-> {}]]
            /\ UNCHANGED <<owner, job>>
       [] OTHER -> UNCHANGED <<owner, job, call>>
  /\ mapped' = mapped \ {o}
  /\ UNCHANGED <<registry, notice, busy, wakeups>>

\* dispose: every owner is marked, every live job asked to stop.
Dispose(c) ==
  /\ MayCall(c)
  /\ CASE registry = "live" ->
            LET jobs == {j \in JobIds : Live(j)}
            IN  /\ registry' = "disposing" /\ StopAll(jobs)
                /\ owner' = [o \in Owners |-> IF owner[o].state = "attached"
                               THEN [owner[o] EXCEPT !.state = "disposing"] ELSE owner[o]]
                /\ call' = [call EXCEPT ![c] = [at |-> "start", of |-> "registry", gen |-> 0,
                                                waits |-> jobs \ {c}]]
       [] registry = "disposing" /\ c \notin JobIds ->
            /\ call' = [call EXCEPT ![c] = [at |-> "join", of |-> "registry", gen |-> 0,
                                            waits |-> {}]]
            /\ UNCHANGED <<owner, registry, job>>
       [] OTHER -> UNCHANGED <<owner, registry, job, call>>
  /\ UNCHANGED <<mapped, notice, busy, wakeups>>

\* stop_and_join has waited for its jobs (wait_for) and finishes.
Joined(c) ==
  /\ call[c].at = "start" /\ \A j \in call[c].waits : Terminal(j)
  /\ call' = [call EXCEPT ![c] = IF c \in JobIds THEN NoCall ELSE [@ EXCEPT !.at = "returned"]]
  /\ FinishDisposals
  /\ UNCHANGED <<mapped, job, notice, busy, wakeups>>

Gone(o, gen) == owner[o].gen # gen \/ owner[o].state # "disposing"

\* wait_for_dispose, wait_for_owner_dispose
JoinReturn(c) ==
  /\ call[c].at = "join"
  /\ IF call[c].of = "registry" THEN registry = "finished" ELSE Gone(call[c].of, call[c].gen)
  /\ call' = [call EXCEPT ![c] = IF c \in JobIds THEN NoCall ELSE [@ EXCEPT !.at = "returned"]]
  /\ UNCHANGED <<owner, registry, mapped, job, notice, busy, wakeups>>

-----------------------------------------------------------------------------
(* JobCompletionDelivery::deliver *)

\* The owner is mapped and authorized, the notice unreported, and the job/done
\* event is written; otherwise the delivery ends.
DeliverLog(j) ==
  LET o == job[j].owner IN
  /\ notice[j] = "spawned"
  /\ \/ o \in mapped /\ Authorized(o, job[j].gen) /\ notice' = [notice EXCEPT ![j] = "logged"]
     \/ notice' = [notice EXCEPT ![j] = "dropped"]
  /\ UNCHANGED <<owner, registry, mapped, job, call, busy, wakeups>>

\* Idle agents are woken, at most MaxWakes times in a row.
Route(j) ==
  LET o == job[j].owner  wake == ~busy[o] /\ wakeups[o] < MaxWakes IN
  /\ notice[j] = "logged"
  /\ notice' = [notice EXCEPT ![j] = IF wake THEN "wake" ELSE "inject"]
  /\ wakeups' = [wakeups EXCEPT ![o] = IF wake THEN @ + 1 ELSE @]
  /\ UNCHANGED <<owner, registry, mapped, job, call, busy>>

\* The inbox event, followup or inject, and report; a refused append or a
\* disposed agent ends the delivery unreported.
Deliver(j) ==
  LET o == job[j].owner IN
  /\ notice[j] \in {"wake", "inject"}
  /\ \/ /\ Authorized(o, job[j].gen)
        /\ busy' = [busy EXCEPT ![o] = @ \/ notice[j] = "wake"]
        /\ notice' = [notice EXCEPT ![j] = "reported"]
     \/ busy' = busy /\ notice' = [notice EXCEPT ![j] = "dropped"]
  /\ UNCHANGED <<owner, registry, mapped, job, call, wakeups>>

\* A user prompt resets the count; a turn ends.
Prompt(o) ==
  /\ o \in mapped /\ ~busy[o]
  /\ busy' = [busy EXCEPT ![o] = TRUE] /\ wakeups' = [wakeups EXCEPT ![o] = 0]
  /\ UNCHANGED <<owner, registry, mapped, job, call, notice>>

TurnEnd(o) ==
  /\ busy[o] /\ busy' = [busy EXCEPT ![o] = FALSE]
  /\ UNCHANGED <<owner, registry, mapped, job, call, notice, wakeups>>

Next ==
  \/ \E o \in Owners : Attach(o) \/ Prompt(o) \/ TurnEnd(o) \/ \E j \in JobIds : Start(j, o)
  \/ \E j \in JobIds :
       \/ \E s \in Settlements : Claim(j, s) \/ Finalize(j, s)
       \/ Kill(j) \/ HookReturn(j) \/ RunJobEnd(j) \/ DeliverLog(j) \/ Route(j) \/ Deliver(j)
  \/ \E c \in Tasks :
       \/ \E o \in Owners : DisposeOwner(c, o)
       \/ Dispose(c) \/ Joined(c) \/ JoinReturn(c)

Spec == Init /\ [][Next]_vars

-----------------------------------------------------------------------------
\* The jobs a task waits for, and the jobs that must end before they do.
WaitsFor(c) ==
  IF call[c].at = "start" THEN {j \in call[c].waits : ~Terminal(j)}
  ELSE IF call[c].at = "join" /\ call[c].of = "registry" THEN {j \in JobIds : Live(j)}
  ELSE IF call[c].at = "join" /\ ~Gone(call[c].of, call[c].gen)
  THEN {j \in JobIds : job[j].owner = call[c].of /\ job[j].gen = call[c].gen /\ Live(j)}
  ELSE {}

\* A disposal that has returned to a caller outside the jobs left no live job
\* of its owner's generation, or of the registry, and no two disposals wait on
\* each other, the ones a run hook calls included (stop_and_join,
\* finish_disposals, current_job_is_owned_by).
DisposalLeavesNoJob ==
  /\ \A c \in Callers : call[c].at = "returned" =>
       \A j \in JobIds :
         (call[c].of = "registry" \/ (job[j].owner = call[c].of /\ job[j].gen = call[c].gen))
           => ~Live(j)
  /\ \A j \in JobIds : Live(j) => j \notin WaitsFor(j)
  /\ \A i, j \in JobIds : Live(i) /\ Live(j) => ~(i \in WaitsFor(j) /\ j \in WaitsFor(i))
=============================================================================
