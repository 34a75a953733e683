----------------------------- MODULE Subprocess -----------------------------
(***************************************************************************)
(* Owned processes: SubprocessRuntime of src/src/subprocess.rs (Unix) and  *)
(* the one-shot bash call of src/src/builtin_tools.rs.  The runtime keeps  *)
(* its children by process id, a reaper per child collects the output and  *)
(* records the end, and callers stop a child with SIGTERM to its group, a  *)
(* grace period and SIGKILL.  One output stream per process; its bytes are *)
(* numbered.                                                               *)
(***************************************************************************)
EXTENDS Integers, Sequences, FiniteSets, SequencesExt

CONSTANTS
  Procs,      \* processes the runtime may spawn
  Pids,       \* process ids the system hands out
  Causes,     \* of {"Terminated", "Aborted", "TimedOut"}: what callers ask for
  Spills,     \* spill policies of a capture: subset of {"none", "file", "refused"}
  TailBytes,  \* CaptureOutput::tail_bytes
  MaxBytes,   \* bound: bytes a process writes
  Relatives,  \* of {"group", "quiet", "escaped"}: processes a child may leave
  Faults,     \* spill writes and syncs may fail
  Shells,     \* one-shot bash calls
  MaxOutput,  \* max_output_bytes of the bash tool
  MaxGen      \* bound: workspace generations

VARIABLES
  proc,      \* the processes and their ProcessState
  children,  \* RuntimeInner::children
  stop,      \* calls of terminate, abort, wait_timeout and shutdown's tasks
  down,      \* where shutdown is and what it found
  sh,        \* one-shot bash calls
  gen,       \* the current generation of the session's workspace
  limit      \* the session's sandbox mode

pvars == <<proc, children, stop, down>>
svars == <<sh, gen, limit>>
vars == <<pvars, svars>>

Empty == [tail |-> <<>>, total |-> 0, path |-> "none"]
NoProc == [at |-> "new", pid |-> 0, alive |-> {}, kin |-> {}, spill |-> "none", reader |-> "none",
           file |-> <<>>, sent |-> 0, out |-> Empty, cause |-> "none", killed |-> FALSE,
           done |-> "no", shared |-> FALSE]
Stops == Procs \X (Causes \cup {"Shutdown"})
Modes == 0..1
NoShell == [at |-> "idle", mode |-> 0, current |-> 0, approved |-> FALSE, background |-> FALSE,
            persistent |-> FALSE, lease |-> 0, ran |-> 0, alive |-> {}, sent |-> 0, kept |-> 0, truncated |-> FALSE,
            cancelled |-> FALSE, result |-> "none"]

Init ==
  /\ proc = [p \in Procs |-> NoProc]
  /\ children = [i \in Pids |-> {}]
  /\ stop = [s \in Stops |-> "idle"]
  /\ down = [at |-> "open", found |-> {}, owed |-> {}]
  /\ sh = [c \in Shells |-> NoShell]
  /\ gen = 1
  /\ limit = 1

Set(p, r) == proc' = [proc EXCEPT ![p] = r]
Group == {"root", "group", "quiet"}  \* addressed by kill(-pid)
Holders == {"root", "group", "escaped"}  \* hold the write end of the output
Taken(i) == \E p \in Procs : /\ proc[p].pid = i
                             /\ proc[p].at = "run" \/ proc[p].alive \cap Group # {}

-----------------------------------------------------------------------------
(* Spawning, and what the processes do *)

\* SubprocessRuntime::spawn.  The map is keyed by process id; an entry whose
\* process was waited for but not yet removed is displaced.
Spawn(p, i, spill) ==
  /\ proc[p].at = "new" /\ ~Taken(i)
  /\ proc' = [q \in Procs |->
       IF q = p THEN [NoProc EXCEPT !.at = "run", !.pid = i, !.alive = {"root"}, !.spill = spill,
                                    !.reader = IF spill = "refused" THEN "dropped" ELSE "open",
                                    !.out.path = IF spill = "file" THEN "file" ELSE "none",
                                    !.shared = \E o \in Procs : proc[o].pid = i /\ proc[o].at # "removed"]
       ELSE [proc[q] EXCEPT !.shared = @ \/ (proc[q].pid = i /\ proc[q].at # "removed")]]
  /\ children' = [children EXCEPT ![i] = {p}]
  /\ UNCHANGED <<stop, down>>

Fork(p, kin) ==
  /\ "root" \in proc[p].alive /\ kin \notin proc[p].kin
  /\ Set(p, [proc[p] EXCEPT !.alive = @ \cup {kin}, !.kin = @ \cup {kin}])
  /\ UNCHANGED <<children, stop, down>>

Exit(p, w) ==
  /\ w \in proc[p].alive
  /\ Set(p, [proc[p] EXCEPT !.alive = @ \ {w}])
  /\ UNCHANGED <<children, stop, down>>

\* push_tail
PushTail(tail, bytes, capacity) ==
  CASE capacity = 0 -> <<>>
    [] capacity # 0 /\ Len(bytes) >= capacity -> SubSeq(bytes, Len(bytes) - capacity + 1, Len(bytes))
    [] OTHER -> LET both == tail \o bytes
                    excess == IF Len(both) > capacity THEN Len(both) - capacity ELSE 0
                IN SubSeq(both, excess + 1, Len(both))

\* One read of collect_output: k bytes the process wrote.  Without a reader
\* they are lost.
Collect(p, k, fails) ==
  LET o == proc[p].out
      bytes == [n \in 1..k |-> proc[p].sent + n]
      read == [o EXCEPT !.total = @ + k, !.tail = PushTail(@, bytes, TailBytes),
                        !.path = IF fails THEN "none" ELSE @]
  IN /\ proc[p].alive \cap Holders # {} /\ proc[p].sent + k <= MaxBytes
     /\ fails => Faults /\ o.path = "file" /\ proc[p].reader = "open"
     /\ Set(p, [proc[p] EXCEPT !.sent = @ + k,
                               !.out = IF proc[p].reader = "open" THEN read ELSE @,
                               !.file = IF o.path = "file" /\ ~fails THEN @ \o bytes ELSE @])
     /\ UNCHANGED <<children, stop, down>>

-----------------------------------------------------------------------------
(* reap_child *)

\* child.wait returns: the process id is free unless its group lives on.
Reaped(p) ==
  /\ proc[p].at = "run" /\ "root" \notin proc[p].alive
  /\ Set(p, [proc[p] EXCEPT !.at = "waited"])
  /\ UNCHANGED <<children, stop, down>>

\* The collector saw the end of the stream, or never had one; its result and
\* the end are recorded and the waiters woken.
Done(p, unsynced) ==
  /\ proc[p].at = "waited"
  /\ proc[p].reader = "open" => proc[p].alive \cap Holders = {}
  /\ unsynced => Faults /\ proc[p].out.path = "file"
  /\ Set(p, [proc[p] EXCEPT !.at = "done", !.done = proc[p].cause,
                            !.out.path = IF unsynced THEN "none" ELSE @])
  /\ UNCHANGED <<children, stop, down>>

\* The reaper removes the entry its process id names.
Removed(p) ==
  /\ proc[p].at = "done"
  /\ children' = [children EXCEPT ![proc[p].pid] = {}]
  /\ Set(p, [proc[p] EXCEPT !.at = "removed"])
  /\ UNCHANGED <<stop, down>>

IsDone(p) == proc[p].at \in {"done", "removed"}

-----------------------------------------------------------------------------
(* Subprocess::stop, wait, wait_timeout, terminate, abort; shutdown *)

\* signal_tree: whatever group carries the process id now.
Signalled(i, dying) ==
  [q \in Procs |-> IF proc[q].pid = i THEN [proc[q] EXCEPT !.alive = @ \ dying] ELSE proc[q]]

\* wait_timeout first waits; its timer calls stop.
Ask(s) ==
  /\ s[2] = "TimedOut" /\ stop[s] = "idle" /\ proc[s[1]].at # "new"
  /\ stop' = [stop EXCEPT ![s] = "asked"]
  /\ UNCHANGED <<proc, children, down>>

\* The first cause is kept and its caller alone sends signals.  Any of the
\* group may ignore SIGTERM.
Begin(s) ==
  LET p == s[1]
  IN /\ \/ stop[s] = "asked"
        \/ s[2] \in {"Terminated", "Aborted"} /\ stop[s] = "idle" /\ proc[p].at # "new"
     /\ IF IsDone(p) \/ proc[p].cause # "none"
        THEN stop' = [stop EXCEPT ![s] = "wait"] /\ UNCHANGED proc
        ELSE /\ stop' = [stop EXCEPT ![s] = "grace"]
             /\ \E heed \in SUBSET (UNION {proc[q].alive \cap Group : q \in Procs}) :
                  proc' = [Signalled(proc[p].pid, heed) EXCEPT ![p].cause = s[2]]
     /\ UNCHANGED <<children, down>>

Grace(s) ==
  /\ stop[s] = "grace"
  /\ stop' = [stop EXCEPT ![s] = "wait"]
  /\ proc' = IF IsDone(s[1]) THEN proc
             ELSE [Signalled(proc[s[1]].pid, Group) EXCEPT ![s[1]].killed = TRUE]
  /\ UNCHANGED <<children, down>>

\* done arrives during the grace period, or ends the wait.
Return(s) ==
  /\ stop[s] = "wait" \/ stop[s] = "grace" \/ (stop[s] = "asked" /\ s[2] = "TimedOut")
  /\ IsDone(s[1])
  /\ stop' = [stop EXCEPT ![s] = "returned"]
  /\ UNCHANGED <<proc, children, down>>

ShutdownBegin ==
  LET found == UNION {children[i] : i \in Pids}
  IN /\ down.at = "open"
     /\ down' = [at |-> "join", found |-> found,
                 owed |-> {p \in Procs : proc[p].at # "new" /\ ~IsDone(p)}]
     /\ stop' = [s \in Stops |-> IF s[2] = "Shutdown" /\ s[1] \in found THEN "asked" ELSE stop[s]]
     /\ UNCHANGED <<proc, children>>

ShutdownEnd ==
  /\ down.at = "join"
  /\ \A p \in down.found : stop[<<p, "Shutdown">>] = "returned"
  /\ down' = [down EXCEPT !.at = "closed"]
  /\ UNCHANGED <<proc, children, stop>>

-----------------------------------------------------------------------------
(* read_output *)

Refused == [ok |-> FALSE, bytes |-> <<>>, next |-> 0]
ReadOutput(p, offset, max) ==
  LET o == proc[p].out
      wanted == IF max < o.total - offset THEN max ELSE o.total - offset
      from == o.total - Len(o.tail)
      Got(b) == [ok |-> TRUE, bytes |-> b, next |-> offset + Len(b)]
  IN CASE ~IsDone(p) \/ offset > o.total -> Refused
       [] IsDone(p) /\ offset <= o.total /\ wanted = 0 -> Got(<<>>)
       [] IsDone(p) /\ wanted > 0 /\ o.path = "file" ->
            Got(SubSeq(proc[p].file, offset + 1, offset + wanted))
       [] IsDone(p) /\ wanted > 0 /\ o.path = "none" ->
            IF offset < from THEN Refused ELSE Got(SubSeq(o.tail, offset - from + 1, offset - from + wanted))

-----------------------------------------------------------------------------
(* The bash tool's one-shot path *)

SetSh(c, r) == sh' = [sh EXCEPT ![c] = r] /\ UNCHANGED <<gen, limit>>

\* Bash::run as far as its first await: whether the session has a persistent
\* shell, the lease and the session's mode are read, and a mode above the
\* session's needs approval.
Call(c, mode, background, persistent) ==
  /\ sh[c].at = "idle"
  /\ SetSh(c, [NoShell EXCEPT !.at = IF mode > limit THEN "approve" ELSE "route", !.mode = mode,
                              !.current = limit, !.background = background,
                              !.persistent = persistent, !.lease = gen])

\* The approver answers; without approval the call ends.
Approve(c, yes) ==
  /\ sh[c].at = "approve"
  /\ SetSh(c, [sh[c] EXCEPT !.at = IF yes THEN "route" ELSE "end", !.approved = yes,
                            !.result = IF yes THEN @ ELSE "denied"])

\* Where the command runs: as a job if the session has a live owner of jobs, in
\* the persistent shell (module ShellSession), or at once.
Route(c, owned) ==
  LET refused == sh[c].background /\ (sh[c].persistent \/ ~owned)
  IN /\ sh[c].at = "route" /\ (~sh[c].background => owned)
     /\ SetSh(c, [sh[c] EXCEPT !.at = IF refused \/ sh[c].persistent THEN "end" ELSE "start",
                               !.result = CASE refused -> "refused"
                                            [] ~refused /\ sh[c].persistent -> "persistent"
                                            [] OTHER -> "none"])

\* run_bash: the lease is validated again; a background job resolves it anew.
Start(c) ==
  LET lease == IF sh[c].background THEN gen ELSE sh[c].lease
  IN /\ sh[c].at = "start"
     /\ SetSh(c, IF lease # gen THEN [sh[c] EXCEPT !.at = "end", !.result = "stale"]
                 ELSE [sh[c] EXCEPT !.at = "run", !.lease = lease, !.ran = gen, !.alive = {"root"}])

ShFork(c) ==
  /\ "root" \in sh[c].alive /\ "group" \in Relatives /\ "group" \notin sh[c].alive
  /\ SetSh(c, [sh[c] EXCEPT !.alive = @ \cup {"group"}])

ShExit(c, w) ==
  /\ w \in sh[c].alive
  /\ SetSh(c, [sh[c] EXCEPT !.alive = @ \ {w}])

\* copy_bounded and CapturedOutput::append
CopyBounded(c, k) ==
  LET copied == IF k < MaxOutput - sh[c].kept THEN k ELSE MaxOutput - sh[c].kept
  IN /\ sh[c].alive # {} /\ sh[c].sent + k <= MaxBytes
     /\ SetSh(c, [sh[c] EXCEPT !.sent = @ + k, !.kept = @ + copied,
                               !.truncated = @ \/ copied < k])

Cancel(c) ==
  /\ sh[c].at \in {"run", "drain"} /\ ~sh[c].cancelled
  /\ SetSh(c, [sh[c] EXCEPT !.cancelled = TRUE])

\* The select: the shell ended, or the call was cancelled and the shell alone
\* is killed; either way the copies are joined next.
ShWait(c) ==
  /\ sh[c].at = "run"
  /\ \/ "root" \notin sh[c].alive /\ SetSh(c, [sh[c] EXCEPT !.at = "drain", !.result = "exit"])
     \/ sh[c].cancelled
        /\ SetSh(c, [sh[c] EXCEPT !.at = "drain", !.alive = @ \ {"root"}, !.result = "cancelled"])

ShReturn(c) ==
  /\ sh[c].at = "drain" /\ sh[c].alive = {}
  /\ SetSh(c, [sh[c] EXCEPT !.at = "end"])

\* The workspace is registered again, or the session's mode is changed.
Rebind == gen < MaxGen /\ gen' = gen + 1 /\ UNCHANGED <<sh, limit>>
SetLimit(m) == Shells # {} /\ limit # m /\ limit' = m /\ UNCHANGED <<sh, gen>>

-----------------------------------------------------------------------------

ProcNext ==
  \/ \E p \in Procs :
       \/ \E i \in Pids, spill \in Spills : Spawn(p, i, spill)
       \/ \E kin \in Relatives : Fork(p, kin)
       \/ \E w \in Group \cup Holders : Exit(p, w)
       \/ \E k \in 1..2, fails \in BOOLEAN : Collect(p, k, fails)
       \/ Reaped(p)
       \/ \E unsynced \in BOOLEAN : Done(p, unsynced)
       \/ Removed(p)
  \/ \E s \in Stops : Ask(s) \/ Begin(s) \/ Grace(s) \/ Return(s)
  \/ ShutdownBegin
  \/ ShutdownEnd

ShNext ==
  \/ \E c \in Shells :
       \/ \E mode \in Modes \cup {2}, background, persistent \in BOOLEAN :
            Call(c, mode, background, persistent)
       \/ \E yes \in BOOLEAN : Approve(c, yes)
       \/ \E owned \in BOOLEAN : Route(c, owned)
       \/ Start(c)
       \/ ShFork(c)
       \/ \E w \in {"root", "group"} : ShExit(c, w)
       \/ \E k \in 1..2 : CopyBounded(c, k)
       \/ Cancel(c)
       \/ ShWait(c)
       \/ ShReturn(c)
  \/ Rebind
  \/ \E m \in Modes : SetLimit(m)

Next == (ProcNext /\ UNCHANGED svars) \/ (ShNext /\ UNCHANGED pvars)
Spec == Init /\ [][Next]_vars

-----------------------------------------------------------------------------

TypeOK ==
  /\ \A p \in Procs : /\ proc[p].at \in {"new", "run", "waited", "done", "removed"}
                      /\ proc[p].alive \subseteq Group \cup Holders
                      /\ proc[p].out.total \in 0..MaxBytes
  /\ \A i \in Pids : children[i] \subseteq Procs
  /\ \A s \in Stops : stop[s] \in {"idle", "asked", "grace", "wait", "returned"}
  /\ \A c \in Shells : sh[c].at \in {"idle", "approve", "route", "start", "run", "drain", "end"}

\* A read of a finished process's output returns exactly the bytes of the range
\* the process wrote; it is refused only for bytes older than the tail of a
\* capture without a spill file; and unless its spill file could not be created
\* every byte is counted (read_output, collect_output, push_tail).
ReadsAreExact ==
  \A p \in Procs : IsDone(p) =>
    LET o == proc[p].out IN
    /\ o.total = IF proc[p].reader = "open" THEN proc[p].sent ELSE 0
    /\ \A offset \in 0..o.total, max \in 0..2 :
         LET got == ReadOutput(p, offset, max)
             end == IF offset + max < o.total THEN offset + max ELSE o.total
         IN IF got.ok THEN got.bytes = [n \in 1..(end - offset) |-> offset + n] /\ got.next = end
            ELSE o.path = "none" /\ offset < o.total - TailBytes /\ max > 0

\* A stop that returned saw the root reaped and, unless the capture was refused,
\* every output handle closed; and a group that was sent SIGKILL is gone.  A
\* member that holds no output and ignores SIGTERM is not waited for
\* (Subprocess::stop, wait).
StopReaps ==
  /\ \A s \in Stops : stop[s] = "returned" =>
       LET p == proc[s[1]]
       IN "root" \notin p.alive /\ (p.reader = "open" => p.alive \cap Holders = {})
  /\ \A p \in Procs : proc[p].killed /\ ~proc[p].shared => proc[p].alive \subseteq {"escaped"}

\* When shutdown has returned every process that was running when it began has
\* ended, unless another was spawned under the same process id before its entry
\* was removed (SubprocessRuntime::shutdown, reap_child).
ShutdownJoins ==
  down.at = "closed" => \A p \in down.owed : IsDone(p) \/ proc[p].shared

\* A shell runs only with the sandbox mode the session had when it was called or
\* one that was approved, in the workspace generation that is current when it
\* starts; its result never holds more than the bound, and says so exactly when
\* bytes were left out; and it is reported only after its output is closed
\* (Bash::run, run_bash).
ShellBounded ==
  \A c \in Shells :
    /\ sh[c].ran # 0 => sh[c].lease = sh[c].ran /\ (sh[c].mode <= sh[c].current \/ sh[c].approved)
    /\ sh[c].kept = IF sh[c].sent < MaxOutput THEN sh[c].sent ELSE MaxOutput
    /\ sh[c].truncated <=> sh[c].sent > MaxOutput
    /\ sh[c].at = "end" => sh[c].alive = {}

=============================================================================
