---------------------------- MODULE ShellSession ----------------------------
(***************************************************************************)
(* Persistent shells: PersistentShell of src/src/subprocess.rs (Unix) and  *)
(* PersistentShellSessions of src/src/builtin_tools.rs, for one session.   *)
(* Tool calls run scripts one at a time in a shell whose two output        *)
(* streams end each script with a marker; a shell is retired by a timeout, *)
(* a cancellation, a stale lease, the end of a stream or its own exit, and *)
(* disposed of by disable, retire or a call that saw it end.  A script's   *)
(* output is one datum; exit codes and the truncation of output are left   *)
(* out.                                                                    *)
(***************************************************************************)
EXTENDS Integers, Sequences, FiniteSets

CONSTANTS
  Callers,    \* bash tool calls
  Modes,      \* sandbox modes a call may ask for
  Disablers,  \* tasks that call disable
  Retirers,   \* tasks that call retire
  MaxShells,  \* bound: shells started
  MaxEntries, \* bound: times the session is enabled
  Background, \* a script may leave a process that holds the output streams
  Ends,       \* of {"cancel", "timeout", "exit", "stale"}: what may befall a call
  Stubborn    \* processes may survive SIGTERM

VARIABLES
  cur,    \* the entry the map holds, or 0
  entry,  \* the PersistentShellSessions made: enabled, slot and the slot's lock
  shell,  \* the PersistentShells started
  task,   \* where each task is
  cmd     \* PersistentShellCommandState of a call, and its cancellation

vars == <<cur, entry, shell, task, cmd>>

Streams == {"O", "E"}
Shells == 1..MaxShells
Stoppers == Shells \X Streams
Disposers == Disablers \cup Retirers
Tasks == Callers \cup Disposers \cup Stoppers

NoShell == [started |-> FALSE, mode |-> "none", proc |-> "none", bg |-> FALSE, input |-> <<>>,
            pipe |-> [s \in Streams |-> <<>>], open |-> Streams, serial |-> "none",
            active |-> "none", cause |-> "none", closed |-> FALSE, disposed |-> FALSE,
            gate |-> <<>>, reap |-> "wait", done |-> FALSE]
Idle == [at |-> "idle", entry |-> 0, shell |-> 0, next |-> "none", cause |-> "none"]

Init ==
  /\ cur = 1
  /\ entry = [e \in 1..MaxEntries |-> [enabled |-> e = 1, slot |-> 0, lock |-> "none"]]
  /\ shell = [n \in Shells |-> NoShell]
  /\ task = [t \in Tasks |-> Idle]
  /\ cmd = [c \in Callers |-> [marks |-> {}, error |-> FALSE, out |-> <<>>, cancelled |-> FALSE,
                               wrote |-> FALSE, result |-> "none"]]

Goto(t, at) == task' = [task EXCEPT ![t].at = at]
Started == {n \in Shells : shell[n].started}

-----------------------------------------------------------------------------
(* The shell's processes and their streams *)

Alive(n) == shell[n].proc = "alive"

\* The shell reads a frame and its script ends: its output, then the two
\* markers (persistent_shell_frame).  Or it makes the shell exit; or it never
\* ends and the frame is as good as unread.  It may leave a process.
Script(n) ==
  /\ Alive(n) /\ shell[n].input # <<>>
  /\ \E bg \in BOOLEAN, exits \in BOOLEAN :
       /\ bg => Background
       /\ exits => "exit" \in Ends
       /\ LET c == Head(shell[n].input) end == IF exits THEN <<>> ELSE <<<<"mark", c>>>> IN
          shell' = [shell EXCEPT ![n].bg = @ \/ bg, ![n].proc = IF exits THEN "dead" ELSE @,
            ![n].input = Tail(@),
            ![n].pipe = [O |-> @.O \o <<<<"data", c>>>> \o end, E |-> @.E \o end]]
  /\ UNCHANGED <<cur, entry, task, cmd>>

\* The process that was left ends.
BackgroundEnds(n) ==
  /\ shell[n].bg /\ shell' = [shell EXCEPT ![n].bg = FALSE] /\ UNCHANGED <<cur, entry, task, cmd>>

\* signal_tree: SIGTERM may be ignored, SIGKILL may not.
Signalled(force) ==
  {[proc |-> p, bg |-> b] : p \in IF Stubborn /\ ~force THEN {"alive", "dead"} ELSE {"dead"},
                            b \in IF Stubborn /\ ~force THEN BOOLEAN ELSE {FALSE}}
After(sh, g) == [sh EXCEPT !.proc = IF @ = "alive" THEN g.proc ELSE @, !.bg = @ /\ g.bg]

\* PersistentShellCommandState::fail on the active command
Failed(n, cm) ==
  IF shell[n].active = "none" \/ cmd[shell[n].active].marks = Streams THEN cm
  ELSE [cm EXCEPT ![shell[n].active].error = TRUE]
Incomplete(n) == shell[n].active # "none" /\ cmd[shell[n].active].marks # Streams

\* drain_persistent_shell_stream and dispatch_persistent_shell_token: data and
\* foreign markers go to the active command, its own marker completes a stream.
Drain(n, s) ==
  /\ s \in shell[n].open /\ shell[n].pipe[s] # <<>>
  /\ LET item == Head(shell[n].pipe[s]) c == shell[n].active IN
     cmd' = IF c = "none" THEN cmd
            ELSE IF item = <<"mark", c>> THEN [cmd EXCEPT ![c].marks = @ \cup {s}]
            ELSE [cmd EXCEPT ![c].out = Append(@, item)]
  /\ shell' = [shell EXCEPT ![n].pipe[s] = Tail(@)]
  /\ UNCHANGED <<cur, entry, task>>

\* The end of a stream: stream_failed closes the shell, fails the active
\* command and spawns a stop.
Eof(n, s) ==
  /\ s \in shell[n].open /\ shell[n].pipe[s] = <<>> /\ shell[n].proc = "dead" /\ ~shell[n].bg
  /\ shell' = [shell EXCEPT ![n].open = @ \ {s}, ![n].closed = TRUE]
  /\ cmd' = Failed(n, cmd)
  /\ task' = [task EXCEPT ![<<n, s>>] =
       [Idle EXCEPT !.at = "stop", !.shell = n, !.next = "gone", !.cause = "terminated"]]
  /\ UNCHANGED <<cur, entry>>

\* reap_persistent_shell
Reap(n) ==
  /\ shell[n].started
  /\ \/ /\ shell[n].reap = "wait" /\ shell[n].proc = "dead" /\ cmd' = Failed(n, cmd)
        /\ \E g \in Signalled(FALSE) :
             shell' = [shell EXCEPT ![n] =
               IF Incomplete(n) /\ @.cause = "none"
               THEN [After(@, g) EXCEPT !.closed = TRUE, !.reap = "grace"]
               ELSE [@ EXCEPT !.closed = TRUE, !.reap = "drain"]]
     \/ /\ shell[n].reap = "grace" /\ UNCHANGED cmd
        /\ \E g \in Signalled(TRUE) :
             shell' = [shell EXCEPT ![n] = [After(@, g) EXCEPT !.reap = "drain"]]
     \/ /\ shell[n].reap = "drain" /\ shell[n].open = {} /\ UNCHANGED cmd
        /\ shell' = [shell EXCEPT ![n].reap = "done", ![n].done = TRUE, ![n].closed = TRUE]
  /\ UNCHANGED <<cur, entry, task>>

-----------------------------------------------------------------------------
(* stop and dispose *)

\* request_termination and, for the first cause, SIGTERM.
Stop(t) ==
  /\ task[t].at = "stop"
  /\ LET n == task[t].shell IN
     IF shell[n].done \/ shell[n].cause # "none"
     THEN Goto(t, "closing") /\ UNCHANGED <<shell, cmd>>
     ELSE /\ \E g \in Signalled(FALSE) :
               shell' = [shell EXCEPT ![n] =
                 [After(@, g) EXCEPT !.cause = task[t].cause, !.closed = TRUE]]
          /\ cmd' = Failed(n, cmd) /\ Goto(t, "grace")
  /\ UNCHANGED <<cur, entry>>

\* The grace period ends before the shell is done: SIGKILL.
Kill(t) ==
  /\ task[t].at = "grace"
  /\ \/ shell[task[t].shell].done /\ UNCHANGED shell
     \/ /\ ~shell[task[t].shell].done
        /\ \E g \in Signalled(TRUE) : shell' = [shell EXCEPT ![task[t].shell] = After(@, g)]
  /\ Goto(t, "closing") /\ UNCHANGED <<cur, entry, cmd>>

\* wait_closed
WaitClosed(t) ==
  /\ task[t].at = "closing" /\ shell[task[t].shell].done
  /\ shell' = [shell EXCEPT ![task[t].shell].gate = IF @ = t THEN <<>> ELSE @]
  /\ task' = [task EXCEPT ![t] = IF t \in Stoppers THEN [Idle EXCEPT !.at = "gone"]
                                 ELSE [@ EXCEPT !.at = task[t].next, !.next = "none", !.cause = "none"]]
  /\ UNCHANGED <<cur, entry, cmd>>

\* PersistentShell::dispose
Dispose(t) ==
  /\ task[t].at = "dispose" /\ shell[task[t].shell].gate = <<>>
  /\ shell' = [shell EXCEPT ![task[t].shell].gate = t, ![task[t].shell].disposed = TRUE]
  /\ task' = [task EXCEPT ![t].at = IF shell[task[t].shell].disposed THEN "closing" ELSE "stop",
                          ![t].cause = "shutdown"]
  /\ UNCHANGED <<cur, entry, cmd>>

-----------------------------------------------------------------------------
(* A tool call *)

\* The call ends with an error.
Err(c, cm) == cmd' = [cm EXCEPT ![c].result = "error"]

\* PersistentShellSessions::run takes the entry, ...
Look(c) ==
  /\ task[c].at = "idle"
  /\ IF cur # 0 /\ entry[cur].enabled
     THEN task' = [task EXCEPT ![c].at = "slot", ![c].entry = cur] /\ UNCHANGED cmd
     ELSE Goto(c, "gone") /\ Err(c, cmd)
  /\ UNCHANGED <<cur, entry, shell>>

\* ... its lock, and the shell, which it starts if there is none ...
Slot(c) ==
  /\ task[c].at = "slot" /\ entry[task[c].entry].lock = "none"
  /\ LET e == task[c].entry n == entry[e].slot IN
     \/ /\ ~entry[e].enabled /\ Goto(c, "gone") /\ Err(c, cmd) /\ UNCHANGED <<entry, shell>>
     \/ /\ entry[e].enabled /\ n # 0 /\ UNCHANGED shell
        /\ \E m \in Modes :
             IF m = shell[n].mode
             THEN /\ entry' = [entry EXCEPT ![e].lock = c] /\ UNCHANGED cmd
                  /\ task' = [task EXCEPT ![c].at = "slotted", ![c].shell = n]
             ELSE Goto(c, "gone") /\ Err(c, cmd) /\ UNCHANGED entry
     \/ /\ entry[e].enabled /\ n = 0 /\ Goto(c, "gone") /\ Err(c, cmd) /\ UNCHANGED <<entry, shell>>
     \/ /\ entry[e].enabled /\ n = 0 /\ Cardinality(Started) < MaxShells
        /\ LET new == Cardinality(Started) + 1 IN
           /\ \E m \in Modes : shell' = [shell EXCEPT ![new] =
                [NoShell EXCEPT !.started = TRUE, !.mode = m, !.proc = "alive"]]
           /\ entry' = [entry EXCEPT ![e].slot = new, ![e].lock = c]
           /\ task' = [task EXCEPT ![c].at = "slotted", ![c].shell = new]
           /\ UNCHANGED cmd
  /\ UNCHANGED cur

\* ... and retires it at once if the session was disabled meanwhile.
Slotted(c) ==
  /\ task[c].at = "slotted"
  /\ LET e == task[c].entry IN
     IF entry[e].enabled
     THEN entry' = [entry EXCEPT ![e].lock = "none"] /\ Goto(c, "serial") /\ UNCHANGED cmd
     ELSE /\ entry' = [entry EXCEPT ![e].lock = "none", ![e].slot = 0]
          /\ task' = [task EXCEPT ![c].at = "dispose", ![c].next = "gone"] /\ Err(c, cmd)
  /\ UNCHANGED <<cur, shell>>

\* PersistentShell::run: disposal and cancellation win over the serial lock.
Serial(c) ==
  /\ task[c].at = "serial"
  /\ LET n == task[c].shell IN
     IF shell[n].disposed \/ cmd[c].cancelled
     THEN Goto(c, "after") /\ Err(c, cmd) /\ UNCHANGED shell
     ELSE /\ shell[n].serial = "none" /\ shell' = [shell EXCEPT ![n].serial = c]
          /\ Goto(c, "locked") /\ UNCHANGED cmd
  /\ UNCHANGED <<cur, entry>>

\* run_locked: the checks, the lease, and the command made active.
Locked(c) ==
  /\ task[c].at = "locked"
  /\ LET n == task[c].shell IN
     \/ /\ shell[n].disposed \/ shell[n].closed \/ cmd[c].cancelled
        /\ Goto(c, "after") /\ Err(c, cmd) /\ shell' = [shell EXCEPT ![n].serial = "none"]
     \/ /\ ~(shell[n].disposed \/ shell[n].closed \/ cmd[c].cancelled) /\ "stale" \in Ends
        /\ task' = [task EXCEPT ![c].at = "stop", ![c].next = "clear", ![c].cause = "terminated"]
        /\ Err(c, cmd) /\ UNCHANGED shell
     \/ /\ ~(shell[n].disposed \/ shell[n].closed \/ cmd[c].cancelled)
        /\ shell' = [shell EXCEPT ![n].active = c] /\ Goto(c, "write") /\ UNCHANGED cmd
  /\ UNCHANGED <<cur, entry>>

\* The frame is written, unless nothing holds the other end of stdin.
Write(c) ==
  /\ task[c].at = "write"
  /\ LET n == task[c].shell IN
     \/ /\ Alive(n) \/ shell[n].bg
        /\ shell' = [shell EXCEPT ![n].input = Append(@, c)]
        /\ cmd' = [cmd EXCEPT ![c].wrote = TRUE] /\ Goto(c, "wait")
     \/ /\ ~Alive(n) /\ Err(c, [cmd EXCEPT ![c].error = cmd[c].marks # Streams]) /\ UNCHANGED shell
        /\ task' = [task EXCEPT ![c].at = "stop", ![c].next = "clear", ![c].cause = "terminated"]
  /\ UNCHANGED <<cur, entry>>

\* The select! on disposal, cancellation, the timeout and the result.
Wait(c) ==
  /\ task[c].at = "wait"
  /\ LET n == task[c].shell IN
     \/ /\ \E why \in {"shutdown", "aborted", "timed-out"} :
             /\ why = "shutdown" => shell[n].disposed
             /\ why = "aborted" => cmd[c].cancelled /\ ~shell[n].disposed
             /\ why = "timed-out" => "timeout" \in Ends /\ ~cmd[c].cancelled /\ ~shell[n].disposed
             /\ task' = [task EXCEPT ![c].at = "stop", ![c].next = "clear", ![c].cause = why]
        /\ Err(c, cmd)
     \/ /\ ~shell[n].disposed /\ ~cmd[c].cancelled
        /\ cmd[c].error \/ cmd[c].marks = Streams
        /\ cmd' = [cmd EXCEPT ![c].result = IF cmd[c].error THEN "error" ELSE "ok"]
        /\ Goto(c, "clear")
  /\ UNCHANGED <<cur, entry, shell>>

\* clear_active; a terminating shell is waited for; the serial lock is dropped.
Clear(c) ==
  /\ task[c].at = "clear"
  /\ LET n == task[c].shell IN
     /\ shell[n].active = c \/ shell[n].cause = "none" \/ shell[n].done
     /\ shell' = [shell EXCEPT ![n].active = IF @ = c THEN "none" ELSE @,
          ![n].serial = IF shell[n].cause = "none" \/ shell[n].done THEN "none" ELSE @]
     /\ IF shell[n].cause = "none" \/ shell[n].done THEN Goto(c, "after") ELSE UNCHANGED task
  /\ UNCHANGED <<cur, entry, cmd>>

\* A failed call takes a terminated shell out of its slot and disposes of it.
AfterRun(c) ==
  /\ task[c].at = "after"
  /\ LET n == task[c].shell e == task[c].entry IN
     IF cmd[c].result = "ok" \/ ~(shell[n].closed \/ shell[n].disposed)
     THEN Goto(c, "gone") /\ UNCHANGED entry
     ELSE /\ entry[e].lock = "none"
          /\ IF entry[e].slot = n
             THEN /\ entry' = [entry EXCEPT ![e].slot = 0]
                  /\ task' = [task EXCEPT ![c].at = "dispose", ![c].next = "gone"]
             ELSE Goto(c, "gone") /\ UNCHANGED entry
  /\ UNCHANGED <<cur, shell, cmd>>

\* The tool call is cancelled.
Cancel(c) ==
  /\ "cancel" \in Ends /\ ~cmd[c].cancelled /\ task[c].at \in {"serial", "locked", "write", "wait"}
  /\ cmd' = [cmd EXCEPT ![c].cancelled = TRUE] /\ UNCHANGED <<cur, entry, shell, task>>

-----------------------------------------------------------------------------
(* enable, disable (shutdown does the same for every session) and retire *)

Enable ==
  /\ cur = 0 /\ \E e \in 1..MaxEntries :
       /\ e > 1 /\ ~entry[e].enabled /\ \A d \in Disposers : task[d].entry # e
       /\ cur' = e /\ entry' = [entry EXCEPT ![e].enabled = TRUE]
  /\ UNCHANGED <<shell, task, cmd>>

Retire(d) ==
  /\ task[d].at = "idle" /\ cur # 0
  /\ task' = [task EXCEPT ![d].at = "take", ![d].entry = cur]
  /\ \/ d \in Retirers /\ UNCHANGED <<cur, entry>>
     \/ d \in Disablers /\ cur' = 0 /\ entry' = [entry EXCEPT ![cur].enabled = FALSE]
  /\ UNCHANGED <<shell, cmd>>

\* PersistentShellSession::dispose
Take(d) ==
  /\ task[d].at = "take" /\ entry[task[d].entry].lock = "none"
  /\ LET n == entry[task[d].entry].slot IN
     /\ entry' = [entry EXCEPT ![task[d].entry].slot = 0]
     /\ task' = [task EXCEPT ![d].at = IF n = 0 THEN "returned" ELSE "dispose",
                             ![d].shell = n, ![d].next = "returned"]
  /\ UNCHANGED <<cur, shell, cmd>>

Next ==
  \/ \E n \in Shells : \/ Script(n) \/ BackgroundEnds(n) \/ Reap(n)
                       \/ \E s \in Streams : Drain(n, s) \/ Eof(n, s)
  \/ \E t \in Tasks : Stop(t) \/ Kill(t) \/ WaitClosed(t) \/ Dispose(t)
  \/ \E c \in Callers : \/ Look(c) \/ Slot(c) \/ Slotted(c) \/ Serial(c) \/ Locked(c) \/ Write(c)
                        \/ Wait(c) \/ Clear(c) \/ AfterRun(c) \/ Cancel(c)
  \/ \E d \in Disposers : Retire(d) \/ Take(d)
  \/ Enable

-----------------------------------------------------------------------------
\* A call that returns a result has the output of its own script, all of it,
\* and of no other script (Drain, the serial lock, clear_active).
OutputIsOwn ==
  \A c \in Callers : cmd[c].result = "ok" => cmd[c].out = <<<<"data", c>>>>

\* A script that was sent and did not finish retires the shell: no later
\* script is sent to it (request_termination, stream_failed, the reaper).
UnfinishedRetires ==
  \A c, d \in Callers :
    /\ c # d /\ task[c].shell = task[d].shell /\ task[c].shell # 0
    /\ cmd[c].wrote /\ cmd[c].result = "error" /\ task[c].at \in {"after", "gone"}
    => task[d].at # "wait" /\ shell[task[c].shell].closed

\* When disable or retire has returned, the shells of its entry are done, their
\* processes gone and their streams drained, but for one that a call took out
\* of the slot first and is still disposing of, or another retire does (PersistentShellSession::dispose).
DisableReaps ==
  \A d \in Disposers : task[d].at = "returned" => \A n \in Started :
    \/ shell[n].done
    \/ \E e \in 1..MaxEntries : entry[e].slot = n /\ (e # task[d].entry \/ d \in Retirers)
    \/ \E t \in Tasks \ {d} :
         task[t].shell = n /\ task[t].at \in {"dispose", "stop", "grace", "closing"}

\* A shell that is done has no process and no open stream left.
DoneIsGone == \A n \in Started : shell[n].done => ~Alive(n) /\ ~shell[n].bg /\ shell[n].open = {}
=============================================================================
