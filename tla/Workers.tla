------------------------------ MODULE Workers ------------------------------
(***************************************************************************)
(* Child processes that are spoken to over their standard streams: the     *)
(* worker of a code-mode program, whose calls are dispatched to the tool   *)
(* runtime (src/src/code_runtime.rs), and language servers behind the      *)
(* registry that owns their file extensions (src/src/lsp.rs).  Unix: a     *)
(* killed worker's descendants live on, and may hold its streams open.     *)
(*                                                                         *)
(* A future that is dropped at an await stops there: LspRuntime::request   *)
(* drops its provider's request when it times out or is cancelled.         *)
(***************************************************************************)
EXTENDS Integers, Sequences, FiniteSets, SequencesExt

CONSTANTS
  Runs,      \* calls of run_code
  Frames,    \* what a worker may write on stdout: [is, size]
  MaxLines,  \* bound: lines a worker writes
  MaxOutput, \* max_output_bytes
  Heirs,     \* whether a worker may leave a descendant that holds its streams
  Servers,   \* stdio language servers
  Names,     \* provider names
  Claims,    \* extension sets a registration may ask for
  Queries,   \* requests
  MaxNotes,  \* bound: notifications of a server
  MaxRegs    \* bound: registrations

VARIABLES
  code,   \* [disposed, live, bye]: ProcessCodeRuntime
  run,    \* run -> a run and its worker
  reg,    \* [closed, providers, next, bye, todo]: LspRuntime
  server, \* server -> a StdioLspProvider and its process
  query   \* query -> a request

vars == <<code, run, reg, server, query>>

None == "none"
Without(f, k) == [x \in DOMAIN f \ {k} |-> f[x]]

-----------------------------------------------------------------------------
(* Code runs *)

NoRun == [at |-> "new", cancelled |-> FALSE, told |-> FALSE, alive |-> FALSE, heir |-> FALSE, exited |-> FALSE,
          out |-> <<>>, err |-> 0, lines |-> 0, outOpen |-> TRUE, errOpen |-> TRUE, bytes |-> 2, entries |-> 0,
          overflow |-> FALSE, outcome |-> None, value |-> 0, calls |-> <<>>, events |-> <<>>, result |-> None]
RunIs(r, rec) == run' = [run EXCEPT ![r] = rec]
LspFrame == UNCHANGED <<reg, server, query>>
Fail(rec, kind) == [rec EXCEPT !.outcome = kind, !.value = 1]

\* Ledger::log: a text of `size' bytes and the comma before it, as long as it fits.
Logged(rec, size) ==
  LET need == size + (IF rec.entries > 0 THEN 1 ELSE 0)
  IN IF rec.overflow \/ rec.bytes + need > MaxOutput THEN [rec EXCEPT !.overflow = TRUE]
     ELSE [rec EXCEPT !.bytes = @ + need, !.entries = @ + 1]
LogOrFail(rec, size) ==
  LET next == Logged(rec, size) IN IF next.overflow THEN Fail(next, "output-limit") ELSE next

\* reserve, then the early checks of execute and the spawn.
Reserve(r) ==
  /\ run[r].at = "new"
  /\ IF code.disposed THEN RunIs(r, [run[r] EXCEPT !.at = "done", !.result = "disposed"]) /\ UNCHANGED code
     ELSE RunIs(r, [run[r] EXCEPT !.at = "spawn"]) /\ code' = [code EXCEPT !.live = @ \cup {r}]
  /\ LspFrame

Spawn(r) ==
  /\ run[r].at = "spawn"
  /\ \/ run[r].cancelled /\ RunIs(r, [Fail(run[r], "abort") EXCEPT !.at = "finish"])
     \/ ~run[r].cancelled /\ RunIs(r, [Fail(run[r], "worker-exit") EXCEPT !.at = "finish"])
     \/ ~run[r].cancelled /\ RunIs(r, [run[r] EXCEPT !.at = "boot", !.alive = TRUE])
  /\ UNCHANGED code /\ LspFrame

\* The program is written before any deadline runs.
Boot(r) ==
  /\ run[r].at = "boot"
  /\ RunIs(r, IF run[r].alive THEN [run[r] EXCEPT !.at = "loop"]
              ELSE [Fail(run[r], "worker-exit") EXCEPT !.at = "wind"])
  /\ UNCHANGED code /\ LspFrame

\* The worker: a line on stdout, a line on stderr, a descendant, its end.
Worker(r) ==
  /\ run[r].alive \/ run[r].heir
  /\ run[r].at \in {"boot", "loop", "writing", "wind", "drain"}
  /\ \/ /\ run[r].lines < MaxLines
        /\ \/ \E f \in Frames : RunIs(r, [run[r] EXCEPT !.lines = @ + 1, !.out = Append(@, f)])
           \/ RunIs(r, [run[r] EXCEPT !.lines = @ + 1, !.err = @ + 1])
     \/ Heirs /\ run[r].alive /\ ~run[r].heir /\ RunIs(r, [run[r] EXCEPT !.heir = TRUE])
     \/ run[r].alive /\ RunIs(r, [run[r] EXCEPT !.alive = FALSE])
     \/ ~run[r].alive /\ RunIs(r, [run[r] EXCEPT !.heir = FALSE])
  /\ UNCHANGED code /\ LspFrame

Streaming(rec) == rec.alive \/ rec.heir
Looping(r) == run[r].at = "loop" /\ run[r].outcome = None
Read(f, rec) ==
  CASE f.is = "log" -> LogOrFail(rec, f.size)
    [] f.is = "call" -> [rec EXCEPT !.calls = Append(@, "queued")]
    [] f.is = "done" -> [rec EXCEPT !.outcome = "success", !.value = f.size]
    [] OTHER -> Fail(rec, "invalid-output")

\* One turn of the select: a line or the end of a stream, the end of the worker, the deadline, a cancellation.
ReadOut(r) ==
  /\ Looping(r) /\ run[r].outOpen
  /\ \/ run[r].out # <<>> /\ RunIs(r, Read(Head(run[r].out), [run[r] EXCEPT !.out = Tail(@)]))
     \/ run[r].out = <<>> /\ ~Streaming(run[r]) /\ RunIs(r, [run[r] EXCEPT !.outOpen = FALSE])
  /\ UNCHANGED code /\ LspFrame
ReadErr(r) ==
  /\ Looping(r) /\ run[r].errOpen
  /\ \/ run[r].err > 0 /\ RunIs(r, LogOrFail([run[r] EXCEPT !.err = @ - 1], 1))
     \/ run[r].err = 0 /\ ~Streaming(run[r]) /\ RunIs(r, [run[r] EXCEPT !.errOpen = FALSE])
  /\ UNCHANGED code /\ LspFrame
Interrupt(r) ==
  /\ Looping(r)
  /\ \/ ~run[r].alive /\ ~run[r].exited /\ RunIs(r, [run[r] EXCEPT !.exited = TRUE])
     \/ RunIs(r, Fail(run[r], "timeout"))
     \/ (run[r].cancelled \/ run[r].told) /\ RunIs(r, Fail(run[r], "abort"))
  /\ UNCHANGED code /\ LspFrame

\* The select polls the dispatched calls: DispatchBinding::call records its start before it waits.
Event(i, what) == [call |-> i, is |-> what]
StartCall(r, i) ==
  /\ Looping(r) /\ run[r].calls[i] = "queued"
  /\ RunIs(r, [run[r] EXCEPT !.calls[i] = "running", !.events = Append(@, Event(i, "start"))])
  /\ UNCHANGED code /\ LspFrame
\* The tool settles: the completion is recorded and the reply is written; nothing else is polled meanwhile.
SettleCall(r, i) ==
  /\ Looping(r) /\ run[r].calls[i] = "running"
  /\ RunIs(r, [run[r] EXCEPT !.calls[i] = "settled", !.at = "writing", !.events = Append(@, Event(i, "completed"))])
  /\ UNCHANGED code /\ LspFrame
Reply(r) ==
  /\ run[r].at = "writing"
  /\ RunIs(r, IF run[r].alive THEN [run[r] EXCEPT !.at = "loop"]
              ELSE [Fail(run[r], "worker-exit") EXCEPT !.at = "loop"])
  /\ UNCHANGED code /\ LspFrame

\* The loop ends with an outcome or with the worker and both its streams.
EndLoop(r) ==
  /\ run[r].at = "loop"
  /\ \/ run[r].outcome # None /\ RunIs(r, [run[r] EXCEPT !.at = "wind"])
     \/ /\ run[r].outcome = None /\ run[r].exited /\ ~run[r].outOpen /\ ~run[r].errOpen
        /\ RunIs(r, [Fail(run[r], "worker-exit") EXCEPT !.at = "wind"])
  /\ UNCHANGED code /\ LspFrame

\* The bindings are cancelled, the calls that still run are dropped, the worker is killed.
Running(rec) == SelectSeq([i \in DOMAIN rec.calls |-> i], LAMBDA i : rec.calls[i] = "running")
Signalled(rec) == [k \in DOMAIN Running(rec) |-> Event(Running(rec)[k], "signalled")]
Wind(r) ==
  /\ run[r].at = "wind"
  /\ RunIs(r, [run[r] EXCEPT !.at = "drain", !.alive = FALSE, !.events = @ \o Signalled(run[r]),
                             !.calls = [i \in DOMAIN @ |-> IF @[i] = "running" THEN "dropped" ELSE @[i]]])
  /\ UNCHANGED code /\ LspFrame

\* What was still written is logged as it is, up to the end of the streams.
Drain(r) ==
  /\ run[r].at = "drain"
  /\ IF run[r].out # <<>>
     THEN RunIs(r, Logged([run[r] EXCEPT !.out = Tail(@)], Head(run[r].out).size))
     ELSE IF run[r].err > 0 THEN RunIs(r, Logged([run[r] EXCEPT !.err = @ - 1], 1))
     ELSE ~Streaming(run[r]) /\ RunIs(r, [run[r] EXCEPT !.at = "finish"])
  /\ UNCHANGED code /\ LspFrame

\* Ledger::success or failure; the guard of the run leaves the live map.
Finish(r) ==
  /\ run[r].at = "finish"
  /\ RunIs(r, [run[r] EXCEPT !.at = "done",
       !.result = IF run[r].overflow \/ run[r].bytes + run[r].value > MaxOutput THEN "output-limit" ELSE run[r].outcome])
  /\ code' = [code EXCEPT !.live = @ \ {r}]
  /\ LspFrame

CancelRun(r) ==
  /\ run[r].at # "done" /\ ~run[r].cancelled
  /\ RunIs(r, [run[r] EXCEPT !.cancelled = TRUE])
  /\ UNCHANGED code /\ LspFrame

\* ProcessCodeRuntime::dispose tells every live run and waits until none is left.
DisposeCode ==
  /\ Runs # {} /\ ~code.disposed
  /\ code' = [code EXCEPT !.disposed = TRUE]
  /\ run' = [r \in Runs |-> [run[r] EXCEPT !.told = r \in code.live]]
  /\ LspFrame
DisposedCode ==
  /\ code.disposed /\ ~code.bye /\ code.live = {}
  /\ code' = [code EXCEPT !.bye = TRUE]
  /\ UNCHANGED run /\ LspFrame

-----------------------------------------------------------------------------
(* The registry of language servers *)

CodeFrame == UNCHANGED <<code, run>>
NoQuery == [at |-> "new", cancelled |-> FALSE, src |-> None, id |-> 0, got |-> 0, result |-> None]
QueryIs(q, rec) == query' = [query EXCEPT ![q] = rec]
EndQuery(q, result) == QueryIs(q, [query[q] EXCEPT !.at = "done", !.result = result])
ServerIs(s, rec) == server' = [server EXCEPT ![s] = rec]

\* `extensions', as the providers' own sets say it.
Owner(e) == {n \in DOMAIN reg.providers : e \in reg.providers[n].exts}

\* Every extension or none.
RegisterServer(n, s, exts) ==
  /\ reg.next < MaxRegs /\ ~reg.closed
  /\ n \notin DOMAIN reg.providers /\ \A e \in exts : e \notin DOMAIN reg.extensions
  /\ reg' = [reg EXCEPT !.next = @ + 1,
               !.extensions = [e \in DOMAIN @ \cup exts |-> IF e \in exts THEN n ELSE @[e]],
               !.providers = [x \in DOMAIN @ \cup {n} |-> IF x = n THEN [id |-> reg.next + 1, src |-> s, exts |-> exts]
                                                          ELSE @[x]]]
  /\ UNCHANGED <<server, query>> /\ CodeFrame

\* LspProviderRegistration::close, of a registration whose id still holds the name.
CloseServer(n) ==
  /\ n \in DOMAIN reg.providers
  /\ reg' = [reg EXCEPT !.providers = Without(@, n),
               !.extensions = [e \in DOMAIN @ \ reg.providers[n].exts |-> @[e]]]
  /\ UNCHANGED <<server, query>> /\ CodeFrame

\* LspRuntime::dispose: closed first, then every provider in turn.
DisposeLsp ==
  /\ Servers # {} /\ ~reg.closed
  /\ reg' = [reg EXCEPT !.closed = TRUE, !.providers = <<>>, !.extensions = <<>>, !.bye = "next",
               !.todo = {reg.providers[n].src : n \in DOMAIN reg.providers}]
  /\ UNCHANGED <<server, query>> /\ CodeFrame
\* provider.dispose: the first caller takes the session, later ones return at once.
DisposeNext(s) ==
  /\ reg.bye = "next" /\ s \in reg.todo
  /\ IF server[s].closed THEN reg' = [reg EXCEPT !.todo = @ \ {s}] /\ UNCHANGED server
     ELSE /\ ServerIs(s, [server[s] EXCEPT !.closed = TRUE])
          /\ reg' = [reg EXCEPT !.bye = "lock", !.todo = @ \ {s}, !.now = s]
  /\ UNCHANGED query /\ CodeFrame
DisposeStops ==
  /\ reg.bye = "lock" /\ server[reg.now].lock = None
  /\ ServerIs(reg.now, [server[reg.now] EXCEPT !.session = FALSE, !.alive = FALSE])
  /\ reg' = [reg EXCEPT !.bye = "next"]
  /\ UNCHANGED query /\ CodeFrame
DisposedLsp ==
  /\ reg.bye = "next" /\ reg.todo = {}
  /\ reg' = [reg EXCEPT !.bye = "done"]
  /\ UNCHANGED <<server, query>> /\ CodeFrame

-----------------------------------------------------------------------------
(* A language server and the requests it is sent *)

\* The process: it answers what it read, notifies, or ends.
Server(s) ==
  /\ server[s].alive
  /\ \/ \E id \in server[s].inbox, is \in {"result", "error"} :
          ServerIs(s, [server[s] EXCEPT !.inbox = @ \ {id}, !.pipe = Append(@, [is |-> is, id |-> id])])
     \/ /\ server[s].notes < MaxNotes
        /\ ServerIs(s, [server[s] EXCEPT !.notes = @ + 1, !.pipe = Append(@, [is |-> "note", id |-> 0])])
     \/ ServerIs(s, [server[s] EXCEPT !.alive = FALSE])
  /\ UNCHANGED <<reg, query>> /\ CodeFrame

\* LspRuntime::request finds the provider of the extension; then StdioLspProvider::session waits for the session.
Ask(q, e) ==
  /\ query[q].at = "new"
  /\ IF query[q].cancelled \/ reg.closed \/ e \notin DOMAIN reg.extensions THEN EndQuery(q, "refused")
     ELSE \E s \in {reg.providers[reg.extensions[e]].src} :
       IF server[s].closed THEN EndQuery(q, "closed")
       ELSE QueryIs(q, [query[q] EXCEPT !.at = "lock", !.src = s])
  /\ UNCHANGED <<reg, server>> /\ CodeFrame

\* The session's lock: its holder sends one frame.  A frame that cannot be written ends the request, not the provider.
Send(q) ==
  /\ query[q].at = "lock" /\ server[query[q].src].lock = None
  /\ \E s \in {query[q].src} :
       IF server[s].closed \/ ~server[s].session THEN EndQuery(q, "closed") /\ UNCHANGED server
       ELSE IF ~server[s].alive
       THEN EndQuery(q, "failed") /\ ServerIs(s, [server[s] EXCEPT !.next = @ + 1])
       ELSE /\ ServerIs(s, [server[s] EXCEPT !.lock = q, !.next = @ + 1, !.inbox = @ \cup {server[s].next}])
            /\ QueryIs(q, [query[q] EXCEPT !.at = "await", !.id = server[s].next])
  /\ UNCHANGED reg /\ CodeFrame

\* The error of await_response: the session is unlocked, then the provider is disposed of.
Broken(q) == QueryIs(q, [query[q] EXCEPT !.at = "broken"])
Unlocked(s) == [server[s] EXCEPT !.lock = None]

\* read_response: notifications are skipped, an answer to another id is a protocol error.
Receive(q) ==
  /\ query[q].at = "await"
  /\ \E s \in {query[q].src} :
       IF server[s].pipe = <<>>
       THEN ~server[s].alive /\ Broken(q) /\ ServerIs(s, [Unlocked(s) EXCEPT !.blamed = TRUE])
       ELSE \E f \in {Head(server[s].pipe)} :
         IF f.is = "note" THEN ServerIs(s, [server[s] EXCEPT !.pipe = Tail(@)]) /\ UNCHANGED query
         ELSE /\ ServerIs(s, [Unlocked(s) EXCEPT !.pipe = Tail(@),
                                !.blamed = @ \/ (f.id = query[q].id /\ f.is = "error")])
              /\ IF f.id = query[q].id /\ f.is = "result"
                 THEN QueryIs(q, [query[q] EXCEPT !.at = "done", !.result = "ok", !.got = f.id])
                 ELSE Broken(q)
  /\ UNCHANGED reg /\ CodeFrame
\* The provider's own deadline.
Overdue(q) ==
  /\ query[q].at = "await"
  /\ Broken(q) /\ ServerIs(query[q].src, [Unlocked(query[q].src) EXCEPT !.blamed = TRUE])
  /\ UNCHANGED reg /\ CodeFrame

\* dispose, called by the request that failed.
BrokenCloses(q) ==
  /\ query[q].at = "broken"
  /\ \E s \in {query[q].src} :
       IF server[s].closed THEN EndQuery(q, "failed") /\ UNCHANGED server
       ELSE /\ ServerIs(s, [server[s] EXCEPT !.closed = TRUE, !.cause = TRUE])
            /\ QueryIs(q, [query[q] EXCEPT !.at = "closing"])
  /\ UNCHANGED reg /\ CodeFrame
BrokenStops(q) ==
  /\ query[q].at = "closing" /\ server[query[q].src].lock = None
  /\ EndQuery(q, "failed")
  /\ ServerIs(query[q].src, [server[query[q].src] EXCEPT !.session = FALSE, !.alive = FALSE])
  /\ UNCHANGED reg /\ CodeFrame

\* The registry's deadline or the caller's cancellation: the provider's future is dropped where it waits.
Abandon(q) ==
  /\ query[q].at \in {"lock", "await", "broken", "closing"}
  /\ EndQuery(q, "abandoned")
  /\ \E s \in {query[q].src} :
       ServerIs(s, [server[s] EXCEPT !.lock = IF @ = q THEN None ELSE @,
                      !.left = @ \/ query[q].at = "await", !.leaked = @ \/ query[q].at = "closing"])
  /\ UNCHANGED reg /\ CodeFrame
CancelQuery(q) ==
  /\ query[q].at = "new" /\ ~query[q].cancelled
  /\ QueryIs(q, [query[q] EXCEPT !.cancelled = TRUE])
  /\ UNCHANGED <<reg, server>> /\ CodeFrame

-----------------------------------------------------------------------------
\* A server is spawned and initialized before it is registered.
Init ==
  /\ code = [disposed |-> FALSE, live |-> {}, bye |-> FALSE]
  /\ run = [r \in Runs |-> NoRun]
  /\ reg = [closed |-> FALSE, providers |-> <<>>, extensions |-> <<>>, next |-> 0, bye |-> None, todo |-> {},
            now |-> None]
  /\ server = [s \in Servers |-> [closed |-> FALSE, session |-> TRUE, lock |-> None, alive |-> TRUE, next |-> 2,
                                  inbox |-> {}, pipe |-> <<>>, notes |-> 0, cause |-> FALSE, blamed |-> FALSE,
                                  left |-> FALSE, leaked |-> FALSE]]
  /\ query = [q \in Queries |-> NoQuery]

Next ==
  \/ \E r \in Runs :
       \/ Reserve(r) \/ Spawn(r) \/ Boot(r) \/ Worker(r) \/ ReadOut(r) \/ ReadErr(r) \/ Interrupt(r)
       \/ \E i \in DOMAIN run[r].calls : StartCall(r, i) \/ SettleCall(r, i)
       \/ Reply(r) \/ EndLoop(r) \/ Wind(r) \/ Drain(r) \/ Finish(r) \/ CancelRun(r)
  \/ DisposeCode \/ DisposedCode
  \/ \E n \in Names : CloseServer(n) \/ \E s \in Servers, exts \in Claims : RegisterServer(n, s, exts)
  \/ DisposeLsp \/ \E s \in Servers : DisposeNext(s) \/ Server(s)
  \/ DisposeStops \/ DisposedLsp
  \/ \E q \in Queries :
       \/ \E e \in UNION Claims : Ask(q, e)
       \/ Send(q) \/ Receive(q) \/ Overdue(q) \/ BrokenCloses(q) \/ BrokenStops(q) \/ Abandon(q) \/ CancelQuery(q)

Spec == Init /\ [][Next]_vars

-----------------------------------------------------------------------------
(* The dispatches a run reports: every call that started has one completion, after its start, and a   *)
(* call that never started has neither.                                                               *)
Positions(events, i, kinds) == {k \in DOMAIN events : events[k].call = i /\ events[k].is \in kinds}
DispatchesPaired ==
  \A r \in Runs : run[r].at = "done" =>
    \A i \in DOMAIN run[r].calls :
      LET starts == Positions(run[r].events, i, {"start"})
          ends == Positions(run[r].events, i, {"completed", "signalled"})
      IN Cardinality(starts) <= 1 /\ Cardinality(ends) = Cardinality(starts) /\ \A a \in starts, b \in ends : a < b

(* A run's logs and its value or its message together never exceed the output limit (the message of   *)
(* the limit itself is not counted), and a run with a result has no worker and is not live.            *)
OutputBounded ==
  \A r \in Runs :
    /\ run[r].bytes <= MaxOutput
    /\ run[r].at = "done" /\ run[r].result \notin {"output-limit", "disposed"} => run[r].bytes + run[r].value <= MaxOutput

(* dispose of the code runtime waits for every run: when it has returned no worker lives, no dispatched *)
(* call is running and no run will start one.                                                          *)
CodeIsReaped ==
  code.bye => \A r \in Runs : ~run[r].alive /\ run[r].at \in {"new", "done"} /\
                                \A i \in DOMAIN run[r].calls : run[r].calls[i] # "running"

(* Extensions are owned by exactly one registered provider, which claimed them. *)
ExtensionsOwned ==
  /\ \A e \in DOMAIN reg.extensions : Owner(e) = {reg.extensions[e]}
  /\ \A n \in DOMAIN reg.providers : reg.providers[n].exts \subseteq DOMAIN reg.extensions

(* An answer that is returned is the answer to the request's own id, whatever earlier requests left    *)
(* unread in the stream; and a server is given up only for a fault of its own, unless the registry      *)
(* dropped a request that was waiting: the answer that comes later is then taken for the next one's.    *)
AnswersMatch ==
  /\ \A q \in Queries : query[q].result = "ok" => query[q].got = query[q].id
  /\ \A s \in Servers : server[s].cause => server[s].blamed \/ server[s].left

(* When the registry's dispose has returned, every server that was registered then is gone, unless a    *)
(* request is disposing of it still, or was dropped while it waited to (dispose then returns at once).  *)
ServersReaped ==
  reg.bye = "done" => \A s \in Servers : server[s].closed /\ server[s].session =>
    server[s].leaked \/ \E q \in Queries : query[q].at = "closing" /\ query[q].src = s
=============================================================================
