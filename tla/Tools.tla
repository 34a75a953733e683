------------------------------- MODULE Tools -------------------------------
(***************************************************************************)
(* The tool registry with its scopes, schemas and calls                    *)
(* (src/src/tools.rs), and the supervised MCP connection that owns the     *)
(* tools of one remote server in it (src/src/mcp.rs).                      *)
(*                                                                         *)
(* The connection's lifecycle lock admits one of connect, sync and close   *)
(* at a time (`op').  dispose takes no lifecycle lock, only the            *)
(* registration gate, and runs beside whatever the lock's holder is doing. *)
(* Observers of calls and of changes are external: none is in src.         *)
(***************************************************************************)
EXTENDS Integers, Sequences, FiniteSets, SequencesExt

CONSTANTS
  Locals,        \* names the host itself registers
  Schemas,       \* the parameters a local definition may declare
  Values,        \* the arguments a call may carry
  Restrictions,  \* what a scope may be narrowed by: [only, allow, deny, ask]
  Callers,       \* calls
  Remote,        \* whether the connection exists
  Pages,         \* what tools/list may answer: [tools, next, fits]
  Supervised,    \* reconnect.enabled
  MaxAttempts,   \* reconnect.max_attempts
  MaxPages, PerPage, TotalTools, \* the configured limits of a listing
  MaxTransports, \* bound: transports ever connected
  MaxOps         \* bound: registrations, closings, narrowings, explicit syncs and reconnects

VARIABLES
  tools,  \* name -> [id, by, gen, raw, schema]: the registry
  nextId,
  scopes, \* the scope of a view, of the view derived from it, ...
  call,   \* caller -> a call of ToolRuntime::execute
  m,      \* McpState and the disposed flag
  op,     \* the holder of the lifecycle lock
  gate,   \* the registration gate
  bye,    \* how far dispose is
  wire,   \* transport -> "open", "lost" by the peer, "shut" by us
  monitors, \* the generations whose end is awaited
  ghost   \* [ops, left]: operations so far, transports a failed reconnect left open

vars == <<tools, nextId, scopes, call, m, op, gate, bye, wire, monitors, ghost>>

None == "none"
Without(f, S) == [x \in DOMAIN f \ S |-> f[x]]
NoRaw == [name |-> "", task |-> FALSE]
NoSchema == [type |-> "", keys |-> {}, props |-> <<>>, required |-> <<>>, closed |-> FALSE, items |-> <<>>,
             enum |-> <<>>, oneOf |-> <<>>]
NoValue == [type |-> "null", members |-> <<>>]
Spend == ghost.ops < MaxOps /\ ghost' = [ghost EXCEPT !.ops = @ + 1]

-----------------------------------------------------------------------------
(* Schemas: [type, keys, props, required, closed, items, enum, oneOf], keys the keywords present *)

Types == {"object", "array", "string", "number", "integer", "boolean", "null"}
Keywords == {"type", "properties", "required", "additionalProperties", "items", "enum", "oneOf", "description"}

\* A JSON number without a fraction has the type integer and the type number.
HasType(value, type) == value.type = type \/ (value.type = "integer" /\ type = "number")

RECURSIVE ValidSchema(_)
ValidSchema(s) ==
  /\ s.keys \subseteq Keywords
  /\ "type" \in s.keys => s.type \in Types
  /\ {"type", "oneOf"} \cap s.keys # {}
  /\ "oneOf" \in s.keys => s.oneOf # <<>> /\ \A i \in DOMAIN s.oneOf : ValidSchema(s.oneOf[i])
  /\ "enum" \in s.keys =>
       /\ s.enum # <<>>
       /\ "type" \in s.keys => \A i \in DOMAIN s.enum : HasType(s.enum[i], s.type)
  /\ \/ /\ "type" \in s.keys /\ s.type = "object"
        /\ "properties" \in s.keys
        /\ \A p \in DOMAIN s.props : ValidSchema(s.props[p])
        /\ "required" \in s.keys => IsInjective(s.required) /\ ToSet(s.required) \subseteq DOMAIN s.props
     \/ /\ "type" \in s.keys /\ s.type = "array"
        /\ "items" \in s.keys /\ ValidSchema(s.items[1])
     \/ /\ "type" \in s.keys => s.type \notin {"object", "array"}
        /\ s.keys \cap {"properties", "required", "additionalProperties", "items"} = {}

\* validate_instance: it fits, it does not, or an `expect' of it fails.
Worst(results) == IF "panic" \in results THEN "panic" ELSE IF "unfit" \in results THEN "unfit" ELSE "fit"

RECURSIVE Fits(_, _)
Fits(s, v) ==
  LET options == IF "oneOf" \in s.keys THEN [i \in DOMAIN s.oneOf |-> Fits(s.oneOf[i], v)] ELSE <<"fit">>
      typed == "type" \in s.keys
  IN CASE \E i \in DOMAIN options : options[i] = "panic" -> "panic"
       [] Cardinality({i \in DOMAIN options : options[i] = "fit"}) # 1 -> "unfit"
       [] typed /\ ~HasType(v, s.type) -> "unfit"
       [] "enum" \in s.keys /\ v \notin ToSet(s.enum) -> "unfit"
       [] typed /\ s.type = "object" ->
            IF "properties" \notin s.keys THEN "panic"
            ELSE IF "required" \in s.keys /\ ~(ToSet(s.required) \subseteq DOMAIN v.members) THEN "unfit"
            ELSE Worst({IF p \in DOMAIN s.props THEN Fits(s.props[p], v.members[p])
                        ELSE IF "additionalProperties" \in s.keys /\ s.closed THEN "unfit" ELSE "fit" :
                        p \in DOMAIN v.members})
       [] typed /\ s.type = "array" ->
            IF "items" \notin s.keys THEN "panic"
            ELSE Worst({Fits(s.items[1], v.members[i]) : i \in DOMAIN v.members})
       [] OTHER -> "fit"

-----------------------------------------------------------------------------
(* Scopes *)

Rank(access) == CASE access = "deny" -> 0 [] access = "ask" -> 1 [] access = "allow" -> 2
Access(scope, n) == IF n \in DOMAIN scope.named THEN scope.named[n] ELSE scope.default
RootScope == [default |-> "allow", named |-> <<>>]
Scope == Last(scopes)

Requested(scope, r, n) ==
  CASE n \in r.deny -> "deny"
    [] n \in r.ask -> "ask"
    [] r.only -> IF n \in r.allow THEN "allow" ELSE "deny"
    [] OTHER -> Access(scope, n)

\* narrowed: the names a restriction or the parent mentions, unless one would be broader.
Narrowed(scope, r) ==
  LET default == IF r.only THEN "deny" ELSE scope.default
      names == DOMAIN scope.named \cup (IF r.only THEN r.allow ELSE {}) \cup r.deny \cup r.ask
  IN [default |-> default,
      named |-> [n \in {x \in names : Requested(scope, r, x) # default} |-> Requested(scope, r, n)],
      refused |-> r.deny \cap r.ask # {} \/ \E n \in names : Rank(Requested(scope, r, n)) > Rank(Access(scope, n))]

Derive(r) ==
  /\ Spend
  /\ \E s \in {Narrowed(Scope, r)} :
       /\ ~s.refused
       /\ scopes' = Append(scopes, [default |-> s.default, named |-> s.named])
  /\ UNCHANGED <<tools, nextId, call, m, op, gate, bye, wire, monitors>>

-----------------------------------------------------------------------------
(* The registry *)

Entry(n, by, raw, schema) == [name |-> n, by |-> by, raw |-> raw, schema |-> schema]
Stored(e, id, gen) == [id |-> id, by |-> e.by, gen |-> gen, raw |-> e.raw, schema |-> e.schema]

Register(n, schema) ==
  /\ Spend
  /\ ValidSchema(schema) /\ n \notin DOMAIN tools
  /\ tools' = [x \in DOMAIN tools \cup {n} |->
                IF x = n THEN Stored(Entry(n, "host", NoRaw, schema), nextId, 0) ELSE tools[x]]
  /\ nextId' = nextId + 1
  /\ UNCHANGED <<scopes, call, m, op, gate, bye, wire, monitors>>

\* ToolRegistration::close, of a registration whose id still holds the name.
Unregister(n) ==
  /\ Spend
  /\ n \in DOMAIN tools /\ tools[n].by = "host"
  /\ tools' = Without(tools, {n})
  /\ UNCHANGED <<nextId, scopes, call, m, op, gate, bye, wire, monitors>>

\* replace: prior registrations that still hold their names go, the whole new set comes, or nothing changes.
Held(prior) == {r.name : r \in {x \in prior : x.name \in DOMAIN tools /\ tools[x.name].id = x.id}}
Replaceable(prior, defs) ==
  /\ \A i \in DOMAIN defs : ValidSchema(defs[i].schema)
  /\ \A i, j \in DOMAIN defs : i # j => defs[i].name # defs[j].name
  /\ \A i \in DOMAIN defs : defs[i].name \in DOMAIN tools => defs[i].name \in Held(prior)
Position(defs, n) == CHOOSE i \in DOMAIN defs : defs[i].name = n
Replaced(prior, defs, gen) ==
  [n \in (DOMAIN tools \ Held(prior)) \cup {defs[i].name : i \in DOMAIN defs} |->
     IF \E i \in DOMAIN defs : defs[i].name = n
     THEN Stored(defs[Position(defs, n)], nextId + Position(defs, n) - 1, gen) ELSE tools[n]]
Registrations(defs) == {[name |-> defs[i].name, id |-> nextId + i - 1] : i \in DOMAIN defs}

-----------------------------------------------------------------------------
(* ToolRuntime::execute *)

NoTool == [id |-> 0, by |-> None, gen |-> 0, raw |-> NoRaw, schema |-> NoSchema]
NoCall == [at |-> "new", cancelled |-> FALSE, value |-> NoValue, tool |-> NoTool, sent |-> 0, result |-> None]
CallIs(c, rec) == call' = [call EXCEPT ![c] = rec]
Settle(c, code) == CallIs(c, [call[c] EXCEPT !.at = "settled", !.result = code])
CallFrame == UNCHANGED <<tools, nextId, scopes, m, op, gate, bye, wire, monitors, ghost>>

Cancel(c) ==
  /\ call[c].at # "settled" /\ ~call[c].cancelled
  /\ CallIs(c, [call[c] EXCEPT !.cancelled = TRUE])
  /\ CallFrame

\* Up to the approval or the handler, execute does not wait.
Execute(c, n, v) ==
  /\ call[c].at = "new"
  /\ IF call[c].cancelled THEN Settle(c, "CANCELLED")
     ELSE IF n \notin DOMAIN tools THEN Settle(c, "TOOL_NOT_FOUND")
     ELSE IF Access(Scope, n) = "deny" THEN Settle(c, "TOOL_DENIED")
     ELSE \E fits \in {Fits(tools[n].schema, v)} :
       IF fits # "fit" THEN Settle(c, fits)
       ELSE CallIs(c, [call[c] EXCEPT !.value = v, !.tool = tools[n],
                                      !.at = IF Access(Scope, n) = "ask" THEN "asking" ELSE "running"])
  /\ CallFrame

\* The approver's answer; no approver, an error and no decision are refusals.
Approve(c, yes) ==
  /\ call[c].at = "asking"
  /\ IF call[c].cancelled THEN Settle(c, "CANCELLED")
     ELSE IF yes THEN CallIs(c, [call[c] EXCEPT !.at = "running"])
     ELSE Settle(c, "TOOL_APPROVAL_DENIED")
  /\ CallFrame

Outcome(c, code) == Settle(c, IF call[c].cancelled THEN "CANCELLED" ELSE code)

\* The handler of a host tool.
RunLocal(c, code) ==
  /\ call[c].at = "running" /\ call[c].tool.by = "host"
  /\ Outcome(c, code) /\ CallFrame

\* call_raw: the generation and the transport of the tool are still the connection's.
Current(gen) == m.generation = gen /\ m.transport # 0
CallRaw(c) ==
  /\ call[c].at = "running" /\ call[c].tool.by = "mcp"
  /\ IF call[c].tool.raw.task THEN Outcome(c, "MCP_TASK_REQUIRED")
     ELSE IF call[c].cancelled THEN Outcome(c, "CANCELLED")
     ELSE IF m.disposed THEN Outcome(c, "MCP_DISPOSED")
     ELSE IF ~Current(call[c].tool.gen) THEN Outcome(c, "MCP_GENERATION_REPLACED")
     ELSE CallIs(c, [call[c] EXCEPT !.at = "waiting", !.sent = m.transport])
  /\ CallFrame

\* The answer, an error, the deadline, the call's cancellation or the connection's.
CallEnds(c) ==
  /\ call[c].at = "waiting"
  /\ \/ wire[call[c].sent] = "open" /\ Outcome(c, "ok")
     \/ wire[call[c].sent] # "open" /\ Outcome(c, "failed")
     \/ Outcome(c, "MCP_TOOL_TIMEOUT")
     \/ m.disposed /\ Outcome(c, "MCP_DISPOSED")
  /\ CallFrame

-----------------------------------------------------------------------------
(* The MCP connection *)

NoOp == [at |-> None, after |-> FALSE, attempt |-> 0, gen |-> 0, tr |-> 0, prev |-> 0, list |-> <<>>,
         cursors |-> {}, pages |-> 0, cursor |-> None, prior |-> {}, got |-> {}, alone |-> FALSE]
Rest == UNCHANGED <<scopes, call>>
OpIs(rec) == op' = rec
Free == OpIs(NoOp)
Shut(t) == wire' = [wire EXCEPT ![t] = IF t = 0 THEN @ ELSE "shut"]
Same(gen, tr) == ~m.disposed /\ m.generation = gen /\ m.transport = tr

\* remove_current_tools, the registration gate held: the new set is empty, so replace cannot fail.
RemoveTools ==
  /\ gate = None
  /\ tools' = Without(tools, Held(m.registrations))

\* connect and reconnect
Reconnect ==
  /\ Remote /\ op.at = None /\ ~m.disposed /\ Len(wire) < MaxTransports
  /\ IF wire = <<>> THEN UNCHANGED ghost ELSE Spend
  /\ OpIs([NoOp EXCEPT !.at = "connect"])
  /\ Rest /\ UNCHANGED <<tools, nextId, m, gate, bye, wire, monitors>>

\* sync_tools
SyncTools ==
  /\ Remote /\ op.at = None /\ ~m.disposed /\ m.transport # 0 /\ Spend
  /\ OpIs([NoOp EXCEPT !.at = "list", !.alone = TRUE, !.gen = m.generation, !.tr = m.transport])
  /\ Rest /\ UNCHANGED <<tools, nextId, m, gate, bye, wire, monitors>>

\* The peer ends a transport.
Lose(t) ==
  /\ wire[t] = "open"
  /\ wire' = [wire EXCEPT ![t] = "lost"]
  /\ Rest /\ UNCHANGED <<tools, nextId, m, op, gate, bye, monitors, ghost>>

\* monitor_close: a generation's transport has ended; closed forgets it unless it was replaced.
\* stable: it had lived for the stability window.
Closed(mon, stable) ==
  /\ op.at = None /\ mon \in monitors /\ wire[mon.tr] # "open"
  /\ monitors' = monitors \ {mon}
  /\ IF m.disposed \/ m.generation # mon.gen \/ m.transport = 0
     THEN UNCHANGED <<m, op>>
     ELSE /\ m' = [m EXCEPT !.transport = 0, !.attempts = IF stable THEN 0 ELSE @]
          /\ OpIs([NoOp EXCEPT !.at = "forget", !.after = TRUE, !.attempt = m'.attempts])
  /\ Rest /\ UNCHANGED <<tools, nextId, gate, bye, wire, ghost>>

Forget ==
  /\ op.at = "forget" /\ RemoveTools
  /\ m' = [m EXCEPT !.registrations = {}]
  /\ OpIs(IF Supervised THEN [op EXCEPT !.at = "connect"] ELSE NoOp)
  /\ Rest /\ UNCHANGED <<nextId, gate, bye, wire, monitors, ghost>>

\* connect_current's loop gives up: disposed, or no attempt is left.
Attempts == IF op.after THEN MaxAttempts ELSE 1
GiveUp ==
  /\ op.at = "connect"
  /\ \/ m.disposed /\ UNCHANGED <<m, ghost>>
     \/ /\ ~m.disposed /\ op.attempt >= Attempts
        /\ m' = [m EXCEPT !.transport = 0, !.failed = TRUE]
        /\ ghost' = [ghost EXCEPT !.left = IF m.transport = 0 THEN @ ELSE @ \cup {m.transport}]
  /\ Free
  /\ Rest /\ UNCHANGED <<tools, nextId, gate, bye, wire, monitors>>

\* One attempt: the connector fails, or makes a transport.
Connect ==
  /\ op.at = "connect" /\ ~m.disposed /\ op.attempt < Attempts
  /\ \/ OpIs([op EXCEPT !.attempt = @ + 1]) /\ UNCHANGED wire
     \/ /\ Len(wire) < MaxTransports
        /\ wire' = Append(wire, "open")
        /\ OpIs([op EXCEPT !.at = "install", !.tr = Len(wire) + 1])
  /\ Rest /\ UNCHANGED <<tools, nextId, m, gate, bye, monitors, ghost>>

\* The new transport replaces the previous one, which is closed.
Install ==
  /\ op.at = "install"
  /\ IF m.disposed
     THEN Shut(op.tr) /\ Free /\ UNCHANGED m
     ELSE /\ m' = [m EXCEPT !.generation = @ + 1, !.transport = op.tr, !.failed = FALSE,
                            !.attempts = IF op.after THEN op.attempt + 1 ELSE 0]
          /\ IF m.transport = 0 THEN UNCHANGED wire ELSE Shut(m.transport)
          /\ OpIs([op EXCEPT !.at = "list", !.gen = m'.generation])
  /\ Rest /\ UNCHANGED <<tools, nextId, gate, bye, monitors, ghost>>

\* sync_current failed: an explicit sync returns, connect_current removes the tools and the transport.
Failed == IF op.alone THEN NoOp ELSE [op EXCEPT !.at = "undo", !.list = <<>>, !.cursors = {}, !.pages = 0,
                                                !.cursor = None, !.prior = {}, !.got = {}]

\* One page of list_all_tools: an error, the deadline or the disposal, or a page that validate_page accepts.
Admitted(page) == page.fits /\ Len(page.tools) <= PerPage /\ Len(page.tools) <= TotalTools - Len(op.list)
ListPage ==
  /\ op.at = "list"
  /\ \/ OpIs(Failed)
     \/ /\ wire[op.tr] = "open"
        /\ \E page \in Pages :
             IF ~Admitted(page) \/ (page.next # None /\ (page.next = "" \/ page.next \in op.cursors))
             THEN OpIs(Failed)
             ELSE IF page.next = None
             THEN OpIs([op EXCEPT !.at = "define", !.list = @ \o page.tools, !.cursors = {}, !.cursor = None])
             ELSE IF op.pages + 1 = MaxPages THEN OpIs(Failed)
             ELSE OpIs([op EXCEPT !.list = @ \o page.tools, !.cursors = @ \cup {page.next}, !.pages = @ + 1,
                                  !.cursor = page.next])
  /\ Rest /\ UNCHANGED <<tools, nextId, m, gate, bye, wire, monitors, ghost>>

\* public_tool_name: a name the model's grammar refuses is rewritten and told apart by a hash of it.
PublicName(raw) == IF raw.odd THEN <<raw.name, "#", raw.name>> ELSE <<raw.name>>
\* normalize_input_schema
Normalized(s) ==
  IF s.keys = {} THEN [s EXCEPT !.keys = {"type", "properties", "additionalProperties"}, !.type = "object"]
  ELSE IF "type" \in s.keys /\ s.type = "object" THEN [s EXCEPT !.keys = @ \cup {"properties"}]
  ELSE s
Definitions(list) ==
  [i \in DOMAIN list |-> Entry(PublicName(list[i]), "mcp", [name |-> list[i].name, task |-> list[i].task],
                               Normalized(list[i].schema))]
Definable(list) ==
  /\ \A i \in DOMAIN list : list[i].name # ""
  /\ \A i, j \in DOMAIN list :
       i # j => list[i].name # list[j].name /\ PublicName(list[i]) # PublicName(list[j])

\* definitions_for, then, the gate taken, the prior registrations unless the generation was replaced.
TakePrior ==
  /\ op.at = "define"
  /\ IF ~Same(op.gen, op.tr) \/ ~Definable(op.list) THEN OpIs(Failed) /\ UNCHANGED <<m, gate>>
     ELSE /\ gate = None /\ gate' = "op"
          /\ m' = [m EXCEPT !.registrations = {}]
          /\ OpIs([op EXCEPT !.at = "replace", !.prior = m.registrations])
  /\ Rest /\ UNCHANGED <<tools, nextId, bye, wire, monitors, ghost>>

\* ToolRuntime::replace: refused, the prior registrations are the connection's again, or are dropped.
Replace ==
  /\ op.at = "replace"
  /\ \E defs \in {Definitions(op.list)} :
       IF Replaceable(op.prior, defs)
       THEN /\ tools' = Replaced(op.prior, defs, op.gen)
            /\ nextId' = nextId + Len(defs)
            /\ OpIs([op EXCEPT !.at = "store", !.got = Registrations(defs)])
            /\ UNCHANGED <<m, gate>>
       ELSE /\ IF Same(op.gen, op.tr) THEN m' = [m EXCEPT !.registrations = op.prior] /\ UNCHANGED tools
               ELSE tools' = Without(tools, Held(op.prior)) /\ UNCHANGED m
            /\ gate' = None /\ OpIs(Failed) /\ UNCHANGED nextId
  /\ Rest /\ UNCHANGED <<bye, wire, monitors, ghost>>

\* The new registrations are the connection's unless it was disposed meanwhile; then they are removed.
Store ==
  /\ op.at = "store"
  /\ gate' = None
  /\ IF Same(op.gen, op.tr)
     THEN /\ m' = [m EXCEPT !.registrations = op.got]
          /\ monitors' = IF op.alone THEN monitors ELSE monitors \cup {[gen |-> op.gen, tr |-> op.tr]}
          /\ Free /\ UNCHANGED tools
     ELSE /\ tools' = Without(tools, Held(op.got))
          /\ OpIs(Failed) /\ UNCHANGED <<m, monitors>>
  /\ Rest /\ UNCHANGED <<nextId, bye, wire, ghost>>

\* A connection whose listing failed: the next attempt.
Undo ==
  /\ op.at = "undo" /\ RemoveTools
  /\ m' = [m EXCEPT !.registrations = {}, !.transport = IF m.generation = op.gen /\ @ = op.tr THEN 0 ELSE @]
  /\ Shut(op.tr)
  /\ OpIs([op EXCEPT !.at = "connect", !.attempt = @ + 1, !.gen = 0, !.tr = 0])
  /\ Rest /\ UNCHANGED <<nextId, gate, bye, monitors, ghost>>

\* dispose
Dispose ==
  /\ Remote /\ ~m.disposed
  /\ m' = [m EXCEPT !.disposed = TRUE] /\ bye' = "remove"
  /\ Rest /\ UNCHANGED <<tools, nextId, op, gate, wire, monitors, ghost>>
DisposeTools ==
  /\ bye = "remove" /\ RemoveTools
  /\ m' = [m EXCEPT !.registrations = {}] /\ bye' = "close"
  /\ Rest /\ UNCHANGED <<nextId, op, gate, wire, monitors, ghost>>
DisposeTransport ==
  /\ bye = "close"
  /\ m' = [m EXCEPT !.generation = @ + 1, !.transport = 0] /\ bye' = "done"
  /\ IF m.transport = 0 THEN UNCHANGED wire ELSE Shut(m.transport)
  /\ Rest /\ UNCHANGED <<tools, nextId, op, gate, monitors, ghost>>

-----------------------------------------------------------------------------
Init ==
  /\ tools = <<>> /\ nextId = 1 /\ scopes = <<RootScope>>
  /\ call = [c \in Callers |-> NoCall]
  /\ m = [generation |-> 0, transport |-> 0, registrations |-> {}, attempts |-> 0, failed |-> FALSE,
          disposed |-> FALSE]
  /\ op = NoOp /\ gate = None /\ bye = None /\ wire = <<>> /\ monitors = {}
  /\ ghost = [ops |-> 0, left |-> {}]

Next ==
  \/ \E r \in Restrictions : Derive(r)
  \/ \E n \in Locals : Unregister(n) \/ \E s \in Schemas : Register(n, s)
  \/ \E c \in Callers :
       \/ Cancel(c)
       \/ \E n \in Locals \cup DOMAIN tools, v \in Values : Execute(c, n, v)
       \/ \E yes \in BOOLEAN : Approve(c, yes)
       \/ \E code \in {"ok", "failed"} : RunLocal(c, code)
       \/ CallRaw(c) \/ CallEnds(c)
  \/ Reconnect \/ SyncTools
  \/ \E t \in DOMAIN wire : Lose(t)
  \/ \E mon \in monitors, stable \in BOOLEAN : Closed(mon, stable)
  \/ Forget \/ GiveUp \/ Connect \/ Install \/ ListPage \/ TakePrior \/ Replace \/ Store \/ Undo
  \/ Dispose \/ DisposeTools \/ DisposeTransport

Spec == Init /\ [][Next]_vars

-----------------------------------------------------------------------------
(* What a handler may run for: a tool whose schema was admitted never fails an assertion of the     *)
(* argument check, and the handler that runs is given arguments that fit the schema it was          *)
(* registered with, whatever was registered under the name meanwhile.                               *)
CallsAreChecked ==
  \A c \in Callers :
    /\ call[c].result # "panic"
    /\ call[c].tool # NoTool => Fits(call[c].tool.schema, call[c].value) = "fit"

(* A derived view is never broader than the view it was derived from, for any name, mentioned or not. *)
ScopesNarrow ==
  \A i \in 1..(Len(scopes) - 1) : \A n \in Locals \cup {<<"elsewhere">>} :
    Rank(Access(scopes[i + 1], n)) <= Rank(Access(scopes[i], n))

(* "A supervised MCP connection which owns exactly the tools installed for its server": between its   *)
(* operations the registry holds of it exactly the registrations it knows, all of the generation its   *)
(* transport has, and none when there is no transport (except after an explicit reconnect failed:      *)
(* connect_current forgets the old transport, neither closing it nor removing its tools).              *)
Owned == {n \in DOMAIN tools : tools[n].by = "mcp"}
OwnsExactly ==
  op.at = None /\ bye \in {None, "done"} =>
    /\ Owned = {r.name : r \in m.registrations}
    /\ ghost.left = {} \/ m.transport # 0 =>
         \A n \in Owned : m.transport # 0 /\ tools[n].gen = m.generation

(* When dispose has returned and the lifecycle lock is free, none of the server's tools is registered  *)
(* and every transport that was ever connected is closed (or was left by a failed reconnect).          *)
DisposedIsGone ==
  bye = "done" /\ op.at = None =>
    /\ Owned = {}
    /\ \A t \in DOMAIN wire : wire[t] = "open" => t \in ghost.left

(* Automatic reconnects stop: attempts since the connection was last stable never exceed the limit.    *)
ReconnectsBounded == m.attempts <= MaxAttempts
=============================================================================
