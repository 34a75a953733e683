-------------------------------- MODULE Watch -------------------------------
(***************************************************************************)
(* How clients follow a session: the relay that copies committed events    *)
(* to the host's notices (ensure_relay of src/src/host.rs), the relays of  *)
(* pending approvals and questions, and the streams that read history or   *)
(* a snapshot and then the notices: server-sent events with Last-Event-ID, *)
(* the compatibility and the plain WebSocket (src/src/api.rs) and the      *)
(* subscriptions of the Node bridge (src/src/bridge.rs).                   *)
(***************************************************************************)
EXTENDS Integers, Sequences, FiniteSets, SequencesExt

CONSTANTS
  Sse, Mux, Sockets, \* clients of each kind of stream
  Approvals, Questions,
  MaxEvents,  \* bound: events of the session
  SessionCap, \* capacity of Session.updates
  NoticeCap,  \* config.notification_capacity, MAX_SOCKET_QUEUE
  AskCap,     \* capacity of the registries' notices
  MaxConnects, \* bound: connections of a client
  AppendFaults \* an append of a question event may fail

VARIABLES
  log,       \* events committed, durable and resident; the next has number log
  sent,      \* events Session.updates has broadcast
  resident,  \* the session is in SessionStore
  relay,     \* the session's relay task
  ask,       \* one approval or question of the registries
  askQueue,  \* notices of the registries the ask relay has not read
  askRelay,  \* "run", "ended"
  client,    \* one stream and what its client has seen
  closing    \* relays_closed

vars == <<log, sent, resident, relay, ask, askQueue, askRelay, client, closing>>

Clients == Sse \cup Mux \cup Sockets
Asks == Approvals \cup Questions
NoClient == [at |-> "away", inbox |-> <<>>, lagged |-> FALSE, next |-> 0, upto |-> 0, last |-> -1,
             seen |-> {}, shown |-> {}, replayed |-> {}, twice |-> FALSE, connects |-> 0]

Init ==
  /\ log = 0 /\ sent = 0 /\ resident = FALSE /\ closing = FALSE
  /\ relay = [at |-> "none", start |-> 0, next |-> 0, pos |-> 0, upto |-> 0]
  /\ ask = [a \in Asks |-> [entry |-> "none", announced |-> FALSE, resolved |-> FALSE]]
  /\ askQueue = <<>> /\ askRelay = "run" /\ client = [c \in Clients |-> NoClient]

\* Mutant: the stream subscribes when its history has been sent.
SubscribedLate(c) == client[c].at = "live"

\* host.subscribe() before the history or snapshot is read.
Subscribed(c) == client[c].at \in {"subscribed", "cold", "history", "live"}

\* The notices channel: a receiver that is full loses its oldest notice and is told.
Receive(cl, notices) ==
  LET q == cl.inbox \o notices
      over == Len(q) > NoticeCap
  IN [cl EXCEPT !.inbox = IF over THEN SubSeq(q, Len(q) - NoticeCap + 1, Len(q)) ELSE q,
                !.lagged = @ \/ over]

Publish(notices) ==
  client' = [c \in Clients |-> IF Subscribed(c) THEN Receive(client[c], notices) ELSE client[c]]

-----------------------------------------------------------------------------
(* The session and its relay *)

\* SessionStore::restore for any handler that finds the session cold.
Restore == ~resident /\ resident' = TRUE
  /\ UNCHANGED <<log, sent, relay, ask, askQueue, askRelay, client, closing>>

\* append_under_gate: the event is durable and resident, and then broadcast.
Commit ==
  /\ resident /\ sent = log /\ log < MaxEvents /\ ~closing
  /\ log' = log + 1
  /\ UNCHANGED <<sent, resident, relay, ask, askQueue, askRelay, client, closing>>

Broadcast ==
  /\ sent < log /\ sent' = sent + 1
  /\ UNCHANGED <<log, resident, relay, ask, askQueue, askRelay, client, closing>>

\* ensure_relay: inserts into relayed and reads next_seq ...
EnsureRelay ==
  /\ resident /\ relay.at = "none"
  /\ relay' = [relay EXCEPT !.at = "named", !.start = log, !.next = log]
  /\ UNCHANGED <<log, sent, resident, ask, askQueue, askRelay, client, closing>>

\* ... then subscribes and spawns the task, which relays what it has missed.
RelaySubscribe ==
  /\ relay.at = "named"
  /\ relay' = [relay EXCEPT !.at = "missing", !.pos = sent, !.upto = log]
  /\ UNCHANGED <<log, sent, resident, ask, askQueue, askRelay, client, closing>>

\* relay_event: the event, and a projection that it changed, if any.
RelayEvent(e) ==
  \E projection \in {<<>>, <<[kind |-> "projection", of |-> e]>>} :
    Publish(<<[kind |-> "event", of |-> e]>> \o projection)

\* relay_missing_events, one event of session.events() after the other.
RelayMissing ==
  /\ relay.at \in {"missing", "closing"} /\ relay.next < relay.upto
  /\ RelayEvent(relay.next)
  /\ relay' = [relay EXCEPT !.next = @ + 1]
  /\ UNCHANGED <<log, sent, resident, ask, askQueue, askRelay, closing>>

RelayCaughtUp ==
  /\ relay.at \in {"missing", "closing"} /\ relay.next >= relay.upto
  /\ relay' = [relay EXCEPT !.at = IF @ = "missing" THEN "loop" ELSE "ended"]
  /\ UNCHANGED <<log, sent, resident, ask, askQueue, askRelay, client, closing>>

\* receiver.recv: a gap or Lagged reads the log, the next event is relayed.
RelayRecv ==
  /\ relay.at = "loop" /\ relay.pos < sent
  /\ IF sent - relay.pos > SessionCap
     THEN /\ relay' = [relay EXCEPT !.at = "missing", !.pos = sent - SessionCap, !.upto = log]
          /\ UNCHANGED client
     ELSE IF relay.pos > relay.next
     THEN /\ relay' = [relay EXCEPT !.at = "missing", !.pos = @ + 1, !.upto = log]
          /\ UNCHANGED client
     ELSE IF relay.pos = relay.next
     THEN /\ RelayEvent(relay.pos)
          /\ relay' = [relay EXCEPT !.pos = @ + 1, !.next = relay.pos + 1]
     ELSE relay' = [relay EXCEPT !.pos = @ + 1] /\ UNCHANGED client
  /\ UNCHANGED <<log, sent, resident, ask, askQueue, askRelay, closing>>

\* stop_relays: the session's relay drains, the ask relay stops where it is.
StopRelays ==
  /\ ~closing /\ closing' = TRUE
  /\ askRelay' = "ended"
  /\ UNCHANGED <<log, sent, resident, relay, ask, askQueue, client>>

RelayStops ==
  /\ closing /\ relay.at = "loop"
  /\ relay' = [relay EXCEPT !.at = "closing", !.upto = log]
  /\ UNCHANGED <<log, sent, resident, ask, askQueue, askRelay, client, closing>>

-----------------------------------------------------------------------------
(* Pending approvals and questions *)

\* The registry's broadcast; a relay that lags stops for good.
Notify(kind, a) ==
  /\ askQueue' = IF askRelay = "ended" THEN askQueue ELSE Append(askQueue, [kind |-> kind, of |-> a])
  /\ askRelay' = IF askRelay = "run" /\ Len(askQueue) = AskCap THEN "ended" ELSE askRelay

\* register_pending, and the insert of ask_user_question.
Register(a) ==
  /\ ask[a].entry = "none" /\ ~ask[a].announced /\ ~ask[a].resolved /\ ~closing
  /\ ask' = [ask EXCEPT ![a].entry = "open"]
  /\ UNCHANGED <<log, sent, resident, relay, askQueue, askRelay, client, closing>>

\* An approval is announced while unclaimed, a question once its event is durable.
Announce(a) ==
  /\ ~ask[a].announced /\ ~ask[a].resolved
  /\ IF a \in Approvals THEN ask[a].entry = "open" ELSE ask[a].entry \in {"open", "claimed"}
  /\ ask' = [ask EXCEPT ![a].announced = TRUE] /\ Notify("requested", a)
  /\ UNCHANGED <<log, sent, resident, relay, client, closing>>

\* An answer, a cancellation or the deadline: snapshots no longer hold it.
Claim(a) ==
  /\ ask[a].entry = "open" /\ ask' = [ask EXCEPT ![a].entry = "claimed"]
  /\ UNCHANGED <<log, sent, resident, relay, askQueue, askRelay, client, closing>>

\* observe_decided, and the end of ask_user_question.
Resolve(a) ==
  /\ ask[a].entry = "claimed" /\ (a \in Questions => ask[a].announced)
  /\ ask' = [ask EXCEPT ![a].entry = "none", ![a].resolved = TRUE] /\ Notify("resolved", a)
  /\ UNCHANGED <<log, sent, resident, relay, client, closing>>

\* A question whose asked or resolved event is refused leaves without a notice.
AskRefused(a) ==
  /\ AppendFaults /\ a \in Questions /\ ask[a].entry # "none"
  /\ ~ask[a].announced \/ ask[a].entry = "claimed"
  /\ ask' = [ask EXCEPT ![a] = [entry |-> "none", announced |-> TRUE, resolved |-> TRUE]]
  /\ UNCHANGED <<log, sent, resident, relay, askQueue, askRelay, client, closing>>

\* start_approval_relay and start_question_relay.
AskRelay ==
  /\ askRelay = "run" /\ askQueue # <<>>
  /\ askQueue' = Tail(askQueue) /\ Publish(<<Head(askQueue)>>)
  /\ UNCHANGED <<log, sent, resident, relay, ask, askRelay, closing>>

-----------------------------------------------------------------------------
(* Clients *)

\* A connection subscribes; an event stream names the event it wants next.
Connect(c) ==
  /\ client[c].at = "away" /\ client[c].connects < MaxConnects /\ ~closing
  /\ client' = [client EXCEPT ![c] =
       [@ EXCEPT !.at = IF c \in Sockets THEN "live" ELSE "subscribed", !.inbox = <<>>,
                 !.lagged = FALSE, !.next = client[c].last + 1, !.replayed = {}, !.shown = {},
                 !.upto = IF c \in Sockets THEN IF relay.at = "none" THEN log ELSE relay.next ELSE 0,
                 !.connects = @ + 1]]
  /\ UNCHANGED <<log, sent, resident, relay, ask, askQueue, askRelay, closing>>

\* events_inner: the resident events, or those the persistence will read.
ReadHistory(c) ==
  /\ c \in Sse /\ \/ client[c].at = "subscribed" /\ resident
                  \/ client[c].at = "cold"
  /\ client' = [client EXCEPT ![c].at = "history", ![c].upto = log]
  /\ UNCHANGED <<log, sent, resident, relay, ask, askQueue, askRelay, closing>>

FindCold(c) ==
  /\ c \in Sse /\ client[c].at = "subscribed" /\ ~resident
  /\ client' = [client EXCEPT ![c].at = "cold"]
  /\ UNCHANGED <<log, sent, resident, relay, ask, askQueue, askRelay, closing>>

\* What a stream delivers to its client.
See(cl, e) == [cl EXCEPT !.next = e + 1, !.last = e, !.seen = @ \cup {e}]
Show(cl, a) == [cl EXCEPT !.replayed = @ \cup {a}, !.shown = @ \cup {a}, !.twice = @ \/ a \in cl.shown]

\* sse_events: the durable suffix.
YieldHistory(c) ==
  /\ client[c].at = "history"
  /\ client' = [client EXCEPT ![c] = IF @.next < @.upto THEN See(@, @.next) ELSE [@ EXCEPT !.at = "live"]]
  /\ UNCHANGED <<log, sent, resident, relay, ask, askQueue, askRelay, closing>>

\* The replay of registry.snapshots() by compat_websocket and host_events.
Replay(c) ==
  /\ c \in Mux /\ client[c].at = "subscribed"
  /\ LET open == {a \in Asks : ask[a].entry = "open"}
     IN client' = [client EXCEPT ![c].at = "live", ![c].replayed = open, ![c].shown = open]
  /\ UNCHANGED <<log, sent, resident, relay, ask, askQueue, askRelay, closing>>

\* One notice: events already in the suffix and replayed requests are dropped.
Deliver(c, cl, n) ==
  CASE n.kind = "event" -> IF c \in Sse /\ n.of < cl.next THEN cl ELSE See(cl, n.of)
    [] n.kind = "projection" -> [cl EXCEPT !.last = n.of]
    [] n.kind = "requested" -> IF c \in Mux /\ n.of \in cl.replayed THEN cl ELSE Show(cl, n.of)
    [] n.kind = "resolved" -> [cl EXCEPT !.replayed = @ \ {n.of}, !.shown = @ \ {n.of}]

\* A stream told of lag ends; the client may connect again.
Recv(c) ==
  /\ client[c].at = "live" /\ (client[c].lagged \/ client[c].inbox # <<>>)
  /\ client' = [client EXCEPT ![c] =
       IF @.lagged THEN [@ EXCEPT !.at = "away", !.inbox = <<>>]
       ELSE Deliver(c, [@ EXCEPT !.inbox = Tail(@)], Head(@.inbox))]
  /\ UNCHANGED <<log, sent, resident, relay, ask, askQueue, askRelay, closing>>

Disconnect(c) ==
  /\ client[c].at # "away"
  /\ client' = [client EXCEPT ![c].at = "away", ![c].inbox = <<>>]
  /\ UNCHANGED <<log, sent, resident, relay, ask, askQueue, askRelay, closing>>

Next ==
  \/ Restore \/ Commit \/ Broadcast \/ EnsureRelay \/ RelaySubscribe \/ RelayMissing
  \/ RelayCaughtUp \/ RelayRecv \/ StopRelays \/ RelayStops \/ AskRelay
  \/ \E a \in Asks : Register(a) \/ Announce(a) \/ Claim(a) \/ Resolve(a) \/ AskRefused(a)
  \/ \E c \in Clients : Connect(c) \/ ReadHistory(c) \/ FindCold(c) \/ YieldHistory(c)
                        \/ Replay(c) \/ Recv(c) \/ Disconnect(c)

Spec == Init /\ [][Next]_vars

-----------------------------------------------------------------------------
InFlight(q, kind, x) == \E i \in DOMAIN q : q[i] = [kind |-> kind, of |-> x]

\* The relay has the event yet to publish.
ToRelay(e) == relay.at \notin {"none", "ended"} /\ e >= relay.next

\* An event stream that lost nothing: what it has not delivered is on its way.
Follows(c, e) ==
  \/ e \in client[c].seen \/ client[c].lagged \/ InFlight(client[c].inbox, "event", e) \/ ToRelay(e)

\* What a stream owes its client: the history its first connection read, and
\* everything committed once the relay runs (a socket: since it subscribed).
Owed(c, e) ==
  \/ c \in Sse /\ client[c].connects = 1 /\ e < client[c].upto
  \/ relay.at # "none" /\ e >= relay.start /\ (c \in Sockets => e >= client[c].upto)

\* A client whose stream is open and not told of lag has, or will get, what it
\* is owed: no event falls between the read of the history and the
\* subscription, and none before the id a new connection resumes from
\* (sse_events, sse_from_seq).
StreamsMissNothing ==
  \A c \in Sse \cup Sockets : \A e \in 0 .. log - 1 :
    /\ client[c].at = "live" /\ Owed(c, e) => Follows(c, e)
    /\ c \in Sse /\ e <= client[c].last /\ relay.at # "none" /\ e >= relay.start => e \in client[c].seen

\* A client of the multiplexed stream that is told of no lag sees the requests
\* that are open, each once, and none that was resolved (snapshots, then notices).
PendingViewsAgree ==
  \A c \in Mux : (client[c].at = "live" /\ ~client[c].lagged /\ askRelay = "run") =>
    /\ ~client[c].twice
    /\ \A a \in Asks :
         LET coming(kind) == InFlight(askQueue, kind, a) \/ InFlight(client[c].inbox, kind, a)
         IN /\ ask[a].entry = "open" /\ ask[a].announced =>
                 a \in client[c].shown \/ coming("requested")
            /\ ask[a].resolved /\ a \in client[c].shown => coming("resolved")

WatchersCatchUp == StreamsMissNothing /\ (~AppendFaults => PendingViewsAgree)
=============================================================================
