---------------------------- MODULE RemoteAccess ----------------------------
(***************************************************************************)
(* Remote devices (src/src/remote_access.rs): pairing, authentication and  *)
(* revocation over a store written before the memory it mirrors; the guard *)
(* every request passes (src/src/api.rs), its recheck after the handler,   *)
(* and the live streams a revocation closes; and the tunnel supervisor     *)
(* (src/src/cloudflare_tunnel.rs) whose endpoint the guard trusts.         *)
(* Request headers are the fields the guard reads.  A client may go away,  *)
(* which drops its handler at the await it is at; a rename handed to a     *)
(* blocking thread then still happens.                                     *)
(***************************************************************************)
EXTENDS Integers, Sequences, FiniteSets, FiniteSetsExt

CONSTANTS
  Tasks,       \* requests being served
  Requests,    \* [host, origin, site, tls, path, arg]: what a client may send
  Devices,     \* device identities, in creation order by Rank
  Rank,
  Tokens,      \* pairing tokens
  Enabled,     \* remote access is enabled
  Tunnels,     \* endpoints a started tunnel may publish
  Faults,      \* SUBSET {"write", "sync", "gone", "crash", "expire", "tunnel"}
  MaxDevices,  \* MAX_DEVICES
  MaxOps,      \* bound: requests of a task
  MaxCrash,    \* bound: restarts
  MaxTunnels   \* bound: tunnel processes

VARIABLES
  memory,    \* device -> "active" | "expired" | "revoked"; absent when unknown
  disk,      \* the stored document
  pairing,   \* the token that may be exchanged, or None
  state,     \* holder of the state lock, or None
  tasks,
  late,      \* documents whose rename outlived its request
  acks,      \* [paired: token -> devices told, revoked: devices said to be]
  tunnel,    \* [process, events, trusted, loop, spawned]
  bounds     \* [tokens, crashes]

vars == <<memory, disk, pairing, state, tasks, late, acks, tunnel, bounds>>
store == <<memory, disk, pairing, state, late>>

None == "none"
NoTask == [at |-> "idle", ops |-> 0, path |-> None, dev |-> None, doc |-> <<>>, act |-> None, token |-> None, sub |-> FALSE, cut |-> FALSE]

Put(f, k, v) == [x \in DOMAIN f \cup {k} |-> IF x = k THEN v ELSE f[x]]
Without(f, keys) == [x \in DOMAIN f \ keys |-> f[x]]
Active(doc, d) == d \in DOMAIN doc /\ doc[d] = "active"
Unused == Devices \ (DOMAIN memory \cup DOMAIN disk \cup UNION {DOMAIN c : c \in late} \cup UNION {acks.paired[k] : k \in Tokens})

Init ==
  /\ memory = <<>> /\ disk = <<>> /\ pairing = None /\ state = None
  /\ tasks = [t \in Tasks |-> NoTask] /\ late = {}
  /\ acks = [paired |-> [k \in Tokens |-> {}], revoked |-> {}]
  /\ tunnel = [process |-> None, events |-> <<>>, trusted |-> {}, loop |-> "off", spawned |-> 0]
  /\ bounds = [tokens |-> {}, crashes |-> 0]

Become(t, rec) == tasks' = [tasks EXCEPT ![t] = rec]
Goto(t, at) == Become(t, [tasks[t] EXCEPT !.at = at])
Idle(t) == Become(t, [NoTask EXCEPT !.ops = tasks[t].ops])

-----------------------------------------------------------------------------
(* The guard *)

\* classify: the bound authority is local; a trusted one is remote, its origin
\* its own, or absent from a public page or a same-origin fetch.
TrustsOrigin(r) ==
  /\ r.origin \in {"own", None}
  /\ r.origin = "own" \/ r.path = "page" \/ r.site = "same-origin"
  /\ r.site \in {None, "same-origin", "none"}
Classify(r) ==
  IF r.host = "bound" THEN (IF r.origin \in {None, "own"} THEN "local" ELSE "refused")
  ELSE IF r.host \in tunnel.trusted /\ TrustsOrigin(r) THEN "remote" ELSE "refused"
PublicPath(r) == r.path = "page" \/ (r.path \in {"describe", "exchange"} /\ r.arg = None)
LoopbackOnly == {"issue", "revoke", "revokeAll", "settings"}

\* require_bound_authority up to authenticate.
Guard(t, r) ==
  /\ tasks[t].at = "idle" /\ tasks[t].ops < MaxOps
  /\ LET kind == Classify(r)
         public == PublicPath(r)
         admitted == kind = "local" \/ (kind = "remote" /\ Enabled /\ r.tls)
         ready == [NoTask EXCEPT !.ops = tasks[t].ops + 1, !.path = r.path]
     IN /\ admitted
        /\ Become(t, IF kind = "local" THEN [ready EXCEPT !.at = "local", !.dev = r.arg]
                     ELSE IF public THEN [ready EXCEPT !.at = IF r.path = "exchange" THEN "public" ELSE "done"]
                     ELSE [ready EXCEPT !.at = "auth", !.dev = r.arg])
  /\ UNCHANGED <<store, acks, tunnel, bounds>>

\* authenticate, and the paths that are the local host's alone.
Authenticate(t) ==
  /\ tasks[t].at = "auth" /\ state = None
  /\ \/ /\ Active(memory, tasks[t].dev) /\ tasks[t].path \notin LoopbackOnly \cup {"exchange"}
        /\ Goto(t, "handler")
     \/ /\ ~Active(memory, tasks[t].dev) \/ tasks[t].path \in LoopbackOnly \cup {"exchange"}
        /\ Idle(t)
  /\ UNCHANGED <<store, acks, tunnel, bounds>>
\* Its activity is due: the store is written first.
Touch(t) ==
  /\ tasks[t].at = "auth" /\ state = None /\ "touch" \in Faults
  /\ Active(memory, tasks[t].dev) /\ tasks[t].path \notin LoopbackOnly \cup {"exchange"}
  /\ state' = t
  /\ Become(t, [tasks[t] EXCEPT !.at = "persist", !.doc = memory, !.act = "touch"])
  /\ UNCHANGED <<memory, disk, pairing, late, acks, tunnel, bounds>>

\* A stream's handler subscribes to the disconnects before the guard looks again.
Subscribe(t) ==
  /\ tasks[t].at = "handler" /\ tasks[t].path = "stream"
  /\ Become(t, [tasks[t] EXCEPT !.at = "recheck", !.sub = TRUE])
  /\ UNCHANGED <<store, acks, tunnel, bounds>>
Call(t) ==
  /\ tasks[t].at = "handler" /\ tasks[t].path = "call"
  /\ Goto(t, "recheck")
  /\ UNCHANGED <<store, acks, tunnel, bounds>>
\* check_device after the handler; a stream it lets through is live.
Recheck(t) ==
  /\ tasks[t].at = "recheck" /\ state = None
  /\ IF Active(memory, tasks[t].dev) /\ tasks[t].path = "stream"
     THEN Goto(t, "live") ELSE Idle(t)
  /\ UNCHANGED <<store, acks, tunnel, bounds>>

\* A live stream ends when it is told to, or when its client leaves.
StreamEnds(t) ==
  /\ tasks[t].at = "live" /\ Idle(t)
  /\ UNCHANGED <<store, acks, tunnel, bounds>>
\* websocket looks at its device every 250 ms.
DeviceCheck(t) ==
  /\ tasks[t].at = "live" /\ state = None /\ ~Active(memory, tasks[t].dev) /\ Idle(t)
  /\ UNCHANGED <<store, acks, tunnel, bounds>>

\* disconnect_live: every subscriber is told.
Cut(ts) == [t \in Tasks |-> IF ts[t].sub THEN [ts[t] EXCEPT !.cut = TRUE] ELSE ts[t]]

-----------------------------------------------------------------------------
(* The store *)

IssuePairing(t, k) ==
  /\ tasks[t].at = "local" /\ tasks[t].path = "issue" /\ Enabled /\ state = None /\ k \notin bounds.tokens
  /\ pairing' = k /\ bounds' = [bounds EXCEPT !.tokens = @ \cup {k}] /\ Idle(t)
  /\ UNCHANGED <<memory, disk, state, late, acks, tunnel>>

\* prune_inactive_devices: the oldest inactive ones, as many as make room.
Pruned(doc) ==
  LET excess == Cardinality(DOMAIN doc) + 1 - MaxDevices
      inactive == {d \in DOMAIN doc : doc[d] # "active"}
      older(d) == Cardinality({e \in inactive : Rank[e] < Rank[d]})
  IN Without(doc, {d \in inactive : older(d) < excess})
\* exchange_pairing under the lock.
Exchange(t, k, d) ==
  /\ tasks[t].at = "public" \/ (tasks[t].at = "local" /\ tasks[t].path = "exchange")
  /\ Enabled /\ state = None /\ k \in bounds.tokens /\ d \in Unused
  /\ \A e \in Unused : Rank[d] <= Rank[e]
  /\ IF pairing = k /\ Cardinality(DOMAIN Pruned(memory)) < MaxDevices
     THEN /\ state' = t
          /\ Become(t, [tasks[t] EXCEPT !.at = "persist", !.dev = d, !.act = "pair", !.token = k, !.doc = Put(Pruned(memory), d, "active")])
     ELSE Idle(t) /\ UNCHANGED state
  /\ UNCHANGED <<memory, disk, pairing, late, acks, tunnel, bounds>>
PairingExpires ==
  /\ "expire" \in Faults /\ pairing # None /\ pairing' = None
  /\ UNCHANGED <<memory, disk, state, tasks, late, acks, tunnel, bounds>>

Revokes(t) ==
  \/ tasks[t].at = "local" /\ tasks[t].path \in {"revoke", "revokeAll"}
  \/ tasks[t].at = "handler" /\ tasks[t].path = "revokeSelf"
\* revoke, revoke_all and revokeSelf, one of which was already done.
Revoke(t) ==
  /\ Revokes(t) /\ Enabled /\ state = None
  /\ LET named == IF tasks[t].path = "revokeAll" THEN DOMAIN memory ELSE DOMAIN memory \cap {tasks[t].dev}
         todo == {d \in named : memory[d] # "revoked"}
     IN IF todo = {} THEN Idle(t) /\ acks' = [acks EXCEPT !.revoked = @ \cup named] /\ UNCHANGED state
        ELSE /\ state' = t
             /\ Become(t, [tasks[t] EXCEPT !.at = "persist", !.act = "revoke",
                             !.doc = [d \in DOMAIN memory |-> IF d \in todo THEN "revoked" ELSE memory[d]]])
             /\ UNCHANGED acks
  /\ UNCHANGED <<memory, disk, pairing, late, tunnel, bounds>>

\* persist: a temporary file takes the place of the store, and the directory is
\* synced; either may fail.
Rename(t) ==
  /\ tasks[t].at = "persist" /\ disk' = tasks[t].doc /\ Goto(t, "renamed")
  /\ UNCHANGED <<memory, pairing, state, late, acks, tunnel, bounds>>
PersistFails(t) ==
  /\ \/ tasks[t].at = "persist" /\ "write" \in Faults
     \/ tasks[t].at = "renamed" /\ "sync" \in Faults
  /\ state' = None /\ Idle(t)
  /\ UNCHANGED <<memory, disk, pairing, late, acks, tunnel, bounds>>
\* The memory follows, and with it the answer; a revocation cuts the streams.
Replace(t) ==
  /\ tasks[t].at = "renamed"
  /\ memory' = tasks[t].doc /\ state' = None
  /\ CASE tasks[t].act = "touch" -> Goto(t, "handler") /\ UNCHANGED <<pairing, acks>>
       [] tasks[t].act = "pair" ->
            /\ pairing' = None /\ Idle(t)
            /\ acks' = [acks EXCEPT !.paired[tasks[t].token] = @ \cup {tasks[t].dev}]
       [] tasks[t].act = "revoke" ->
            /\ tasks' = Cut([tasks EXCEPT ![t] = [NoTask EXCEPT !.ops = tasks[t].ops]]) /\ UNCHANGED pairing
            /\ acks' = [acks EXCEPT !.revoked = @ \cup {d \in DOMAIN memory : tasks[t].doc[d] = "revoked"}]
  /\ UNCHANGED <<disk, late, tunnel, bounds>>

\* The client goes away while its handler waits.
ClientGone(t) ==
  /\ "gone" \in Faults /\ tasks[t].at \in {"persist", "renamed"}
  /\ late' = IF tasks[t].at = "persist" THEN late \cup {tasks[t].doc} ELSE late
  /\ state' = None /\ Idle(t)
  /\ UNCHANGED <<memory, disk, pairing, acks, tunnel, bounds>>
LateRename(doc) ==
  /\ doc \in late /\ disk' = doc /\ late' = late \ {doc}
  /\ UNCHANGED <<memory, pairing, state, tasks, acks, tunnel, bounds>>

\* A device's time is up; schedule_expiry's task cuts the streams.
Expire(d) ==
  /\ "expire" \in Faults /\ Active(memory, d) /\ state = None
  /\ memory' = [memory EXCEPT ![d] = "expired"]
  /\ disk' = IF Active(disk, d) THEN [disk EXCEPT ![d] = "expired"] ELSE disk
  /\ tasks' = Cut(tasks)
  /\ UNCHANGED <<pairing, state, late, acks, tunnel, bounds>>

\* The process ends; load_state reads the store again, and nothing is pairing.
Restart ==
  /\ "crash" \in Faults /\ bounds.crashes < MaxCrash
  /\ memory' = disk /\ pairing' = None /\ state' = None /\ late' = {}
  /\ tasks' = [t \in Tasks |-> [NoTask EXCEPT !.ops = tasks[t].ops]]
  /\ tunnel' = [tunnel EXCEPT !.process = None, !.events = <<>>, !.trusted = {}, !.loop = "off"]
  /\ bounds' = [bounds EXCEPT !.crashes = @ + 1]
  /\ UNCHANGED <<disk, acks>>

\* Other requests are answered without touching the state.
Answer(t) ==
  /\ \/ tasks[t].at = "done" \/ (tasks[t].at = "local" /\ tasks[t].path \in {"page", "describe", "call", "settings"})
     \/ tasks[t].at = "handler" /\ tasks[t].path \in {"describe", "page"}
  /\ Idle(t)
  /\ UNCHANGED <<store, acks, tunnel, bounds>>

-----------------------------------------------------------------------------
(* The tunnel *)

keep == <<store, tasks, acks, bounds>>
MaySpawn == tunnel.spawned < MaxTunnels
\* CloudflareQuickTunnel::start before the listener is bound with its endpoint.
TunnelStart(e) ==
  /\ Enabled /\ tunnel.loop = "off" /\ MaySpawn
  /\ tunnel' = [tunnel EXCEPT !.process = e, !.trusted = {e}, !.loop = "supervise", !.spawned = @ + 1]
  /\ UNCHANGED keep
\* supervise: the process exits, Down is sent, and another is tried after a delay.
TunnelExits ==
  /\ "tunnel" \in Faults /\ tunnel.loop = "supervise" /\ tunnel.process # None
  /\ tunnel' = [tunnel EXCEPT !.process = None, !.events = Append(@, None), !.loop = "respawn"]
  /\ UNCHANGED keep
\* spawn reads lines until one is the endpoint; a process that exits, ends its
\* output or takes too long is terminated, and another is tried.
TunnelSpawn(e) ==
  /\ tunnel.loop = "respawn" /\ tunnel.process = None /\ MaySpawn
  /\ tunnel' = [tunnel EXCEPT !.process = e, !.spawned = @ + 1]
  /\ UNCHANGED keep
TunnelFails ==
  /\ tunnel.loop = "respawn" /\ tunnel.process # None
  /\ tunnel' = [tunnel EXCEPT !.process = None]
  /\ UNCHANGED keep
TunnelReady ==
  /\ tunnel.loop = "respawn" /\ tunnel.process # None
  /\ tunnel' = [tunnel EXCEPT !.events = Append(@, tunnel.process), !.loop = "supervise"]
  /\ UNCHANGED keep
\* The Web loop replaces the trusted authorities with what an event says.
TunnelEvent ==
  /\ tunnel.loop \in {"supervise", "respawn"} /\ tunnel.events # <<>>
  /\ tunnel' = [tunnel EXCEPT !.trusted = {Head(tunnel.events)} \ {None}, !.events = Tail(@)]
  /\ UNCHANGED keep
\* shutdown: the tunnel is stopped, a spawn dropped with its process, before the
\* listener's streams are told to end.
TunnelShutdown ==
  /\ tunnel.loop \in {"supervise", "respawn"}
  /\ tunnel' = [tunnel EXCEPT !.process = None, !.loop = "closed"]
  /\ tasks' = Cut(tasks)
  /\ UNCHANGED <<store, acks, bounds>>

Next ==
  \/ \E t \in Tasks :
       \/ \E r \in Requests : Guard(t, r)
       \/ Authenticate(t) \/ Touch(t) \/ Subscribe(t) \/ Call(t) \/ Recheck(t) \/ StreamEnds(t) \/ DeviceCheck(t)
       \/ (\E k \in Tokens : IssuePairing(t, k)) \/ (\E k \in Tokens, d \in Devices : Exchange(t, k, d))
       \/ Revoke(t) \/ Rename(t) \/ PersistFails(t) \/ Replace(t) \/ ClientGone(t) \/ Answer(t)
  \/ PairingExpires \/ (\E d \in Devices : Expire(d)) \/ (\E doc \in late : LateRename(doc)) \/ Restart
  \/ (\E e \in Tunnels : TunnelStart(e) \/ TunnelSpawn(e))
  \/ TunnelExits \/ TunnelFails \/ TunnelReady \/ TunnelEvent \/ TunnelShutdown

Spec == Init /\ [][Next]_vars

-----------------------------------------------------------------------------
\* A live stream whose device is revoked, expired or forgotten has been told to
\* end, whenever the revocation came: during the handshake or after it.
RevokedIsCut == \A t \in Tasks : tasks[t].at = "live" /\ ~Active(memory, tasks[t].dev) => tasks[t].cut

\* A pairing token makes one device, however many requests present it, and
\* a write that failed gives its device to nobody.
OneDevicePerToken == \A k \in Tokens : Cardinality(acks.paired[k]) <= 1

\* A revocation that was acknowledged is not undone, in memory or by a restart,
\* as long as no rename outlives the request that began it.
RevocationLasts ==
  "gone" \notin Faults => \A d \in acks.revoked : ~Active(memory, d) /\ ~Active(disk, d)

\* A device that was told of its session has it until it expires or is revoked.
PairedIsKnown ==
  Faults \cap {"gone", "expire"} = {} =>
    \A k \in Tokens : \A d \in acks.paired[k] \ acks.revoked : d \in DOMAIN memory \cap DOMAIN disk

\* The number of devices stays within its limit, in memory and on disk.
DevicesBounded == Cardinality(DOMAIN memory) <= MaxDevices /\ Cardinality(DOMAIN disk) <= MaxDevices

\* Once its events are seen the guard trusts the endpoint of the running tunnel
\* and no other, and after shutdown there is no tunnel process.
TrustFollowsTunnel ==
  /\ tunnel.events = <<>> /\ tunnel.loop = "supervise" => tunnel.trusted = {tunnel.process}
  /\ tunnel.events = <<>> /\ tunnel.loop = "respawn" => tunnel.trusted = {}
TunnelStops == tunnel.loop \in {"off", "closed"} => tunnel.process = None
=============================================================================
