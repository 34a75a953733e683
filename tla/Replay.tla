------------------------------- MODULE Replay -------------------------------
(***************************************************************************)
(* Recorded model calls, played back: RecordedLlmAdapter of                *)
(* src/src/llm.rs.  A live run writes logs (the session JSONL of a primary *)
(* session and of its forks, or the lines of raw routes); loading derives  *)
(* one script of attempts from each; live requests then claim attempts and *)
(* read them as streams.  A chunk is a record with a number of its own.    *)
(***************************************************************************)
EXTENDS Integers, Sequences, FiniteSets, SequencesExt

CONSTANTS
  Form,       \* "scripts" (session JSONL) or "routes" (raw provider JSONL)
  Logs,       \* 1..n: recorded sessions, 1 the primary, or recorded routes
  Sessions,   \* live sessions; in the form "routes", the routes themselves
  Overrides,  \* override documents the loader may be given
  MaxChunks,  \* bound: chunks recorded
  MaxKeys,    \* bound: steps, or request ids
  MaxResets   \* bound: calls of reset

VARIABLES
  log,      \* log -> its rows, key of the open attempt, and fork facts
  sent,     \* log -> attempts the provider really made, in order
  n,        \* chunks so far
  plan,     \* the loaded scripts, or the loader's refusal
  cursors,  \* ReplayCursors
  claimed,  \* claims since the last reset
  stream    \* session -> the stream it reads

vars == <<log, sent, n, plan, cursors, claimed, stream>>

Delta(i) == [is |-> "delta", id |-> i]
Finish(i) == [is |-> "finish", id |-> i]
Chunks(cs) == [kind |-> "chunks", chunks |-> cs, ready |-> FALSE, from |-> FALSE]

\* A summary's output as chunks: start and end of its block, then a finish.
Canonical(i) == <<Delta(i), Finish(i)>>

NoCursors == [bound |-> [s \in Sessions |-> 0], at |-> [s \in Sessions |-> 0], next |-> 0]
NoStream == [at |-> "none", entry |-> Chunks(<<>>), got |-> <<>>, ready |-> FALSE, asked |-> FALSE]
NotLoaded == [at |-> "recording", scripts |-> <<>>, override |-> [is |-> "none"]]

Init ==
  /\ log = [l \in Logs |-> [rows |-> <<>>, key |-> 1, open |-> FALSE, cut |-> FALSE,
                            seed |-> 0, live |-> l = 1 \/ Form = "routes", created |-> 0]]
  /\ sent = [l \in Logs |-> <<>>]
  /\ n = 0
  /\ plan = NotLoaded
  /\ cursors = NoCursors
  /\ claimed = <<>>
  /\ stream = [s \in Sessions |-> NoStream]

-----------------------------------------------------------------------------
(* The live run, as far as its logs tell. *)

Rows(l) == log[l].rows
Recording(l) == plan.at = "recording" /\ log[l].live /\ n < MaxChunks

\* The chunks of the attempt in progress join what was sent.
Sent(l, c) ==
  IF log[l].open THEN [sent EXCEPT ![l] = Front(@) \o <<Append(Last(@), c)>>]
                 ELSE [sent EXCEPT ![l] = Append(@, <<c>>)]

\* Older recorders pack neighbouring deltas of one block into one row.
RecordDelta(l, pack) ==
  LET c == Delta(n + 1)
      packs == /\ pack /\ log[l].open
               /\ Last(Rows(l)).is \in {"chunk", "packed"}
               /\ Last(Last(Rows(l)).chunks).is = "delta"
      rows == IF packs
              THEN Front(Rows(l)) \o <<[is |-> "packed", key |-> log[l].key,
                                        chunks |-> Append(Last(Rows(l)).chunks, c)]>>
              ELSE Append(Rows(l), [is |-> "chunk", key |-> log[l].key, chunks |-> <<c>>])
  IN /\ Recording(l)
     /\ pack => packs
     /\ log' = [log EXCEPT ![l].rows = rows, ![l].open = TRUE]
     /\ sent' = Sent(l, c)
     /\ n' = n + 1
     /\ UNCHANGED <<plan, cursors, claimed, stream>>

\* The finish of an attempt; a retry keeps the step, or the request id.
RecordFinish(l, retry) ==
  /\ Recording(l)
  /\ log[l].key < MaxKeys \/ retry
  /\ log' = [log EXCEPT ![l].rows = Append(@, [is |-> "chunk", key |-> log[l].key,
                                               chunks |-> <<Finish(n + 1)>>]),
                        ![l].key = IF retry THEN @ ELSE @ + 1,
                        ![l].open = FALSE]
  /\ sent' = Sent(l, Finish(n + 1))
  /\ n' = n + 1
  /\ UNCHANGED <<plan, cursors, claimed, stream>>

\* A summary, made by a streamed call or not.
RecordSummary(l, call) ==
  /\ Recording(l)
  /\ Form = "scripts"
  /\ ~log[l].open
  /\ log' = [log EXCEPT ![l].rows = Append(@, [is |-> "summary", call |-> call, id |-> n + 1])]
  /\ sent' = IF call THEN [sent EXCEPT ![l] = Append(@, Canonical(n + 1))] ELSE sent
  /\ n' = n + 1
  /\ UNCHANGED <<plan, cursors, claimed, stream>>

\* The process dies inside an attempt; the next one belongs to a later turn.
Cut(l) ==
  /\ plan.at = "recording"
  /\ log[l].open
  /\ log[l].key < MaxKeys
  /\ log' = [log EXCEPT ![l].open = FALSE, ![l].cut = TRUE, ![l].key = @ + 1]
  /\ UNCHANGED <<sent, n, plan, cursors, claimed, stream>>

-----------------------------------------------------------------------------
(* Loading *)

\* parse_replay_session_log: unpack_chunks makes one event of each member.
Unpack(row) ==
  IF row.is \in {"chunk", "packed"}
  THEN [i \in 1..Len(row.chunks) |-> [is |-> "chunk", key |-> row.key, chunk |-> row.chunks[i]]]
  ELSE <<row>>
Events(rows) == FlattenSeq([i \in 1..Len(rows) |-> Unpack(rows[i])])

\* A child forks off the primary with its events so far as a seed.
Fork(c, time) ==
  /\ plan.at = "recording"
  /\ Form = "scripts"
  /\ ~log[c].live
  /\ \A l \in Logs : log[l].live => time >= log[l].created
  /\ log' = [log EXCEPT ![c] = [log[1] EXCEPT !.seed = Len(Events(Rows(1))), !.open = FALSE,
                                              !.cut = FALSE, !.created = time,
                                              !.key = @ + 1]]
  /\ UNCHANGED <<sent, n, plan, cursors, claimed, stream>>

\* close_derived_attempt
Close(d) ==
  IF d.chunks = <<>> THEN d
  ELSE IF Last(d.chunks).is # "finish" THEN [d EXCEPT !.err = TRUE]
  ELSE [d EXCEPT !.entries = Append(@, Chunks(d.chunks)), !.chunks = <<>>, !.key = 0]

\* derive_replay_script, one event
DeriveSummary(d, e) ==
  IF e.call THEN [d EXCEPT !.entries = Append(@, Chunks(Canonical(e.id)))] ELSE d
DeriveChunk(d, e) ==
  LET o == [d EXCEPT !.chunks = Append(@, e.chunk), !.key = IF d.chunks = <<>> THEN e.key ELSE @]
  IN IF e.chunk.is = "finish" THEN Close(o) ELSE o
DeriveStep(d, e) ==
  IF e.is = "summary" THEN DeriveSummary(Close(d), e)
  ELSE IF d.chunks # <<>> /\ d.key # e.key THEN DeriveChunk(Close(d), e)
  ELSE DeriveChunk(d, e)

NoScript == [entries |-> <<>>, key |-> 0, chunks |-> <<>>, err |-> FALSE]
DeriveScript(events) == Close(FoldLeft(DeriveStep, NoScript, events))

\* parse_jsonl: neighbouring lines of one request id are one attempt.
GroupLine(d, row) ==
  IF d.chunks # <<>> /\ d.key = row.key THEN [d EXCEPT !.chunks = @ \o row.chunks]
  ELSE [d EXCEPT !.entries = IF d.chunks = <<>> THEN @ ELSE Append(@, Chunks(d.chunks)),
                 !.chunks = row.chunks, !.key = row.key]
GroupRoute(rows) ==
  LET d == FoldLeft(GroupLine, NoScript, rows)
  IN [d EXCEPT !.entries = IF d.chunks = <<>> THEN @ ELSE Append(@, Chunks(d.chunks))]

\* apply_replay_override: positions count the derived entries.
ApplyPatch(d, len, p) ==
  IF p.at > len THEN [d EXCEPT !.err = TRUE]
  ELSE IF p.at = len THEN [d EXCEPT !.entries = Append(@, p.entry)]
  ELSE [d EXCEPT !.entries[p.at + 1] = p.entry]
ApplyOverride(d, o) ==
  CASE o.is = "none" -> d
    [] o.is = "replace" -> [d EXCEPT !.entries = o.entries]
    [] o.is = "patches" -> FoldLeft(LAMBDA a, p : ApplyPatch(a, Len(d.entries), p), d, o.patches)

\* compile_replay_entry
Finishes(cs) == {i \in 1..Len(cs) : cs[i].is = "finish"}
Compiles(e) == IF e.kind = "chunks" THEN Finishes(e.chunks) = {Len(e.chunks)} /\ e.chunks # <<>>
                                    ELSE Finishes(e.chunks) = {}

\* The primary first, its children by creation time, then by id.
Before(a, b) == a = 1 \/ (b # 1 /\ (log[a].created < log[b].created
                                    \/ (log[a].created = log[b].created /\ a < b)))
Order == SortSeq(SetToSeq({l \in Logs : log[l].live}), Before)

Derived(l) == IF Form = "routes" THEN GroupRoute(Rows(l))
              ELSE IF l = 1 THEN DeriveScript(Events(Rows(1)))
              ELSE DeriveScript(SubSeq(Events(Rows(l)), log[l].seed + 1, Len(Events(Rows(l)))))

\* from_session_jsonls_with_override, or from_jsonl: a script that cannot be
\* derived is refused before an override is looked at.
Refused(ds, o) == \/ \E i \in 1..Len(ds) : ds[i].err
                  \/ ApplyOverride(ds[1], o).err
                  \/ \E e \in Range(ApplyOverride(ds[1], o).entries) : ~Compiles(e)
                  \/ \E i \in 2..Len(ds) : \E e \in Range(ds[i].entries) : ~Compiles(e)
Load(o) ==
  /\ plan.at = "recording"
  /\ Form = "routes" => o.is = "none"
  /\ \E ds \in {[i \in 1..Len(Order) |-> Derived(Order[i])]} :
       plan' = IF Refused(ds, o)
               THEN [at |-> "refused", scripts |-> <<>>, override |-> o]
               ELSE [at |-> "loaded", override |-> o,
                     scripts |-> [i \in 1..Len(ds) |->
                       IF i = 1 THEN ApplyOverride(ds[1], o).entries ELSE ds[i].entries]]
  /\ UNCHANGED <<log, sent, n, cursors, claimed, stream>>

-----------------------------------------------------------------------------
(* Playing back *)

\* claim_attempt: a session is bound to the next script by its first request.
\* The attempt is spent even if a placeholder in it matches nothing.
Script(s) == IF Form = "routes" THEN s
             ELSE IF cursors.bound[s] # 0 THEN cursors.bound[s] ELSE cursors.next + 1
Claim(s, matches) ==
  /\ plan.at = "loaded"
  /\ stream[s].at # "open"
  /\ Script(s) <= Len(plan.scripts)
  /\ LET k == Script(s)
         here == cursors.at[s] + 1
         has == here <= Len(plan.scripts[k])
         binds == Form = "scripts" /\ cursors.bound[s] = 0
     IN /\ cursors' = [cursors EXCEPT !.bound[s] = IF binds THEN k ELSE @,
                                      !.next = IF binds THEN @ + 1 ELSE @,
                                      !.at[s] = IF has THEN here ELSE @]
        /\ claimed' = IF has THEN Append(claimed, [session |-> s, script |-> k, entry |-> here])
                             ELSE claimed
        /\ matches \/ (has /\ plan.scripts[k][here].from)
        /\ stream' = [stream EXCEPT ![s] =
                        IF has /\ matches
                        THEN [NoStream EXCEPT !.at = "open", !.entry = plan.scripts[k][here]]
                        ELSE [NoStream EXCEPT !.at = "refused"]]
        /\ UNCHANGED <<log, sent, n, plan>>

Prefix(e) == IF e.kind = "hang" /\ e.chunks = <<>> THEN <<Delta(0), Delta(0)>> ELSE e.chunks

\* replay_stream: the consumer asks for the next chunk.  A cancelled request
\* gets none, except the stock prefix of an empty hang.
PollChunk(s) ==
  LET e == stream[s].entry
      i == Len(stream[s].got) + 1
  IN /\ stream[s].at = "open"
     /\ i <= Len(Prefix(e))
     /\ stream' = IF stream[s].asked /\ e.chunks # <<>> THEN [stream EXCEPT ![s].at = "cancelled"]
                  ELSE [stream EXCEPT ![s].got = Append(@, Prefix(e)[i])]
     /\ UNCHANGED <<log, sent, n, plan, cursors, claimed>>

PollEnd(s) ==
  LET e == stream[s].entry
  IN /\ stream[s].at = "open"
     /\ Len(stream[s].got) = Len(Prefix(e))
     /\ stream' = CASE e.kind = "chunks" -> [stream EXCEPT ![s].at = "done"]
                    [] e.kind = "throw" -> [stream EXCEPT ![s].at = "failed"]
                    [] e.kind = "hang" -> [stream EXCEPT ![s].ready = e.ready,
                                             ![s].at = IF stream[s].asked THEN "cancelled" ELSE @]
     /\ UNCHANGED <<log, sent, n, plan, cursors, claimed>>

Cancel(s) ==
  /\ stream[s].at = "open"
  /\ ~stream[s].asked
  /\ stream' = [stream EXCEPT ![s].asked = TRUE]
  /\ UNCHANGED <<log, sent, n, plan, cursors, claimed>>

\* reset
Reset ==
  /\ plan.at = "loaded"
  /\ claimed # <<>>
  /\ n < MaxChunks + MaxResets
  /\ n' = n + 1
  /\ cursors' = NoCursors
  /\ claimed' = <<>>
  /\ UNCHANGED <<log, sent, plan, stream>>

Next ==
  \/ \E l \in Logs, b \in BOOLEAN : RecordDelta(l, b) \/ RecordFinish(l, b) \/ RecordSummary(l, b)
  \/ \E l \in Logs : Cut(l)
  \/ \E l \in Logs \ {1}, t \in 0..1 : Fork(l, t)
  \/ \E o \in Overrides : Load(o)
  \/ \E s \in Sessions, b \in BOOLEAN : Claim(s, b)
  \/ \E s \in Sessions : PollChunk(s) \/ PollEnd(s) \/ Cancel(s)
  \/ Reset

Spec == Init /\ [][Next]_vars

-----------------------------------------------------------------------------
(* assert_consumed *)

AssertConsumed ==
  IF Form = "routes" THEN \A s \in Sessions : cursors.at[s] = Len(plan.scripts[s])
  ELSE /\ cursors.next = Len(plan.scripts)
       /\ \A s \in Sessions : cursors.bound[s] # 0 =>
            cursors.at[s] = Len(plan.scripts[cursors.bound[s]])

\* What was recorded is what is played: without an override every loaded
\* script holds exactly the attempts the provider made in that session, in
\* order, a fork's without those of its parent, however rows were packed.  A
\* log cut off inside an attempt is refused.
RecordedIsReplayed ==
  /\ plan.at = "loaded" /\ plan.override.is = "none" =>
       /\ \A i \in 1..Len(plan.scripts) :
            [k \in 1..Len(plan.scripts[i]) |-> plan.scripts[i][k].chunks] = sent[Order[i]]
       /\ Form = "scripts" => \A l \in Logs : ~log[l].cut /\ ~log[l].open
  /\ plan.at = "refused" /\ Form = "scripts" /\ plan.override.is = "none" =>
       \E l \in Logs : log[l].cut \/ log[l].open

\* Sessions that play back at the same time do not disturb each other: since
\* the last reset the attempts of a script were claimed from its first on, each
\* once and by one session; assert_consumed succeeds exactly when none is left
\* and every script was bound.
ClaimsInOrder ==
  /\ \A i \in 1..Len(claimed) :
       claimed[i].entry = 1 + Cardinality({j \in 1..(i - 1) : claimed[j].script = claimed[i].script})
  /\ \A i, j \in 1..Len(claimed) :
       (claimed[i].script = claimed[j].script) = (claimed[i].session = claimed[j].session)
  /\ plan.at = "loaded" =>
       (AssertConsumed <=>
          /\ Len(claimed) = FoldLeft(LAMBDA a, s : a + Len(s), 0, plan.scripts)
          /\ Form = "scripts" => \A k \in 1..Len(plan.scripts) : \E s \in Sessions : cursors.bound[s] = k)

\* A stream yields its attempt in order and whole: it ends well or with the
\* recorded error only after all its chunks, a hang ends only by cancellation,
\* and its ready file appears only after the prefix was consumed.
AttemptsDelivered ==
  \A s \in Sessions :
    LET t == stream[s]
    IN /\ IsPrefix(t.got, Prefix(t.entry))
       /\ t.at = "done" => t.entry.kind = "chunks" /\ t.got = t.entry.chunks
       /\ t.at = "failed" => t.entry.kind = "throw" /\ t.got = t.entry.chunks
       /\ t.ready => t.got = Prefix(t.entry)
       /\ t.at = "cancelled" => t.asked

=============================================================================
