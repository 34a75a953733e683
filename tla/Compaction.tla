----------------------------- MODULE Compaction -----------------------------
(***************************************************************************)
(* Conversation compaction (src/src/compaction.rs): the request that picks *)
(* batches of old messages, has a model summarise each and replaces them   *)
(* on the session's surface, or prunes a tool result that is in the way.   *)
(* The surface is read, planned on and then replaced some awaits later,    *)
(* only if it is still the one that was read.  A /compact is awaited by    *)
(* its client's request and dropped with it, between two awaits here (an   *)
(* append cut short is SessionStore's matter).  Sizes count for codepoints *)
(* and for the token estimates; the model's answer is external.            *)
(***************************************************************************)
EXTENDS Integers, Sequences, FiniteSets, SequencesExt, FiniteSetsExt, TLC

CONSTANTS
  Callers,      \* runs of compact_for_request
  Triggers,     \* "manual", "pressure", "overflow"
  Surfaces,     \* surfaces a run may find: sequences of [kind, call, size, seed, text]
  Posts,        \* messages others may append
  MaxPosts,     \* bound: such appends
  MaxMessages, MaxInput, \* CompactionConfig.max_surface_messages, max_input_codepoints
  RequestLimit, \* the soft limit of the request's model in tokens; 0 when not known
  SummaryLimit, \* summary_token_limit; 0 when not known
  Overhead,     \* tokens of the request outside its surface messages
  Usages,       \* values of recent_usage_estimate
  Summaries,    \* sizes of summaries the model may return
  MinSummary,   \* size of the least summary message
  Marker,       \* size of a tool result pruned to its notice
  Faults        \* whether the session may refuse the closing append

VARIABLES
  surface,  \* Session.surface: messages with their seq
  nextSeq,  \* the next event's sequence number
  posted,   \* every message of the log but summaries and pruned results
  open,     \* compaction/start events without a compaction/end
  lease,    \* CompactionService.active holds the session
  token,    \* the agent's CancellationToken fired
  posts,    \* appends of others
  run       \* one compact_for_request

vars == <<surface, nextSeq, posted, open, lease, token, posts, run>>

NoPlan == [first |-> 0, last |-> 0, seqs |-> <<>>, total |-> 0]
NoRun == [at |-> "idle", trigger |-> "manual", keep |-> 1, steps |-> 0, outcome |-> FALSE, plan |-> NoPlan,
          id |-> 0, size |-> 0, failed |-> FALSE]

Numbered(s) == [i \in DOMAIN s |-> [seq |-> i] @@ s[i]]

Init ==
  /\ \E s \in Surfaces : surface = Numbered(s) /\ nextSeq = Len(s) + 1
  /\ posted = ToSet(surface) /\ open = {} /\ lease = FALSE /\ token = FALSE /\ posts = 0
  /\ run = [c \in Callers |-> NoRun]

Goto(c, at) == run' = [run EXCEPT ![c].at = at]

-----------------------------------------------------------------------------
(* What an iteration reads off the surface *)

Size(s, i, j) == MapThenSumSet(LAMBDA k : s[k].size, i .. j)
Soft(limit) == limit - limit \div 4
TargetInput == Soft(MaxInput)
TargetCount == Soft(MaxMessages)
InputLimit == IF SummaryLimit # 0 THEN 4 * SummaryLimit ELSE MaxInput
Summarisable(size) == SummaryLimit = 0 \/ size <= SummaryLimit

\* complete_boundaries: the prefixes after which no tool call waits for a result.
Pending(s, i) ==
  {s[j].call : j \in {j \in 1 .. i : s[j].kind = "call" /\ \A k \in j .. i : ~(s[k].kind = "result" /\ s[k].call = s[j].call)}}
Boundaries(s) == SelectSeq([i \in 1 .. Len(s) + 1 |-> i - 1], LAMBDA i : Pending(s, i) = {})
\* The groups between them: from, after which, to.
Groups(b) == [k \in 1 .. Len(b) - 1 |-> <<b[k], b[k + 1]>>]

LastOf(s, kind) == Max({0} \cup {i \in DOMAIN s : s[i].kind = kind})

\* How far back the recent window reaches, moved to a boundary.
RecentStart(s, b, keep) ==
  LET n == Len(s)
      stepsBack(r) == /\ Size(s, r + 1, n) < keep /\ n - r < Max({1, TargetCount \div 4})
                      /\ r = n \/ Size(s, r, n) <= keep
      window == Min({r \in 0 .. n : \A q \in r + 1 .. n : stepsBack(q)})
  IN Max({x \in ToSet(b) : x <= window})

\* The messages no batch may contain.
Protected(s, recent) ==
  {i \in DOMAIN s : s[i].seed \/ i = LastOf(s, "user") \/ i = LastOf(s, "context") \/ i > recent}

\* The scan for a batch: the groups in order, from the last protected one on.
Scan(s, groups, protected) ==
  LET step(acc, g) ==
        LET begin == IF acc.start = -1 THEN g[1] ELSE acc.start
            total == acc.total + Size(s, g[1] + 1, g[2])
            fresh == acc.fresh \/ \E i \in g[1] + 1 .. g[2] : s[i].kind # "summary"
        IN CASE acc.stop -> acc
             [] (g[1] + 1 .. g[2]) \cap protected # {} ->
                  IF acc.range # <<>> THEN [acc EXCEPT !.stop = TRUE]
                  ELSE [acc EXCEPT !.start = -1, !.total = 0, !.fresh = FALSE]
             [] g[2] - begin > MaxMessages \/ total > InputLimit \/ ~Summarisable(total) ->
                  [acc EXCEPT !.stop = TRUE, !.oversized = IF acc.range = <<>> THEN g ELSE <<>>]
             [] OTHER -> [acc EXCEPT !.start = begin, !.total = total, !.fresh = fresh,
                                     !.range = IF fresh /\ total > MinSummary THEN <<begin + 1, g[2]>> ELSE @]
  IN FoldLeft(step, [start |-> -1, total |-> 0, fresh |-> FALSE, range |-> <<>>, oversized |-> <<>>, stop |-> FALSE],
              groups)

\* The tool result to prune, if any: the largest of the group that is in the
\* way, which is the one too large for a batch or the first large one.
PruneCap == Min({MaxInput \div 4, TargetInput \div 2} \cup (IF SummaryLimit # 0 THEN {SummaryLimit \div 4} ELSE {}))
Blocking(s, groups, oversized) ==
  LET large(g) == Size(s, g[1] + 1, g[2]) > TargetInput \div 2 /\ \A i \in g[1] + 1 .. g[2] : ~s[i].seed
  IN IF oversized # <<>> THEN <<oversized>> ELSE SelectSeq(groups, large)
ToPrune(s, blocking) ==
  {i \in DOMAIN s :
     /\ blocking # <<>> /\ i \in blocking[1][1] + 1 .. blocking[1][2]
     /\ s[i].kind = "result" /\ s[i].size > PruneCap
     /\ \A j \in blocking[1][1] + 1 .. blocking[1][2] :
          s[j].kind = "result" => s[j].size < s[i].size \/ (s[j].size = s[i].size /\ j <= i)}

Pressured(s, tokens) ==
  IF RequestLimit # 0 THEN tokens > RequestLimit ELSE Len(s) > TargetCount \/ Size(s, 1, Len(s)) > TargetInput

\* plan_from_surface, with range_slice and validate_tool_pairs.
PairsBalance(s, a, b) ==
  \A i \in DOMAIN s, j \in DOMAIN s :
    s[i].kind = "call" /\ s[j].kind = "result" /\ s[i].call = s[j].call => (i \in a .. b <=> j \in a .. b)
Plannable(s, a, b) ==
  /\ a <= b /\ b <= Len(s) /\ b - a < MaxMessages /\ Size(s, a, b) <= InputLimit
  /\ PairsBalance(s, a, b) /\ \A i \in a .. b : s[i].kind = "call" => s[i].call \notin Pending(s, Len(s))
Seqs(s) == [i \in DOMAIN s |-> s[i].seq]

-----------------------------------------------------------------------------
(* compact_for_request *)

Begin(c, trigger) ==
  /\ run[c].at = "idle" /\ ~token
  /\ IF lease THEN Goto(c, "busy") /\ UNCHANGED lease
     ELSE /\ lease' = TRUE
          /\ run' = [run EXCEPT ![c] = [NoRun EXCEPT
               !.at = "plan", !.trigger = trigger, !.steps = 2 * Len(surface) + 1,
               !.keep = Max({1, Min({TargetInput \div 4, Size(surface, 1, Len(surface)) \div 4})})]]
  /\ UNCHANGED <<surface, nextSeq, posted, open, token, posts>>

\* The end of a request; the lease is dropped with it.
Finish(c, at) ==
  /\ lease' = FALSE /\ run' = [run EXCEPT ![c] = [NoRun EXCEPT !.at = at, !.steps = run[c].steps]]

\* An iteration that goes on: a batch, else a result to prune, else the end.
Choose(c, s, range, prune, pressured) ==
  IF range # <<>>
  THEN IF Plannable(s, range[1], range[2]) /\ Summarisable(Size(s, range[1], range[2]))
       THEN /\ run' = [run EXCEPT ![c] = [@ EXCEPT !.at = "start", !.steps = @ - 1,
                 !.plan = [first |-> range[1], last |-> range[2], seqs |-> Seqs(s), total |-> Size(s, range[1], range[2])]]]
            /\ UNCHANGED lease
       ELSE Finish(c, "unplannable")
  ELSE IF prune = {} THEN Finish(c, IF ~pressured /\ run[c].trigger = "manual" THEN "done" ELSE "failed")
  ELSE \E i \in prune :
       IF s[i].text /\ Marker <= PruneCap
       THEN /\ run' = [run EXCEPT ![c] = [@ EXCEPT !.at = "prune", !.steps = @ - 1,
                 !.plan = [first |-> i, last |-> i, seqs |-> Seqs(s), total |-> s[i].size]]]
            /\ UNCHANGED lease
       ELSE Finish(c, "failed")

\* One iteration up to its first await.
Iterate(c) ==
  /\ run[c].at = "plan"
  /\ \E u \in IF run[c].outcome THEN {0} ELSE Usages :
     \E pressured \in {Pressured(surface, Max({u, Overhead + Size(surface, 1, Len(surface))}))} :
       IF token THEN Finish(c, "cancelled")
       ELSE IF run[c].steps = 0 THEN Finish(c, "exhausted")
       ELSE IF ~pressured /\ (run[c].trigger = "pressure" \/ run[c].outcome) THEN Finish(c, "done")
       ELSE \E b \in {Boundaries(surface)} :
            \E scan \in {Scan(surface, Groups(b), Protected(surface, RecentStart(surface, b, run[c].keep)))} :
              Choose(c, surface, scan.range, ToPrune(surface, Blocking(surface, Groups(b), scan.oversized)), pressured)
  /\ UNCHANGED <<surface, nextSeq, posted, open, token, posts>>

\* compaction/start.
AppendStart(c) ==
  /\ run[c].at = "start"
  /\ IF token THEN Finish(c, "cancelled") /\ UNCHANGED <<nextSeq, open>>
     ELSE /\ open' = open \cup {nextSeq} /\ nextSeq' = nextSeq + 1
          /\ run' = [run EXCEPT ![c] = [@ EXCEPT !.at = "ask", !.id = nextSeq]] /\ UNCHANGED lease
  /\ UNCHANGED <<surface, posted, token, posts>>

\* finish_error: the attempt goes on to its compaction/end.
Fails(c) == run' = [run EXCEPT ![c] = [@ EXCEPT !.at = "end", !.failed = TRUE]]

\* The model's answer: a summary within bounds, or an error, a cancellation,
\* another finish reason, or a summary that summary_blocks refuses.
Complete(c) ==
  /\ run[c].at = "ask"
  /\ \/ ~token /\ \E n \in Summaries : run' = [run EXCEPT ![c] = [@ EXCEPT !.at = "summary", !.size = n]]
     \/ Fails(c)
  /\ UNCHANGED <<surface, nextSeq, posted, open, lease, token, posts>>

\* compaction/summary, and the check that it is smaller than what it replaces.
AppendSummary(c) ==
  /\ run[c].at = "summary"
  /\ IF token THEN Fails(c) /\ UNCHANGED nextSeq
     ELSE /\ nextSeq' = nextSeq + 1
          /\ IF run[c].size >= run[c].plan.total THEN Fails(c) ELSE Goto(c, "replace")
  /\ UNCHANGED <<surface, posted, open, lease, token, posts>>

Spliced(m, plan) == SubSeq(surface, 1, plan.first - 1) \o <<m>> \o SubSeq(surface, plan.last + 1, Len(surface))

\* Session::append_under_gate with the surface it must find.
Unchanged(plan) == Seqs(surface) = plan.seqs

\* The replacement.
AppendReplacement(c) ==
  LET plan == run[c].plan
      m == [seq |-> nextSeq, kind |-> "summary", call |-> 0, size |-> run[c].size, seed |-> FALSE, text |-> TRUE]
  IN /\ run[c].at = "replace"
     /\ IF token \/ ~Unchanged(plan) THEN Fails(c) /\ UNCHANGED <<surface, nextSeq>>
        ELSE surface' = Spliced(m, plan) /\ nextSeq' = nextSeq + 1 /\ Goto(c, "end")
     /\ UNCHANGED <<posted, open, lease, token, posts>>

\* Mutant: the closing event is appended under the caller's token.
AppendEndCancellable(c) ==
  /\ run[c].at = "end"
  /\ IF token THEN Finish(c, "failed") /\ UNCHANGED <<open, nextSeq>>
     ELSE /\ open' = open \ {run[c].id} /\ nextSeq' = nextSeq + 1
          /\ IF run[c].failed THEN Finish(c, "failed")
             ELSE run' = [run EXCEPT ![c] = [@ EXCEPT !.at = "plan", !.outcome = TRUE]] /\ UNCHANGED lease
  /\ UNCHANGED <<surface, posted, token, posts>>

\* compaction/end, whatever the token says; another iteration follows a success.
AppendEnd(c) ==
  /\ run[c].at = "end"
  /\ \/ /\ open' = open \ {run[c].id} /\ nextSeq' = nextSeq + 1
        /\ IF run[c].failed THEN Finish(c, "failed")
           ELSE run' = [run EXCEPT ![c] = [@ EXCEPT !.at = "plan", !.outcome = TRUE]] /\ UNCHANGED lease
     \/ Faults /\ Finish(c, "unclosed") /\ UNCHANGED <<open, nextSeq>>
  /\ UNCHANGED <<surface, posted, token, posts>>

\* prune_tool_result_locked: the result's text is cut to the cap.
AppendPruned(c) ==
  LET plan == run[c].plan
      m == [surface[plan.first] EXCEPT !.seq = nextSeq, !.size = PruneCap]
  IN /\ run[c].at = "prune"
     /\ IF token \/ ~Unchanged(plan) THEN Finish(c, "failed") /\ UNCHANGED <<surface, nextSeq>>
        ELSE /\ surface' = Spliced(m, plan) /\ nextSeq' = nextSeq + 1
             /\ run' = [run EXCEPT ![c] = [@ EXCEPT !.at = "plan", !.outcome = TRUE]] /\ UNCHANGED lease
     /\ UNCHANGED <<posted, open, token, posts>>

\* The request that awaits a /compact is dropped: its lease goes with it, and
\* nothing closes an attempt it had started.
DropsRequest(c) ==
  /\ run[c].at \in {"start", "ask", "summary", "replace", "end", "prune"} /\ run[c].trigger = "manual"
  /\ lease' = FALSE /\ run' = [run EXCEPT ![c] = [NoRun EXCEPT !.at = "dropped", !.id = run[c].id]]
  /\ UNCHANGED <<surface, nextSeq, posted, open, token, posts>>

-----------------------------------------------------------------------------
\* Another writer of the session (a workflow) appends a message.
Post(m) ==
  /\ posts < MaxPosts /\ posts' = posts + 1
  /\ LET e == [seq |-> nextSeq] @@ m
     IN surface' = Append(surface, e) /\ posted' = posted \cup {e}
  /\ nextSeq' = nextSeq + 1
  /\ UNCHANGED <<open, lease, token, run>>

Cancel == /\ ~token /\ token' = TRUE
          /\ UNCHANGED <<surface, nextSeq, posted, open, lease, posts, run>>

Next ==
  \/ Cancel
  \/ \E m \in Posts : Post(m)
  \/ \E c \in Callers :
       \/ \E t \in Triggers : Begin(c, t)
       \/ Iterate(c) \/ AppendStart(c) \/ Complete(c) \/ AppendSummary(c) \/ AppendReplacement(c) \/ AppendEnd(c)
       \/ AppendPruned(c) \/ DropsRequest(c)

Spec == Init /\ [][Next]_vars

-----------------------------------------------------------------------------
Newest(kind) == {m \in posted : m.kind = kind /\ \A n \in posted : n.kind = kind => n.seq <= m.seq}
Active(c) == run[c].at \in {"plan", "start", "ask", "summary", "replace", "end", "prune"}

\* What the model is shown still makes sense: a tool result follows its call
\* and a call that was answered keeps its answer; the seed, the newest prompt
\* and the newest context message are there (compact_for_request's protection).
ContextSurvives ==
  /\ \A i \in DOMAIN surface :
       /\ surface[i].kind = "result" => \E j \in 1 .. i - 1 : surface[j].kind = "call" /\ surface[j].call = surface[i].call
       /\ surface[i].kind = "call" /\ (\E m \in posted : m.kind = "result" /\ m.call = surface[i].call) =>
            \E j \in i + 1 .. Len(surface) : surface[j].kind = "result" /\ surface[j].call = surface[i].call
  /\ LET kept == {m \in posted : m.seed} \cup Newest("user") \cup Newest("context")
     IN kept \subseteq ToSet(surface)

\* A batch the scan picks passes plan_from_surface, and an undisturbed request
\* ends before its bound of steps (the two algorithms and max_steps agree).
PlansAreSound ==
  \A c \in Callers : run[c].at # "unplannable" /\ (posts = 0 => run[c].at # "exhausted")

\* Only two things leave a compaction/start without its end once its attempt
\* is over: the session refusing the closing event, and the drop of the request
\* that awaited a /compact, which leaves one at most.  Neither keeps the next
\* attempt out: the lease is held while one is under way, and one is at a time.
AttemptsClose ==
  /\ ~Faults => \A id \in open : \E c \in Callers : (Active(c) \/ run[c].at = "dropped") /\ run[c].id = id
  /\ Cardinality({c \in Callers : Active(c)}) <= 1 /\ (lease <=> \E c \in Callers : Active(c))
=============================================================================
