----------------------------- MODULE MCServices -----------------------------
(***************************************************************************)
(* The service modules in one run of TLC.  A behaviour is one module's:    *)
(* Init picks the module (`part') and the instance of it (`focus'), whose  *)
(* variables are stored in the slots s1, s2, ... that all instances share; *)
(* slots it does not need stay 0.  Each property is its module's, of the   *)
(* behaviours of that module.                                              *)
(***************************************************************************)
EXTENDS Integers, Sequences, FiniteSets

CONSTANTS a1, a2, q1, p1, d1, d2, j1, j2, o1, c1, k1, k2, r1, r2, c2, g1, g2,
          p2, i1, i2, e1, e2, p3, m1, m2, m3

VARIABLES part, focus, s1, s2, s3, s4, s5, s6, s7, s8, s9, s10, s11, s12, s13,
          s14, s15, s16, s17

Ask == INSTANCE Interaction WITH
  Approvals <- {a1, a2}, Questions <- {q1}, Policies <- {p1},
  CallSets <- {{a1, a2}, {a1, q1}, {a1, p1}, {a1}, {q1}}, Stopped <- {{a1, p1}, {a1}, {q1}},
  MaxPending <- 1,
  log <- s1, relayed <- s2, token <- s3, agent <- s4, slot <- s5, stop <- s6,
  policy <- s7, gate <- s8, pc <- s9, seqRead <- s10, out <- s11,
  entry <- s12, sender <- s13, receipt <- s14, expired <- s15, known <- s16,
  shown <- s17

Store == INSTANCE SessionStore WITH
  Formats <- {"raw", "zstd"}, MaxAppends <- 4, MaxRestarts <- 2,
  format <- s1, exists <- s2, file <- s3, cut <- s4, resident <- s5,
  mem <- s6, acked <- s7, tried <- s8, restarts <- s9

Goals == INSTANCE Goal WITH
  Goals <- {1, 2}, Caps <- {2}, Drivers <- {d1, d2}, MaxChanges <- 2, MaxPrompts <- 1,
  MaxRestarts <- 1,
  log <- s1, view <- s2, at <- s3, held <- s4, durable <- s5, inbox <- s6,
  busy <- s7, turn <- s8, stopped <- s9, prompts <- s10, restarts <- s11,
  resumed <- s12

Sched == INSTANCE Schedule WITH
  Reminders <- {1, 2}, Kind <- [r \in {1, 2} |-> IF r = 1 THEN "once" ELSE "every"],
  Interval <- 2, Owners <- {1, 2}, MaxTime <- 2, MaxFaults <- 1,
  clock <- s1, log <- s2, live <- s3, busy <- s4, next <- s5, timer <- s6,
  drive <- s7, sent <- s8, faults <- s9, broken <- s10

SchedAll == INSTANCE Schedule WITH
  Reminders <- {1, 2}, Kind <- [r \in {1, 2} |-> "every"],
  Interval <- 2, Owners <- {1, 2}, MaxTime <- 2, MaxFaults <- 0,
  clock <- s1, log <- s2, live <- s3, busy <- s4, next <- s5, timer <- s6,
  drive <- s7, sent <- s8, faults <- s9, broken <- s10

Job == INSTANCE Jobs WITH
  Owners <- {o1}, JobIds <- {j1, j2}, Settlements <- {"completed"}, Reentrant <- {},
  Callers <- {c1}, MaxGen <- 2, MaxWakes <- 0,
  owner <- s1, registry <- s2, mapped <- s3, job <- s4, call <- s5,
  notice <- s6, busy <- s7, wakeups <- s8

JobHook == INSTANCE Jobs WITH
  Owners <- {o1}, JobIds <- {j1}, Settlements <- {"completed"}, Reentrant <- {j1},
  Callers <- {c1}, MaxGen <- 2, MaxWakes <- 1,
  owner <- s1, registry <- s2, mapped <- s3, job <- s4, call <- s5,
  notice <- s6, busy <- s7, wakeups <- s8

Sub == INSTANCE Subagent WITH
  Children <- {k1, k2}, Prompts <- {}, Legacy <- {0, 1}, MaxLive <- 1, MaxCreations <- 2,
  MaxFaults <- 1,
  parent <- s1, cl <- s2, counts <- s3, ledger <- s4, start <- s5,
  agent <- s6, slots <- s7, log <- s8, op <- s9, rpc <- s10, owner <- s11,
  faults <- s12

SubCap == INSTANCE Subagent WITH
  Children <- {k1, k2}, Prompts <- {}, Legacy <- {0}, MaxLive <- 2, MaxCreations <- 1,
  MaxFaults <- 0,
  parent <- s1, cl <- s2, counts <- s3, ledger <- s4, start <- s5,
  agent <- s6, slots <- s7, log <- s8, op <- s9, rpc <- s10, owner <- s11,
  faults <- s12

SubRpc == INSTANCE Subagent WITH
  Children <- {k1}, Prompts <- {r1, r2}, Legacy <- {0}, MaxLive <- 1, MaxCreations <- 1,
  MaxFaults <- 0,
  parent <- s1, cl <- s2, counts <- s3, ledger <- s4, start <- s5,
  agent <- s6, slots <- s7, log <- s8, op <- s9, rpc <- s10, owner <- s11,
  faults <- s12

Brg == INSTANCE Bridge WITH
  Gens <- {g1}, Calls <- {c1, c2}, Kinds <- {"plain"}, Ids <- {1, 2}, Regs <- {r1},
  Keys <- {}, MaxTimers <- 1, MaxRoutes <- 1, MaxSubs <- 1, MaxPermits <- 1,
  gens <- s1, gs <- s2, routes <- s3, call <- s4, task <- s5, installed <- s6,
  asked <- s7, lost <- s8

BrgPkg == INSTANCE Bridge WITH
  Gens <- {g1}, Calls <- {c1, c2}, Kinds <- {"pnpm"}, Ids <- {1, 2}, Regs <- {r1},
  Keys <- {}, MaxTimers <- 1, MaxRoutes <- 1, MaxSubs <- 1, MaxPermits <- 1,
  gens <- s1, gs <- s2, routes <- s3, call <- s4, task <- s5, installed <- s6,
  asked <- s7, lost <- s8

BrgRes == INSTANCE Bridge WITH
  Gens <- {g1}, Calls <- {c1, c2}, Kinds <- {"subscribe", "register"}, Ids <- {1},
  Regs <- {r1}, Keys <- {}, MaxTimers <- 1, MaxRoutes <- 1, MaxSubs <- 1, MaxPermits <- 1,
  gens <- s1, gs <- s2, routes <- s3, call <- s4, task <- s5, installed <- s6,
  asked <- s7, lost <- s8

BrgTime == INSTANCE Bridge WITH
  Gens <- {g1}, Calls <- {c1, c2}, Kinds <- {"timer"}, Ids <- {1},
  Regs <- {r1}, Keys <- {}, MaxTimers <- 1, MaxRoutes <- 1, MaxSubs <- 1, MaxPermits <- 1,
  gens <- s1, gs <- s2, routes <- s3, call <- s4, task <- s5, installed <- s6,
  asked <- s7, lost <- s8

BrgWeb == INSTANCE Bridge WITH
  Gens <- {g1, g2}, Calls <- {}, Kinds <- {"plain"}, Ids <- {1}, Regs <- {r1},
  Keys <- {k1, k2}, MaxTimers <- 1, MaxRoutes <- 2, MaxSubs <- 1, MaxPermits <- 1,
  gens <- s1, gs <- s2, routes <- s3, call <- s4, task <- s5, installed <- s6,
  asked <- s7, lost <- s8

LegProf == INSTANCE LegacyProfile WITH
  Starters <- {p1}, MaxGen <- 3,
  life <- s1, proc <- s2, attached <- s3, hooked <- s4, lost <- s5,
  handler <- s6, start <- s7, stop <- s8, last <- s9

Wasm == INSTANCE WasmPolicy WITH
  Instances <- {i1, i2}, Callers <- {c1, c2}, Packages <- {p1, p2}, Entries <- {e1, e2},
  gate <- s1, staged <- s2, inst <- s3, policies <- s4, owners <- s5,
  entry <- s6, lease <- s7

WchSse == INSTANCE Watch WITH
  Sse <- {c1}, Mux <- {}, Sockets <- {}, Approvals <- {}, Questions <- {}, MaxEvents <- 2,
  SessionCap <- 1, NoticeCap <- 2, AskCap <- 3, MaxConnects <- 2, AppendFaults <- FALSE,
  log <- s1, sent <- s2, resident <- s3, relay <- s4, ask <- s5,
  askQueue <- s6, askRelay <- s7, client <- s8, closing <- s9

WchSock == INSTANCE Watch WITH
  Sse <- {}, Mux <- {}, Sockets <- {c1}, Approvals <- {}, Questions <- {}, MaxEvents <- 3,
  SessionCap <- 1, NoticeCap <- 2, AskCap <- 3, MaxConnects <- 2, AppendFaults <- FALSE,
  log <- s1, sent <- s2, resident <- s3, relay <- s4, ask <- s5,
  askQueue <- s6, askRelay <- s7, client <- s8, closing <- s9

WchMux == INSTANCE Watch WITH
  Sse <- {}, Mux <- {c1}, Sockets <- {}, Approvals <- {a1}, Questions <- {q1}, MaxEvents <- 0,
  SessionCap <- 1, NoticeCap <- 2, AskCap <- 3, MaxConnects <- 1, AppendFaults <- TRUE,
  log <- s1, sent <- s2, resident <- s3, relay <- s4, ask <- s5,
  askQueue <- s6, askRelay <- s7, client <- s8, closing <- s9

Prof == INSTANCE PluginProfile WITH
  Market <- m1, Legacy <- m2, Retired <- m3, Bundled <- {k1, k2, e1, m1, m2, m3}, Broken <- {e1},
  MaxOps <- 1, MaxCrashes <- 0,
  Procs <- {p1, p2},
  Ops <- {[kind |-> "add", pkg |-> k2],
    [kind |-> "add", pkg |-> e1],
    [kind |-> "remove", pkg |-> k1],
    [kind |-> "install", pkg |-> k1],
    [kind |-> "load", pkg |-> k1]},
  Initial <- {[exists |-> FALSE, deps |-> {}, recorded |-> FALSE, bundles |-> <<>>],
    [exists |-> TRUE, deps |-> {k1}, recorded |-> TRUE, bundles |-> <<k1>>],
    [exists |-> TRUE, deps |-> {k1}, recorded |-> FALSE, bundles |-> <<>>]},
  lockOwner <- s1, stale <- s2, manifest <- s3, lockfile <- s4, modules <- s5,
  proc <- s6, crashes <- s7

ProfDrop == INSTANCE PluginProfile WITH
  Market <- m1, Legacy <- m2, Retired <- m3, Bundled <- {k1, k2, e1, m1, m2, m3}, Broken <- {e1},
  MaxOps <- 1, MaxCrashes <- 1,
  Procs <- {p1, p2},
  Ops <- {[kind |-> "add", pkg |-> k2],
    [kind |-> "load", pkg |-> k1]},
  Initial <- {[exists |-> TRUE, deps |-> {k1}, recorded |-> TRUE, bundles |-> <<k1>>]},
  lockOwner <- s1, stale <- s2, manifest <- s3, lockfile <- s4, modules <- s5,
  proc <- s6, crashes <- s7

ProfMarket == INSTANCE PluginProfile WITH
  Market <- m1, Legacy <- m2, Retired <- m3, Bundled <- {k1, k2, e1, m1, m2, m3}, Broken <- {e1},
  MaxOps <- 1, MaxCrashes <- 1,
  Procs <- {p1},
  Ops <- {[kind |-> "market", pkg |-> m1]},
  Initial <- {[exists |-> FALSE, deps |-> {}, recorded |-> FALSE, bundles |-> <<>>],
    [exists |-> TRUE, deps |-> {k1, m2}, recorded |-> TRUE, bundles |-> <<m2, k1>>],
    [exists |-> TRUE, deps |-> {m2}, recorded |-> FALSE, bundles |-> <<>>],
    [exists |-> TRUE, deps |-> {m2, m1}, recorded |-> TRUE, bundles |-> <<m2, m1>>],
    [exists |-> TRUE, deps |-> {k1, m3}, recorded |-> TRUE, bundles |-> <<m3, k1>>],
    [exists |-> TRUE, deps |-> {m1}, recorded |-> TRUE, bundles |-> <<m1>>],
    [exists |-> TRUE, deps |-> {m3}, recorded |-> FALSE, bundles |-> <<>>]},
  lockOwner <- s1, stale <- s2, manifest <- s3, lockfile <- s4, modules <- s5,
  proc <- s6, crashes <- s7

ProfLock == INSTANCE PluginProfile WITH
  Market <- m1, Legacy <- m2, Retired <- m3, Bundled <- {k1, k2, e1, m1, m2, m3}, Broken <- {e1},
  MaxOps <- 1, MaxCrashes <- 1,
  Procs <- {p1, p2, p3},
  Ops <- {[kind |-> "load", pkg |-> k1]},
  Initial <- {[exists |-> TRUE, deps |-> {k1}, recorded |-> TRUE, bundles |-> <<k1>>]},
  lockOwner <- s1, stale <- s2, manifest <- s3, lockfile <- s4, modules <- s5,
  proc <- s6, crashes <- s7

Cpt == INSTANCE Compaction WITH
  Surfaces <- {
    <<[kind |-> "user", call |-> 0, size |-> 2, seed |-> TRUE, text |-> TRUE],
      [kind |-> "user", call |-> 0, size |-> 2, seed |-> FALSE, text |-> TRUE],
      [kind |-> "reply", call |-> 0, size |-> 2, seed |-> FALSE, text |-> TRUE],
      [kind |-> "call", call |-> 1, size |-> 1, seed |-> FALSE, text |-> TRUE],
      [kind |-> "result", call |-> 1, size |-> 8, seed |-> FALSE, text |-> TRUE],
      [kind |-> "user", call |-> 0, size |-> 1, seed |-> FALSE, text |-> TRUE]>>,
    <<[kind |-> "user", call |-> 0, size |-> 2, seed |-> FALSE, text |-> TRUE],
      [kind |-> "call", call |-> 1, size |-> 1, seed |-> FALSE, text |-> TRUE],
      [kind |-> "call", call |-> 2, size |-> 1, seed |-> FALSE, text |-> TRUE],
      [kind |-> "result", call |-> 2, size |-> 2, seed |-> FALSE, text |-> TRUE],
      [kind |-> "result", call |-> 1, size |-> 2, seed |-> FALSE, text |-> TRUE],
      [kind |-> "context", call |-> 0, size |-> 1, seed |-> FALSE, text |-> TRUE],
      [kind |-> "reply", call |-> 0, size |-> 1, seed |-> FALSE, text |-> TRUE],
      [kind |-> "user", call |-> 0, size |-> 1, seed |-> FALSE, text |-> TRUE],
      [kind |-> "call", call |-> 3, size |-> 1, seed |-> FALSE, text |-> TRUE]>>},
  Posts <- {[kind |-> "reply", call |-> 0, size |-> 1, seed |-> FALSE, text |-> TRUE],
    [kind |-> "user", call |-> 0, size |-> 1, seed |-> FALSE, text |-> TRUE]},
  MaxPosts <- 1, MaxMessages <- 4, MaxInput <- 12, Overhead <- 1, MinSummary <- 1, Marker <- 1,
  Callers <- {c1, c2}, Triggers <- {"manual", "overflow"}, RequestLimit <- 0, SummaryLimit <- 0,
  Usages <- {0}, Summaries <- {1}, Faults <- FALSE,
  surface <- s1, nextSeq <- s2, posted <- s3, open <- s4, lease <- s5,
  token <- s6, posts <- s7, run <- s8

CptLim == INSTANCE Compaction WITH
  Surfaces <- {
    <<[kind |-> "user", call |-> 0, size |-> 2, seed |-> TRUE, text |-> TRUE],
      [kind |-> "user", call |-> 0, size |-> 2, seed |-> FALSE, text |-> TRUE],
      [kind |-> "reply", call |-> 0, size |-> 2, seed |-> FALSE, text |-> TRUE],
      [kind |-> "call", call |-> 1, size |-> 1, seed |-> FALSE, text |-> TRUE],
      [kind |-> "result", call |-> 1, size |-> 8, seed |-> FALSE, text |-> TRUE],
      [kind |-> "user", call |-> 0, size |-> 1, seed |-> FALSE, text |-> TRUE]>>,
    <<[kind |-> "user", call |-> 0, size |-> 2, seed |-> FALSE, text |-> TRUE],
      [kind |-> "call", call |-> 1, size |-> 1, seed |-> FALSE, text |-> TRUE],
      [kind |-> "call", call |-> 2, size |-> 1, seed |-> FALSE, text |-> TRUE],
      [kind |-> "result", call |-> 2, size |-> 2, seed |-> FALSE, text |-> TRUE],
      [kind |-> "result", call |-> 1, size |-> 2, seed |-> FALSE, text |-> TRUE],
      [kind |-> "context", call |-> 0, size |-> 1, seed |-> FALSE, text |-> TRUE],
      [kind |-> "reply", call |-> 0, size |-> 1, seed |-> FALSE, text |-> TRUE],
      [kind |-> "user", call |-> 0, size |-> 1, seed |-> FALSE, text |-> TRUE],
      [kind |-> "call", call |-> 3, size |-> 1, seed |-> FALSE, text |-> TRUE]>>,
    <<[kind |-> "context", call |-> 0, size |-> 1, seed |-> FALSE, text |-> TRUE],
      [kind |-> "user", call |-> 0, size |-> 3, seed |-> FALSE, text |-> TRUE],
      [kind |-> "reply", call |-> 0, size |-> 3, seed |-> FALSE, text |-> TRUE],
      [kind |-> "user", call |-> 0, size |-> 3, seed |-> FALSE, text |-> TRUE],
      [kind |-> "reply", call |-> 0, size |-> 3, seed |-> FALSE, text |-> TRUE],
      [kind |-> "call", call |-> 1, size |-> 1, seed |-> FALSE, text |-> TRUE],
      [kind |-> "result", call |-> 1, size |-> 2, seed |-> FALSE, text |-> TRUE]>>},
  Posts <- {[kind |-> "reply", call |-> 0, size |-> 1, seed |-> FALSE, text |-> TRUE],
    [kind |-> "user", call |-> 0, size |-> 1, seed |-> FALSE, text |-> TRUE]},
  MaxPosts <- 1, MaxMessages <- 4, MaxInput <- 12, Overhead <- 1, MinSummary <- 1, Marker <- 1,
  Callers <- {c1}, Triggers <- {"manual", "pressure", "overflow"}, RequestLimit <- 6,
  SummaryLimit <- 4, Usages <- {0, 20}, Summaries <- {1, 3}, Faults <- TRUE,
  surface <- s1, nextSeq <- s2, posted <- s3, open <- s4, lease <- s5,
  token <- s6, posts <- s7, run <- s8

Wfl == INSTANCE Workflow WITH
  Scripts <- {<<[is |-> "phase", name |-> "p"], [is |-> "const", name |-> "a"],
      [is |-> "const", name |-> "b"], [is |-> "return", names |-> <<"b", "a">>]>>,
    <<[is |-> "const", name |-> "a"], [is |-> "return", names |-> <<"a">>]>>,
    <<[is |-> "const", name |-> "a"], [is |-> "const", name |-> "a"],
      [is |-> "return", names |-> <<"a">>]>>},
  Recordings <- {<<>>}, Extra <- {}, MaxAgents <- 2, MaxRuns <- 1, MaxOther <- 1, Faults <- TRUE,
  queue <- s1, run <- s2, task <- s3, adm <- s4, cleanup <- s5, record <- s6,
  child <- s7, log <- s8, other <- s9, caller <- s10, value <- s11

WflRec == INSTANCE Workflow WITH
  Scripts <- {<<[is |-> "phase", name |-> "p"], [is |-> "const", name |-> "a"],
      [is |-> "const", name |-> "b"], [is |-> "return", names |-> <<"b", "a">>]>>,
    <<[is |-> "const", name |-> "a"], [is |-> "return", names |-> <<"a">>]>>,
    <<[is |-> "const", name |-> "a"], [is |-> "const", name |-> "a"],
      [is |-> "return", names |-> <<"a">>]>>},
  Recordings <- {<<<<[is |-> "call", id |-> 1], [is |-> "call", id |-> 2],
      [is |-> "result", id |-> 2, success |-> TRUE, value |-> [a |-> 1, b |-> 2]],
      [is |-> "result", id |-> 1, success |-> TRUE, value |-> [a |-> 3]]>>>>,
    <<<<[is |-> "call", id |-> 1], [is |-> "result", id |-> 1, success |-> TRUE, value |-> [a |-> 1]]>>>>},
  Extra <- {}, MaxAgents <- 2, MaxRuns <- 2, MaxOther <- 0, Faults <- FALSE,
  queue <- s1, run <- s2, task <- s3, adm <- s4, cleanup <- s5, record <- s6,
  child <- s7, log <- s8, other <- s9, caller <- s10, value <- s11

WflLate == INSTANCE Workflow WITH
  Scripts <- {<<[is |-> "phase", name |-> "p"], [is |-> "const", name |-> "a"],
      [is |-> "const", name |-> "b"], [is |-> "return", names |-> <<"b", "a">>]>>,
    <<[is |-> "const", name |-> "a"], [is |-> "return", names |-> <<"a">>]>>,
    <<[is |-> "const", name |-> "a"], [is |-> "const", name |-> "a"],
      [is |-> "return", names |-> <<"a">>]>>},
  Recordings <- {<<>>}, Extra <- {e1}, MaxAgents <- 2, MaxRuns <- 1, MaxOther <- 0, Faults <- FALSE,
  queue <- s1, run <- s2, task <- s3, adm <- s4, cleanup <- s5, record <- s6,
  child <- s7, log <- s8, other <- s9, caller <- s10, value <- s11

Shl == INSTANCE ShellSession WITH
  Callers <- {c1, c2}, Modes <- {"ws"}, Disablers <- {}, Retirers <- {}, MaxShells <- 1, MaxEntries <- 1,
  Background <- FALSE, Ends <- {"cancel", "timeout", "stale"}, Stubborn <- FALSE,
  cur <- s1, entry <- s2, shell <- s3, task <- s4, cmd <- s5

ShlDis == INSTANCE ShellSession WITH
  Callers <- {c1}, Modes <- {"ws"}, Disablers <- {d1}, Retirers <- {d2}, MaxShells <- 1, MaxEntries <- 1,
  Background <- TRUE, Ends <- {}, Stubborn <- TRUE,
  cur <- s1, entry <- s2, shell <- s3, task <- s4, cmd <- s5

ShlOn == INSTANCE ShellSession WITH
  Callers <- {c1}, Modes <- {"ws"}, Disablers <- {d1}, Retirers <- {}, MaxShells <- 1, MaxEntries <- 2,
  Background <- FALSE, Ends <- {"exit"}, Stubborn <- FALSE,
  cur <- s1, entry <- s2, shell <- s3, task <- s4, cmd <- s5

ShlTwo == INSTANCE ShellSession WITH
  Callers <- {c1, c2}, Modes <- {"ws", "full"}, Disablers <- {}, Retirers <- {}, MaxShells <- 2, MaxEntries <- 1,
  Background <- FALSE, Ends <- {"stale"}, Stubborn <- FALSE,
  cur <- s1, entry <- s2, shell <- s3, task <- s4, cmd <- s5

Sbp == INSTANCE Subprocess WITH
  Procs <- {p1, p2}, Pids <- {1}, Causes <- {"Terminated"}, Spills <- {"none"}, TailBytes <- 1, MaxBytes <- 0,
  Relatives <- {}, Faults <- FALSE, Shells <- {}, MaxOutput <- 2, MaxGen <- 1,
  proc <- s1, children <- s2, stop <- s3, down <- s4, sh <- s5, gen <- s6,
  limit <- s7

SbpOut == INSTANCE Subprocess WITH
  Procs <- {p1}, Pids <- {1}, Causes <- {"TimedOut"}, Spills <- {"file", "refused"},
  TailBytes <- 1, MaxBytes <- 2, Relatives <- {"quiet", "escaped"}, Faults <- TRUE, Shells <- {}, MaxOutput <- 2, MaxGen <- 1,
  proc <- s1, children <- s2, stop <- s3, down <- s4, sh <- s5, gen <- s6,
  limit <- s7

SbpSh == INSTANCE Subprocess WITH
  Procs <- {}, Pids <- {1}, Causes <- {}, Spills <- {"none"}, TailBytes <- 1, MaxBytes <- 4,
  Relatives <- {"group"}, Faults <- FALSE, Shells <- {c1}, MaxOutput <- 2, MaxGen <- 2,
  proc <- s1, children <- s2, stop <- s3, down <- s4, sh <- s5, gen <- s6,
  limit <- s7

Rsp == INSTANCE ProviderStream WITH
  Api <- "responses", Keys <- {0, 1}, Types <- {"text", "tool-call", "other"}, Deltas <- {<<"x">>},
  Finals <- {<<"x">>, <<"x", "x">>}, MaxEvents <- 4, MaxIndex <- 3,
  st <- s1, asm <- s2, seen <- s3, at <- s4

RspRsn == INSTANCE ProviderStream WITH
  Api <- "responses", Keys <- {0}, Types <- {"reasoning"}, Deltas <- {<<>>, <<"x">>},
  Finals <- {<<"x">>, <<"x", "sep", "x">>}, MaxEvents <- 5, MaxIndex <- 3,
  st <- s1, asm <- s2, seen <- s3, at <- s4

Cht == INSTANCE ProviderStream WITH
  Api <- "chat", Keys <- {0, 1, 2, 3}, Types <- {"text"}, Deltas <- {<<>>, <<"x">>},
  Finals <- {<<"x">>}, MaxEvents <- 5, MaxIndex <- 3,
  st <- s1, asm <- s2, seen <- s3, at <- s4

Ant == INSTANCE ProviderStream WITH
  Api <- "anthropic", Keys <- {0, 1}, Types <- {"text", "reasoning", "tool-call", "other"},
  Deltas <- {<<"x">>}, Finals <- {<<>>, <<"x">>}, MaxEvents <- 5, MaxIndex <- 1,
  st <- s1, asm <- s2, seen <- s3, at <- s4

Rpl == INSTANCE Replay WITH
  Form <- "scripts", Logs <- {1, 2, 3}, Sessions <- {1}, Overrides <- {[is |-> "none"]},
  MaxChunks <- 2, MaxKeys <- 2, MaxResets <- 0,
  log <- s1, sent <- s2, n <- s3, plan <- s4, cursors <- s5, claimed <- s6,
  stream <- s7

RplTwo == INSTANCE Replay WITH
  Form <- "scripts", Logs <- {1, 2}, Sessions <- {1, 2}, Overrides <- {[is |-> "none"]},
  MaxChunks <- 2, MaxKeys <- 2, MaxResets <- 0,
  log <- s1, sent <- s2, n <- s3, plan <- s4, cursors <- s5, claimed <- s6,
  stream <- s7

RplOvr == INSTANCE Replay WITH
  Form <- "scripts", Logs <- {1}, Sessions <- {1}, Overrides <- {[is |-> "none"],
    [is |-> "replace", entries |-> <<[kind |-> "hang", chunks |-> <<>>, ready |-> TRUE, from |-> FALSE]>>],
    [is |-> "patches", patches |-> <<[at |-> 1, entry |-> [kind |-> "throw",
         chunks |-> <<[is |-> "delta", id |-> 0]>>, ready |-> FALSE, from |-> TRUE]],
       [at |-> 0, entry |-> [kind |-> "chunks", chunks |-> <<[is |-> "delta", id |-> 0]>>,
         ready |-> FALSE, from |-> FALSE]]>>],
    [is |-> "patches", patches |-> <<[at |-> 0, entry |-> [kind |-> "throw",
         chunks |-> <<[is |-> "delta", id |-> 0]>>, ready |-> FALSE, from |-> TRUE]],
       [at |-> 1, entry |-> [kind |-> "hang", chunks |-> <<[is |-> "delta", id |-> 0]>>,
         ready |-> TRUE, from |-> FALSE]]>>]},
  MaxChunks <- 3, MaxKeys <- 2, MaxResets <- 1,
  log <- s1, sent <- s2, n <- s3, plan <- s4, cursors <- s5, claimed <- s6,
  stream <- s7

RplRaw == INSTANCE Replay WITH
  Form <- "routes", Logs <- {1, 2}, Sessions <- {1, 2}, Overrides <- {[is |-> "none"]},
  MaxChunks <- 3, MaxKeys <- 2, MaxResets <- 0,
  log <- s1, sent <- s2, n <- s3, plan <- s4, cursors <- s5, claimed <- s6,
  stream <- s7

Sse == INSTANCE Framing WITH
  Codec <- "sse", Alphabet <- {"d", "r", "n"}, Length <- 6, Limit <- 5,
  input <- s1, at <- s2, buffer <- s3, out <- s4, err <- s5, ended <- s6

Frm == INSTANCE Framing WITH
  Codec <- "shell", Alphabet <- {"p", "q", "m", "s"}, Length <- 5, Limit <- 5,
  input <- s1, at <- s2, buffer <- s3, out <- s4, err <- s5, ended <- s6

B64 == INSTANCE Framing WITH
  Codec <- "base64", Alphabet <- {0, 1, 16, 63, 64, 65, 255}, Length <- 4, Limit <- 3,
  input <- s1, at <- s2, buffer <- s3, out <- s4, err <- s5, ended <- s6

Req == INSTANCE ProviderRequest WITH
  Tools <- {<<"a", ".">>, <<"b", "-">>}, MaxMessages <- 3,
  Inputs <- {[type |-> "text", text |-> "t"], [type |-> "image"]},
  Replies <- {<<[type |-> "reasoning"], [type |-> "text", text |-> "u"],
      [type |-> "call", id |-> 1, name |-> <<"a", ".">>, args |-> "json"]>>,
    <<[type |-> "call", id |-> 2, name |-> <<"b", "-">>, args |-> "json"],
      [type |-> "call", id |-> 3, name |-> <<"a", "/">>, args |-> "json"]>>,
    <<[type |-> "call", id |-> 4, name |-> <<"b", "-">>, args |-> "cut"]>>,
    <<[type |-> "text", text |-> "v"]>>},
  conv <- s1

Set == INSTANCE Settings WITH
  Tasks <- {c1, c2}, Namespaces <- {k1, k2}, Defaults <- <<"o", <<>>>>, Invalid <- {}, Secrets <- <<>>,
  Changes <- {<<[is |-> "set", path |-> <<>>, value |-> <<"o", [a |-> <<"s", "x">>]>>]>>,
    <<[is |-> "set", path |-> <<>>, value |-> <<"o", [a |-> <<"s", "y">>]>>]>>}, Edits <- {},
  Kinds <- {"register", "commit", "get"}, MaxOps <- 2, MaxEdits <- 0, MaxCrashes <- 0,
  file <- s1, lastGood <- s2, states <- s3, namespaces <- s4, regGate <- s5,
  writeGate <- s6, closed <- s7, task <- s8, truth <- s9, unseen <- s10,
  strays <- s11, lost <- s12, crashes <- s13, edits <- s14

SetEdit == INSTANCE Settings WITH
  Tasks <- {c1, c2}, Namespaces <- {k1, k2}, Defaults <- <<"o", <<>>>>, Invalid <- {}, Secrets <- <<>>,
  Changes <- {<<[is |-> "set", path |-> <<>>, value |-> <<"o", [a |-> <<"s", "x">>]>>]>>},
  Edits <- {<<"o", [a |-> <<"s", "y">>]>>},
  Kinds <- {"register", "commit", "reload", "load", "faults"}, MaxOps <- 2, MaxEdits <- 1, MaxCrashes <- 0,
  file <- s1, lastGood <- s2, states <- s3, namespaces <- s4, regGate <- s5,
  writeGate <- s6, closed <- s7, task <- s8, truth <- s9, unseen <- s10,
  strays <- s11, lost <- s12, crashes <- s13, edits <- s14

SetCrash == INSTANCE Settings WITH
  Tasks <- {c1, c2}, Namespaces <- {k1}, Defaults <- <<"o", <<>>>>, Invalid <- {}, Secrets <- <<>>,
  Changes <- {<<[is |-> "set", path |-> <<>>, value |-> <<"o", [a |-> <<"s", "x">>]>>]>>},
  Edits <- {<<"o", [a |-> <<"s", "y">>]>>},
  Kinds <- {"register", "commit", "reload", "load", "faults"}, MaxOps <- 2, MaxEdits <- 1, MaxCrashes <- 1,
  file <- s1, lastGood <- s2, states <- s3, namespaces <- s4, regGate <- s5,
  writeGate <- s6, closed <- s7, task <- s8, truth <- s9, unseen <- s10,
  strays <- s11, lost <- s12, crashes <- s13, edits <- s14

SetReg == INSTANCE Settings WITH
  Tasks <- {c1, c2}, Namespaces <- {k1}, Defaults <- <<"o", <<>>>>, Invalid <- {}, Secrets <- <<>>,
  Changes <- {<<[is |-> "set", path |-> <<>>, value |-> <<"o", [a |-> <<"s", "x">>]>>]>>}, Edits <- {},
  Kinds <- {"register", "commit", "unregister", "persist", "reload", "shutdown"}, MaxOps <- 3, MaxEdits <- 0, MaxCrashes <- 0,
  file <- s1, lastGood <- s2, states <- s3, namespaces <- s4, regGate <- s5,
  writeGate <- s6, closed <- s7, task <- s8, truth <- s9, unseen <- s10,
  strays <- s11, lost <- s12, crashes <- s13, edits <- s14

SetLeft == INSTANCE Settings WITH
  Tasks <- {c1, c2}, Namespaces <- {k1}, Defaults <- <<"o", <<>>>>, Invalid <- {}, Secrets <- <<>>,
  Changes <- {<<[is |-> "set", path |-> <<>>, value |-> <<"o", [a |-> <<"s", "x">>]>>]>>}, Edits <- {},
  Kinds <- {"register", "commit", "unregister", "persist", "reload", "shutdown", "drops"}, MaxOps <- 2, MaxEdits <- 0, MaxCrashes <- 0,
  file <- s1, lastGood <- s2, states <- s3, namespaces <- s4, regGate <- s5,
  writeGate <- s6, closed <- s7, task <- s8, truth <- s9, unseen <- s10,
  strays <- s11, lost <- s12, crashes <- s13, edits <- s14

SetDrop == INSTANCE Settings WITH
  Tasks <- {c1, c2}, Namespaces <- {k1, k2}, Defaults <- <<"o", <<>>>>, Invalid <- {}, Secrets <- <<>>,
  Changes <- {<<[is |-> "set", path |-> <<>>, value |-> <<"o", [a |-> <<"s", "x">>]>>]>>,
    <<[is |-> "set", path |-> <<>>, value |-> <<"o", [a |-> <<"s", "y">>]>>]>>}, Edits <- {},
  Kinds <- {"register", "commit", "reload", "drops"}, MaxOps <- 2, MaxEdits <- 0, MaxCrashes <- 0,
  file <- s1, lastGood <- s2, states <- s3, namespaces <- s4, regGate <- s5,
  writeGate <- s6, closed <- s7, task <- s8, truth <- s9, unseen <- s10,
  strays <- s11, lost <- s12, crashes <- s13, edits <- s14

SetPath == INSTANCE Settings WITH
  Tasks <- {c1}, Namespaces <- {k1},
  Defaults <- <<"o", [a |-> <<"s", "d">>, b |-> <<"o", [s |-> <<"s", "secret">>]>>]>>,
  Invalid <- {<<"o", [a |-> <<"s", "bad">>, b |-> <<"o", [s |-> <<"s", "secret">>]>>]>>},
  Secrets <- <<<<"b", "s">>, <<"a", "0">>>>,
  Changes <- {<<[is |-> "set", path |-> <<"a", "0">>, value |-> <<"s", "x">>]>>,
    <<[is |-> "set", path |-> <<"a", "1", "s">>, value |-> <<"s", "x">>]>>,
    <<[is |-> "set", path |-> <<"b", "s">>, value |-> <<"s", "x">>], [is |-> "unset", path |-> <<"a", "0">>]>>,
    <<[is |-> "set", path |-> <<"a", "b">>, value |-> <<"s", "x">>]>>,
    <<[is |-> "set", path |-> <<>>, value |-> <<"s", "x">>]>>,
    <<[is |-> "merge", value |-> <<"o", [a |-> <<"s", "bad">>]>>]>>,
    <<[is |-> "merge", value |-> <<"o", [b |-> <<"o", [t |-> <<"s", "x">>]>>]>>]>>,
    <<[is |-> "unset", path |-> <<"b", "s">>]>>,
    <<[is |-> "unset", path |-> <<>>]>>},
  Edits <- {<<"o", [a |-> <<"s", "bad">>]>>},
  Kinds <- {"register", "commit", "reload"}, MaxOps <- 5, MaxEdits <- 1, MaxCrashes <- 0,
  file <- s1, lastGood <- s2, states <- s3, namespaces <- s4, regGate <- s5,
  writeGate <- s6, closed <- s7, task <- s8, truth <- s9, unseen <- s10,
  strays <- s11, lost <- s12, crashes <- s13, edits <- s14

Crd == INSTANCE Stores WITH
  Setters <- {c1, c2}, Refs <- {r1, r2}, Secrets <- {"x"}, MaxEnv <- 1,
  Clients <- {}, Units <- {"u"}, Savers <- {}, Prompts <- {}, MaxImages <- 2, MaxOps <- 2, Faults <- TRUE,
  cred <- s1, setter <- s2, kv <- s3, client <- s4, att <- s5, saver <- s6

Kv == INSTANCE Stores WITH
  Setters <- {}, Refs <- {r1}, Secrets <- {"x"}, MaxEnv <- 0,
  Clients <- {c1, c2}, Units <- {"u", "v"}, Savers <- {}, Prompts <- {}, MaxImages <- 2, MaxOps <- 3, Faults <- TRUE,
  cred <- s1, setter <- s2, kv <- s3, client <- s4, att <- s5, saver <- s6

Att == INSTANCE Stores WITH
  Setters <- {}, Refs <- {r1}, Secrets <- {"x"}, MaxEnv <- 0,
  Clients <- {}, Units <- {"u"}, Savers <- {c1, c2}, MaxImages <- 2,
  Prompts <- {[refs |-> {}, inline |-> <<k1, k2>>], [refs |-> {k2}, inline |-> <<k1>>], [refs |-> {k1}, inline |-> <<>>],
    [refs |-> {k1, k2}, inline |-> <<k1>>]},
  MaxOps <- 2, Faults <- TRUE,
  cred <- s1, setter <- s2, kv <- s3, client <- s4, att <- s5, saver <- s6

Rte == INSTANCE Routes WITH
  Tasks <- {c1, c2}, Documents <- {{[provider |-> "x", models |-> {"m"}, images |-> {}, credential |-> "k"]},
    {[provider |-> "y", models |-> {"m"}, images |-> {}, credential |-> "k"], [provider |-> "d", models |-> {"n"}, images |-> {}, credential |-> "none"]}, {[provider |-> "x", models |-> {"m"}, images |-> {}, credential |-> "k"], [provider |-> "y", models |-> {"m"}, images |-> {}, credential |-> "k"]}},
  DeepSeek <- "d", LegacyRoute <- [provider |-> "d", models |-> {"m", "n"}, images |-> {"n"}, credential |-> "e"],
  Models <- {[provider |-> "x", model |-> "m"], [provider |-> "x", model |-> "n"]}, Foreign <- {"x", "y"},
  Kinds <- {"mutate", "direct"}, MaxOps <- 1, MaxForeign <- 1,
  settings <- s1, slots <- s2, nextId <- s3, state <- s4, resolver <- s5,
  routeGate <- s6, setup <- s7, task <- s8, foreign <- s9, session <- s10,
  drift <- s11

RteSel == INSTANCE Routes WITH
  Tasks <- {c1, c2}, Documents <- {{[provider |-> "x", models |-> {"m", "n"}, images |-> {"m"}, credential |-> "k"]},
    {[provider |-> "x", models |-> {"n"}, images |-> {"n"}, credential |-> "k"]}},
  DeepSeek <- "d", LegacyRoute <- [provider |-> "d", models |-> {"m", "n"}, images |-> {"n"}, credential |-> "e"],
  Models <- {[provider |-> "x", model |-> "m"], [provider |-> "x", model |-> "n"]}, Foreign <- {},
  Kinds <- {"mutate", "direct", "select", "refuse"}, MaxOps <- 1, MaxForeign <- 0,
  settings <- s1, slots <- s2, nextId <- s3, state <- s4, resolver <- s5,
  routeGate <- s6, setup <- s7, task <- s8, foreign <- s9, session <- s10,
  drift <- s11

Rmt == INSTANCE RemoteAccess WITH
  Tasks <- {c1, c2}, Requests <- {[host |-> "bound", origin |-> "own", site |-> "none", tls |-> TRUE, path |-> "issue", arg |-> "none"],
    [host |-> "t1", origin |-> "own", site |-> "none", tls |-> TRUE, path |-> "exchange", arg |-> "none"],
    [host |-> "bound", origin |-> "none", site |-> "none", tls |-> TRUE, path |-> "revoke", arg |-> "x"],
    [host |-> "bound", origin |-> "none", site |-> "none", tls |-> TRUE, path |-> "revokeAll", arg |-> "none"],
    [host |-> "t1", origin |-> "none", site |-> "same-origin", tls |-> TRUE, path |-> "stream", arg |-> "x"],
    [host |-> "t1", origin |-> "own", site |-> "none", tls |-> TRUE, path |-> "revokeSelf", arg |-> "x"]},
  Devices <- {"x", "y"}, Rank <- [x |-> 1, y |-> 2, z |-> 3], Tokens <- {k1}, Enabled <- TRUE, Tunnels <- {"t1"},
  Faults <- {"write", "sync", "touch", "crash"}, MaxDevices <- 2, MaxOps <- 3, MaxCrash <- 0, MaxTunnels <- 2,
  memory <- s1, disk <- s2, pairing <- s3, state <- s4, tasks <- s5,
  late <- s6, acks <- s7, tunnel <- s8, bounds <- s9

RmtCrash == INSTANCE RemoteAccess WITH
  Tasks <- {c1}, Requests <- {[host |-> "bound", origin |-> "own", site |-> "none", tls |-> TRUE, path |-> "issue", arg |-> "none"],
    [host |-> "t1", origin |-> "own", site |-> "none", tls |-> TRUE, path |-> "exchange", arg |-> "none"],
    [host |-> "bound", origin |-> "none", site |-> "none", tls |-> TRUE, path |-> "revoke", arg |-> "x"],
    [host |-> "bound", origin |-> "none", site |-> "none", tls |-> TRUE, path |-> "revokeAll", arg |-> "none"],
    [host |-> "t1", origin |-> "none", site |-> "same-origin", tls |-> TRUE, path |-> "stream", arg |-> "x"],
    [host |-> "t1", origin |-> "own", site |-> "none", tls |-> TRUE, path |-> "revokeSelf", arg |-> "x"]},
  Devices <- {"x", "y"}, Rank <- [x |-> 1, y |-> 2, z |-> 3], Tokens <- {k1}, Enabled <- TRUE, Tunnels <- {"t1"},
  Faults <- {"write", "sync", "touch", "crash"}, MaxDevices <- 2, MaxOps <- 3, MaxCrash <- 1, MaxTunnels <- 2,
  memory <- s1, disk <- s2, pairing <- s3, state <- s4, tasks <- s5,
  late <- s6, acks <- s7, tunnel <- s8, bounds <- s9

RmtLim == INSTANCE RemoteAccess WITH
  Tasks <- {c1}, Requests <- {[host |-> "bound", origin |-> "own", site |-> "none", tls |-> TRUE, path |-> "issue", arg |-> "none"],
    [host |-> "bound", origin |-> "own", site |-> "none", tls |-> TRUE, path |-> "exchange", arg |-> "none"],
    [host |-> "bound", origin |-> "none", site |-> "none", tls |-> TRUE, path |-> "revoke", arg |-> "x"]},
  Devices <- {"x", "y", "z"}, Rank <- [x |-> 1, y |-> 2, z |-> 3], Tokens <- {k1, k2, r1}, Enabled <- TRUE, Tunnels <- {},
  Faults <- {"expire", "gone"}, MaxDevices <- 2, MaxOps <- 6, MaxCrash <- 0, MaxTunnels <- 0,
  memory <- s1, disk <- s2, pairing <- s3, state <- s4, tasks <- s5,
  late <- s6, acks <- s7, tunnel <- s8, bounds <- s9

RmtTun == INSTANCE RemoteAccess WITH
  Tasks <- {c1}, Requests <- {[host |-> "t1", origin |-> "own", site |-> "none", tls |-> TRUE, path |-> "page", arg |-> "none"],
    [host |-> "t2", origin |-> "none", site |-> "none", tls |-> TRUE, path |-> "page", arg |-> "none"],
    [host |-> "t2", origin |-> "other", site |-> "none", tls |-> TRUE, path |-> "page", arg |-> "none"],
    [host |-> "t2", origin |-> "own", site |-> "none", tls |-> TRUE, path |-> "call", arg |-> "x"],
    [host |-> "bound", origin |-> "none", site |-> "none", tls |-> TRUE, path |-> "call", arg |-> "none"],
    [host |-> "bound", origin |-> "own", site |-> "none", tls |-> TRUE, path |-> "issue", arg |-> "none"],
    [host |-> "t1", origin |-> "own", site |-> "none", tls |-> TRUE, path |-> "exchange", arg |-> "none"],
    [host |-> "t1", origin |-> "own", site |-> "none", tls |-> TRUE, path |-> "describe", arg |-> "none"],
    [host |-> "t1", origin |-> "own", site |-> "none", tls |-> TRUE, path |-> "settings", arg |-> "x"],
    [host |-> "t1", origin |-> "own", site |-> "none", tls |-> TRUE, path |-> "describe", arg |-> "x"],
    [host |-> "t1", origin |-> "own", site |-> "none", tls |-> TRUE, path |-> "stream", arg |-> "x"]},
  Devices <- {"x"}, Rank <- [x |-> 1, y |-> 2, z |-> 3], Tokens <- {k1}, Enabled <- TRUE, Tunnels <- {"t1", "t2"},
  Faults <- {"tunnel", "crash", "expire"}, MaxDevices <- 1, MaxOps <- 3, MaxCrash <- 1, MaxTunnels <- 3,
  memory <- s1, disk <- s2, pairing <- s3, state <- s4, tasks <- s5,
  late <- s6, acks <- s7, tunnel <- s8, bounds <- s9

Prj == INSTANCE Projections WITH
  KeySeq <- <<"a">>, MaxEvents <- 2, Quiet <- TRUE, FaultKeys <- {}, SessionCap <- 1, CheckpointKeys <- {}, Closes <- FALSE, WithReader <- TRUE,
  log <- s1, sent <- s2, entry <- s3, caller <- s4, observer <- s5,
  gate <- s6, relay <- s7, saved <- s8, down <- s9, ghost <- s10

PrjCp == INSTANCE Projections WITH
  KeySeq <- <<"a">>, MaxEvents <- 3, Quiet <- FALSE, FaultKeys <- {}, SessionCap <- 2, CheckpointKeys <- {"a"}, Closes <- FALSE, WithReader <- FALSE,
  log <- s1, sent <- s2, entry <- s3, caller <- s4, observer <- s5,
  gate <- s6, relay <- s7, saved <- s8, down <- s9, ghost <- s10

PrjBad == INSTANCE Projections WITH
  KeySeq <- <<"a", "b">>, MaxEvents <- 2, Quiet <- FALSE, FaultKeys <- {"a"}, SessionCap <- 1, CheckpointKeys <- {}, Closes <- TRUE, WithReader <- FALSE,
  log <- s1, sent <- s2, entry <- s3, caller <- s4, observer <- s5,
  gate <- s6, relay <- s7, saved <- s8, down <- s9, ghost <- s10

Vst == INSTANCE SessionViews WITH
  Facts <- {}, Turns <- TRUE, CallIds <- {1, 2}, Usages <- {3}, MaxEvents <- 8, MaxMessages <- 1, MaxCalls <- 1, Live <- TRUE, ReadFaults <- FALSE, Pages <- {},
  log <- s1, loop <- s2, client <- s3, calls <- s4, shown <- s5, pager <- s6

Vfa == INSTANCE SessionViews WITH
  Facts <- {[type |-> "title", value |-> "x"], [type |-> "plan", value |-> "on"], [type |-> "todo", value |-> "y"], [type |-> "goal", value |-> "g"], [type |-> "goal", value |-> "null"],
    [type |-> "preset", value |-> "read-only"], [type |-> "sandbox", value |-> "read-only"], [type |-> "policy", value |-> "never"], [type |-> "context", value |-> "w"], [type |-> "descriptor", value |-> "null"]},
  Turns <- TRUE, CallIds <- {}, Usages <- {3}, MaxEvents <- 3, MaxMessages <- 1, MaxCalls <- 1, Live <- TRUE, ReadFaults <- TRUE, Pages <- {},
  log <- s1, loop <- s2, client <- s3, calls <- s4, shown <- s5, pager <- s6

Vpg == INSTANCE SessionViews WITH
  Facts <- {}, Turns <- TRUE, CallIds <- {}, Usages <- {}, MaxEvents <- 8, MaxMessages <- 2, MaxCalls <- 1, Live <- FALSE, ReadFaults <- FALSE, Pages <- {"session", "child"},
  log <- s1, loop <- s2, client <- s3, calls <- s4, shown <- s5, pager <- s6

Wsr == INSTANCE Workspaces WITH
  Paths <- {"a", "b"}, HostCwd <- "a", Titles <- {"x", "y"}, MaxWorkspaces <- 2,
  NSessions <- 1, Old <- {<<"absent">>, <<"b">>, <<"none">>}, CompatKinds <- {}, BridgeKinds <- {"create", "place", "archive"},
  HostKinds <- {"session"}, MaxRevision <- 1, MaxBoots <- 2, MaxMoves <- 1, Faults <- TRUE, PageLimit <- 0, FrameBytes <- 0, RowBytes <- <<0>>,
  file <- s1, reg <- s2, dirs <- s3, logs <- s4, agents <- s5, setup <- s6,
  compat <- s7, forked <- s8, spawn <- s9, late <- s10, view <- s11,
  pager <- s12, seen <- s13

Wsv == INSTANCE Workspaces WITH
  Paths <- {"a", "b"}, HostCwd <- "a", Titles <- {"x", "y"}, MaxWorkspaces <- 2,
  NSessions <- 3, Old <- {<<"a", "absent", "absent">>}, CompatKinds <- {"create", "rename", "order", "place", "archive", "delete", "session"}, BridgeKinds <- {},
  HostKinds <- {"fork"}, MaxRevision <- 2, MaxBoots <- 1, MaxMoves <- 0, Faults <- FALSE, PageLimit <- 0, FrameBytes <- 0, RowBytes <- <<0, 0, 0>>,
  file <- s1, reg <- s2, dirs <- s3, logs <- s4, agents <- s5, setup <- s6,
  compat <- s7, forked <- s8, spawn <- s9, late <- s10, view <- s11,
  pager <- s12, seen <- s13

Wsa == INSTANCE Workspaces WITH
  Paths <- {"a", "b"}, HostCwd <- "a", Titles <- {"x", "y"}, MaxWorkspaces <- 2,
  NSessions <- 2, Old <- {<<"a", "absent">>}, CompatKinds <- {}, BridgeKinds <- {"place"},
  HostKinds <- {"ensure", "delete", "spawn"}, MaxRevision <- 2, MaxBoots <- 2, MaxMoves <- 0, Faults <- FALSE, PageLimit <- 0, FrameBytes <- 0, RowBytes <- <<0, 0>>,
  file <- s1, reg <- s2, dirs <- s3, logs <- s4, agents <- s5, setup <- s6,
  compat <- s7, forked <- s8, spawn <- s9, late <- s10, view <- s11,
  pager <- s12, seen <- s13

Wsg == INSTANCE Workspaces WITH
  Paths <- {"a", "b"}, HostCwd <- "a", Titles <- {"x", "y"}, MaxWorkspaces <- 2,
  NSessions <- 2, Old <- {<<"a", "absent">>}, CompatKinds <- {}, BridgeKinds <- {"place"},
  HostKinds <- {"ensure", "spawn", "forget"}, MaxRevision <- 2, MaxBoots <- 2, MaxMoves <- 0, Faults <- FALSE, PageLimit <- 0, FrameBytes <- 0, RowBytes <- <<0, 0>>,
  file <- s1, reg <- s2, dirs <- s3, logs <- s4, agents <- s5, setup <- s6,
  compat <- s7, forked <- s8, spawn <- s9, late <- s10, view <- s11,
  pager <- s12, seen <- s13

Wsp == INSTANCE Workspaces WITH
  Paths <- {"a", "b"}, HostCwd <- "a", Titles <- {"x", "y"}, MaxWorkspaces <- 2,
  NSessions <- 4, Old <- {<<"a", "b", "a", "absent">>, <<"absent", "a", "none", "a">>}, CompatKinds <- {"archive", "place"}, BridgeKinds <- {},
  HostKinds <- {"session"}, MaxRevision <- 1, MaxBoots <- 1, MaxMoves <- 0, Faults <- FALSE, PageLimit <- 2, FrameBytes <- 4, RowBytes <- <<5, 1, 4, 1>>,
  file <- s1, reg <- s2, dirs <- s3, logs <- s4, agents <- s5, setup <- s6,
  compat <- s7, forked <- s8, spawn <- s9, late <- s10, view <- s11,
  pager <- s12, seen <- s13

Wsf == INSTANCE Workspaces WITH
  Paths <- {"a", "b"}, HostCwd <- "a", Titles <- {"x", "y"}, MaxWorkspaces <- 2,
  NSessions <- 3, Old <- {<<"a", "absent", "absent">>, <<"b", "absent", "absent">>}, CompatKinds <- {}, BridgeKinds <- {},
  HostKinds <- {"fork", "delete"}, MaxRevision <- 2, MaxBoots <- 2, MaxMoves <- 0, Faults <- TRUE, PageLimit <- 0, FrameBytes <- 0, RowBytes <- <<0, 0, 0>>,
  file <- s1, reg <- s2, dirs <- s3, logs <- s4, agents <- s5, setup <- s6,
  compat <- s7, forked <- s8, spawn <- s9, late <- s10, view <- s11,
  pager <- s12, seen <- s13

Tol == INSTANCE Tools WITH
  Locals <- {<<"a">>, <<"b">>}, Callers <- {c1}, Remote <- FALSE, Pages <- {},
  Schemas <- {[type |-> "object", keys |-> {"type", "properties", "required", "additionalProperties"}, props |-> [x |-> [type |-> "string", keys |-> {"type"}, props |-> <<>>, required |-> <<>>, closed |-> FALSE,
      items |-> <<>>, enum |-> <<>>, oneOf |-> <<>>]], required |-> <<"x">>, closed |-> TRUE,
      items |-> <<>>, enum |-> <<>>, oneOf |-> <<>>],
    [type |-> "object", keys |-> {"type", "properties", "description"}, props |-> [x |-> [type |-> "array", keys |-> {"type", "items"}, props |-> <<>>, required |-> <<>>, closed |-> FALSE,
      items |-> <<[type |-> "number", keys |-> {"type"}, props |-> <<>>, required |-> <<>>, closed |-> FALSE,
      items |-> <<>>, enum |-> <<>>, oneOf |-> <<>>]>>, enum |-> <<>>, oneOf |-> <<>>]], required |-> <<>>, closed |-> FALSE,
      items |-> <<>>, enum |-> <<>>, oneOf |-> <<>>],
    [type |-> "", keys |-> {"oneOf"}, props |-> <<>>, required |-> <<>>, closed |-> FALSE,
      items |-> <<>>, enum |-> <<>>, oneOf |-> <<[type |-> "number", keys |-> {"type"}, props |-> <<>>, required |-> <<>>, closed |-> FALSE,
      items |-> <<>>, enum |-> <<>>, oneOf |-> <<>>], [type |-> "integer", keys |-> {"type"}, props |-> <<>>, required |-> <<>>, closed |-> FALSE,
      items |-> <<>>, enum |-> <<>>, oneOf |-> <<>>]>>],
    [type |-> "object", keys |-> {"type"}, props |-> <<>>, required |-> <<>>, closed |-> FALSE,
      items |-> <<>>, enum |-> <<>>, oneOf |-> <<>>],
    [type |-> "object", keys |-> {"type", "properties", "required"}, props |-> [x |-> [type |-> "string", keys |-> {"type"}, props |-> <<>>, required |-> <<>>, closed |-> FALSE,
      items |-> <<>>, enum |-> <<>>, oneOf |-> <<>>]], required |-> <<"y">>, closed |-> FALSE,
      items |-> <<>>, enum |-> <<>>, oneOf |-> <<>>],
    [type |-> "string", keys |-> {"type", "enum"}, props |-> <<>>, required |-> <<>>, closed |-> FALSE,
      items |-> <<>>, enum |-> <<[type |-> "string", members |-> <<1>>]>>, oneOf |-> <<>>],
    [type |-> "array", keys |-> {"type"}, props |-> <<>>, required |-> <<>>, closed |-> FALSE,
      items |-> <<>>, enum |-> <<>>, oneOf |-> <<>>],
    [type |-> "object", keys |-> {"type", "properties", "minimum"}, props |-> <<>>, required |-> <<>>, closed |-> FALSE,
      items |-> <<>>, enum |-> <<>>, oneOf |-> <<>>]},
  Values <- {[type |-> "object", members |-> [x |-> [type |-> "string", members |-> <<1>>]]],
    [type |-> "object", members |-> [x |-> [type |-> "string", members |-> <<1>>], y |-> [type |-> "null", members |-> <<>>]]],
    [type |-> "object", members |-> [x |-> [type |-> "array", members |-> <<[type |-> "integer", members |-> <<>>], [type |-> "number", members |-> <<>>]>>]]],
    [type |-> "integer", members |-> <<>>],
    [type |-> "number", members |-> <<>>],
    [type |-> "string", members |-> <<1>>],
    [type |-> "string", members |-> <<2>>],
    [type |-> "array", members |-> <<>>]},
  Restrictions <- {[only |-> TRUE, allow |-> {<<"a">>, <<"b">>}, deny |-> {}, ask |-> {<<"b">>}],
    [only |-> FALSE, allow |-> {}, deny |-> {<<"a">>}, ask |-> {}],
    [only |-> TRUE, allow |-> {<<"a">>}, deny |-> {<<"c">>}, ask |-> {}],
    [only |-> FALSE, allow |-> {}, deny |-> {<<"b">>}, ask |-> {<<"b">>}]},
  Supervised <- TRUE, MaxAttempts <- 1, MaxPages <- 2, PerPage <- 2, TotalTools <- 2, MaxTransports <- 1, MaxOps <- 4,
  tools <- s1, nextId <- s2, scopes <- s3, call <- s4, m <- s5, op <- s6,
  gate <- s7, bye <- s8, wire <- s9, monitors <- s10, ghost <- s11

Mcp == INSTANCE Tools WITH
  Locals <- {<<"a">>}, Callers <- {}, Remote <- TRUE, Schemas <- {[type |-> "string", keys |-> {"type"}, props |-> <<>>, required |-> <<>>, closed |-> FALSE,
      items |-> <<>>, enum |-> <<>>, oneOf |-> <<>>]}, Values <- {}, Restrictions <- {},
  Pages <- {[tools |-> <<[name |-> "a", odd |-> FALSE, task |-> FALSE, schema |-> [type |-> "", keys |-> {}, props |-> <<>>, required |-> <<>>, closed |-> FALSE,
      items |-> <<>>, enum |-> <<>>, oneOf |-> <<>>]]>>, next |-> "none", fits |-> TRUE],
    [tools |-> <<[name |-> "b", odd |-> FALSE, task |-> FALSE, schema |-> [type |-> "", keys |-> {}, props |-> <<>>, required |-> <<>>, closed |-> FALSE,
      items |-> <<>>, enum |-> <<>>, oneOf |-> <<>>]], [name |-> "c", odd |-> FALSE, task |-> FALSE, schema |-> [type |-> "object", keys |-> {"type"}, props |-> <<>>, required |-> <<>>, closed |-> FALSE,
      items |-> <<>>, enum |-> <<>>, oneOf |-> <<>>]]>>, next |-> "none", fits |-> TRUE]},
  Supervised <- TRUE, MaxAttempts <- 1, MaxPages <- 2, PerPage <- 2, TotalTools <- 2, MaxTransports <- 2, MaxOps <- 2,
  tools <- s1, nextId <- s2, scopes <- s3, call <- s4, m <- s5, op <- s6,
  gate <- s7, bye <- s8, wire <- s9, monitors <- s10, ghost <- s11

McpList == INSTANCE Tools WITH
  Locals <- {}, Callers <- {}, Remote <- TRUE, Schemas <- {}, Values <- {}, Restrictions <- {},
  Pages <- {[tools |-> <<[name |-> "b", odd |-> FALSE, task |-> FALSE, schema |-> [type |-> "", keys |-> {}, props |-> <<>>, required |-> <<>>, closed |-> FALSE,
      items |-> <<>>, enum |-> <<>>, oneOf |-> <<>>]]>>, next |-> "none", fits |-> TRUE],
    [tools |-> <<[name |-> "d", odd |-> FALSE, task |-> FALSE, schema |-> [type |-> "object", keys |-> {"type", "minimum"}, props |-> <<>>, required |-> <<>>, closed |-> FALSE,
      items |-> <<>>, enum |-> <<>>, oneOf |-> <<>>]]>>, next |-> "none", fits |-> TRUE],
    [tools |-> <<[name |-> "e", odd |-> TRUE, task |-> FALSE, schema |-> [type |-> "", keys |-> {}, props |-> <<>>, required |-> <<>>, closed |-> FALSE,
      items |-> <<>>, enum |-> <<>>, oneOf |-> <<>>]]>>, next |-> "n1", fits |-> TRUE],
    [tools |-> <<[name |-> "e", odd |-> TRUE, task |-> FALSE, schema |-> [type |-> "", keys |-> {}, props |-> <<>>, required |-> <<>>, closed |-> FALSE,
      items |-> <<>>, enum |-> <<>>, oneOf |-> <<>>]]>>, next |-> "none", fits |-> TRUE],
    [tools |-> <<[name |-> "b", odd |-> FALSE, task |-> FALSE, schema |-> [type |-> "", keys |-> {}, props |-> <<>>, required |-> <<>>, closed |-> FALSE,
      items |-> <<>>, enum |-> <<>>, oneOf |-> <<>>]]>>, next |-> "n1", fits |-> TRUE],
    [tools |-> <<>>, next |-> "n2", fits |-> TRUE],
    [tools |-> <<[name |-> "", odd |-> FALSE, task |-> FALSE, schema |-> [type |-> "", keys |-> {}, props |-> <<>>, required |-> <<>>, closed |-> FALSE,
      items |-> <<>>, enum |-> <<>>, oneOf |-> <<>>]]>>, next |-> "", fits |-> TRUE],
    [tools |-> <<[name |-> "", odd |-> FALSE, task |-> FALSE, schema |-> [type |-> "", keys |-> {}, props |-> <<>>, required |-> <<>>, closed |-> FALSE,
      items |-> <<>>, enum |-> <<>>, oneOf |-> <<>>]]>>, next |-> "none", fits |-> TRUE],
    [tools |-> <<[name |-> "b", odd |-> FALSE, task |-> FALSE, schema |-> [type |-> "", keys |-> {}, props |-> <<>>, required |-> <<>>, closed |-> FALSE,
      items |-> <<>>, enum |-> <<>>, oneOf |-> <<>>]], [name |-> "c", odd |-> FALSE, task |-> FALSE, schema |-> [type |-> "", keys |-> {}, props |-> <<>>, required |-> <<>>, closed |-> FALSE,
      items |-> <<>>, enum |-> <<>>, oneOf |-> <<>>]], [name |-> "d", odd |-> FALSE, task |-> FALSE, schema |-> [type |-> "", keys |-> {}, props |-> <<>>, required |-> <<>>, closed |-> FALSE,
      items |-> <<>>, enum |-> <<>>, oneOf |-> <<>>]]>>, next |-> "none", fits |-> TRUE],
    [tools |-> <<[name |-> "b", odd |-> FALSE, task |-> FALSE, schema |-> [type |-> "", keys |-> {}, props |-> <<>>, required |-> <<>>, closed |-> FALSE,
      items |-> <<>>, enum |-> <<>>, oneOf |-> <<>>]]>>, next |-> "none", fits |-> FALSE]},
  Supervised <- FALSE, MaxAttempts <- 1, MaxPages <- 2, PerPage <- 2, TotalTools <- 2, MaxTransports <- 2, MaxOps <- 1,
  tools <- s1, nextId <- s2, scopes <- s3, call <- s4, m <- s5, op <- s6,
  gate <- s7, bye <- s8, wire <- s9, monitors <- s10, ghost <- s11

McpCall == INSTANCE Tools WITH
  Locals <- {}, Callers <- {c1}, Remote <- TRUE, Schemas <- {}, Values <- {[type |-> "object", members |-> <<>>]}, Restrictions <- {},
  Pages <- {[tools |-> <<[name |-> "b", odd |-> FALSE, task |-> TRUE, schema |-> [type |-> "", keys |-> {}, props |-> <<>>, required |-> <<>>, closed |-> FALSE,
      items |-> <<>>, enum |-> <<>>, oneOf |-> <<>>]], [name |-> "c", odd |-> FALSE, task |-> FALSE, schema |-> [type |-> "", keys |-> {}, props |-> <<>>, required |-> <<>>, closed |-> FALSE,
      items |-> <<>>, enum |-> <<>>, oneOf |-> <<>>]]>>, next |-> "none", fits |-> TRUE]},
  Supervised <- TRUE, MaxAttempts <- 1, MaxPages <- 2, PerPage <- 2, TotalTools <- 2, MaxTransports <- 2, MaxOps <- 1,
  tools <- s1, nextId <- s2, scopes <- s3, call <- s4, m <- s5, op <- s6,
  gate <- s7, bye <- s8, wire <- s9, monitors <- s10, ghost <- s11

Cod == INSTANCE Workers WITH
  Runs <- {r1}, Frames <- {[is |-> "log", size |-> 3], [is |-> "call", size |-> 2], [is |-> "done", size |-> 2], [is |-> "bad", size |-> 1]}, MaxLines <- 2, MaxOutput <- 5, Heirs <- TRUE, Servers <- {}, Names <- {}, Claims <- {},
  Queries <- {}, MaxNotes <- 0, MaxRegs <- 0,
  code <- s1, run <- s2, reg <- s3, server <- s4, query <- s5

Lsp == INSTANCE Workers WITH
  Runs <- {}, Frames <- {}, MaxLines <- 0, MaxOutput <- 8, Heirs <- FALSE, Servers <- {"s"}, Names <- {k1}, Claims <- {{"x"}},
  Queries <- {"q1", "q2"}, MaxNotes <- 0, MaxRegs <- 1,
  code <- s1, run <- s2, reg <- s3, server <- s4, query <- s5

LspNote == INSTANCE Workers WITH
  Runs <- {}, Frames <- {}, MaxLines <- 0, MaxOutput <- 8, Heirs <- FALSE, Servers <- {"s"}, Names <- {k1}, Claims <- {{"x"}},
  Queries <- {"q1"}, MaxNotes <- 1, MaxRegs <- 1,
  code <- s1, run <- s2, reg <- s3, server <- s4, query <- s5

LspReg == INSTANCE Workers WITH
  Runs <- {}, Frames <- {}, MaxLines <- 0, MaxOutput <- 8, Heirs <- FALSE, Servers <- {"s", "t"}, Names <- {k1, k2}, Claims <- {{"x"}, {"x", "y"}, {"y"}},
  Queries <- {"q1"}, MaxNotes <- 0, MaxRegs <- 2,
  code <- s1, run <- s2, reg <- s3, server <- s4, query <- s5

Fil == INSTANCE FileTools WITH
  Calls <- {c1, c2}, Jobs <- {[tool |-> "edit", request |-> [absolute |-> FALSE, path |-> <<"f">>], asks |-> "nothing",
       justified |-> FALSE, create |-> FALSE, old |-> <<"a">>, new |-> <<"c">>,
       all |-> FALSE],
    [tool |-> "edit", request |-> [absolute |-> FALSE, path |-> <<"k">>], asks |-> "nothing",
       justified |-> FALSE, create |-> FALSE, old |-> <<"b">>, new |-> <<"b", "a">>,
       all |-> TRUE],
    [tool |-> "write", request |-> [absolute |-> TRUE, path |-> <<"ws", "l">>], asks |-> "nothing",
       justified |-> FALSE, create |-> FALSE, old |-> <<>>, new |-> <<"y">>,
       all |-> FALSE],
    [tool |-> "write", request |-> [absolute |-> FALSE, path |-> <<"d", "n">>], asks |-> "nothing",
       justified |-> FALSE, create |-> TRUE, old |-> <<>>, new |-> <<"y", "cr", "lf">>,
       all |-> FALSE],
    [tool |-> "read", request |-> [absolute |-> FALSE, path |-> <<"f">>], asks |-> "nothing",
       justified |-> FALSE, create |-> FALSE, old |-> <<>>, new |-> <<>>,
       all |-> FALSE]},
  Tree <- [p \in {<<"ws">>, <<"out">>, <<"ws", "d">>, <<"ws", "f">>, <<"out", "g">>, <<"ws", "l">>,
    <<"ws", "k">>} |->
      CASE p = <<"ws", "f">> -> [kind |-> "file", text |-> <<"a", "lf", "b">>]
        [] p = <<"out", "g">> -> [kind |-> "file", text |-> <<"x">>]
        [] p = <<"ws", "l">> -> [kind |-> "link", to |-> <<"out", "g">>]
        [] p = <<"ws", "k">> -> [kind |-> "link", to |-> <<"ws", "f">>]
        [] OTHER -> [kind |-> "dir"]],
  OneFilesystem <- TRUE, Stops <- {"cancel", "crash"}, MaxOutside <- 0, MaxFaults <- 0, Inputs <- {[study |-> "none"]},
  job <- s1, tree <- s2, mode <- s3, leased <- s4, cancelled <- s5,
  call <- s6, held <- s7, temps <- s8, outside <- s9, faults <- s10,
  input <- s11

FilTl == INSTANCE FileTools WITH
  Calls <- {c1}, Jobs <- {[tool |-> "edit", request |-> [absolute |-> FALSE, path |-> <<"k">>], asks |-> "nothing",
       justified |-> FALSE, create |-> FALSE, old |-> <<"b">>, new |-> <<"d">>,
       all |-> FALSE],
    [tool |-> "edit", request |-> [absolute |-> FALSE, path |-> <<"f">>], asks |-> "nothing",
       justified |-> FALSE, create |-> FALSE, old |-> <<>>, new |-> <<"d">>,
       all |-> TRUE],
    [tool |-> "write", request |-> [absolute |-> FALSE, path |-> <<"f">>], asks |-> "workspace-write",
       justified |-> TRUE, create |-> FALSE, old |-> <<>>, new |-> <<"y">>,
       all |-> FALSE],
    [tool |-> "write", request |-> [absolute |-> FALSE, path |-> <<"d", "n">>], asks |-> "nothing",
       justified |-> FALSE, create |-> TRUE, old |-> <<>>, new |-> <<"y">>,
       all |-> FALSE],
    [tool |-> "read", request |-> [absolute |-> FALSE, path |-> <<"k">>], asks |-> "nothing",
       justified |-> FALSE, create |-> FALSE, old |-> <<>>, new |-> <<>>,
       all |-> FALSE]},
  Tree <- [p \in {<<"ws">>, <<"out">>, <<"ws", "d">>, <<"ws", "f">>, <<"out", "g">>, <<"ws", "l">>,
    <<"ws", "k">>} |->
      CASE p = <<"ws", "f">> -> [kind |-> "file", text |-> <<"a", "lf", "b">>]
        [] p = <<"out", "g">> -> [kind |-> "file", text |-> <<"x">>]
        [] p = <<"ws", "l">> -> [kind |-> "link", to |-> <<"out", "g">>]
        [] p = <<"ws", "k">> -> [kind |-> "link", to |-> <<"ws", "f">>]
        [] OTHER -> [kind |-> "dir"]],
  OneFilesystem <- FALSE, Stops <- {"mode", "lease", "cancel", "crash"}, MaxOutside <- 1, MaxFaults <- 1, Inputs <- {[study |-> "none"]},
  job <- s1, tree <- s2, mode <- s3, leased <- s4, cancelled <- s5,
  call <- s6, held <- s7, temps <- s8, outside <- s9, faults <- s10,
  input <- s11

FilNew == INSTANCE FileTools WITH
  Calls <- {c1, c2}, Jobs <- {[tool |-> "write", request |-> [absolute |-> FALSE, path |-> <<"n">>], asks |-> "nothing",
       justified |-> FALSE, create |-> TRUE, old |-> <<>>, new |-> <<"y">>,
       all |-> FALSE]},
  Tree <- [p \in {<<"ws">>} |-> [kind |-> "dir"]],
  OneFilesystem <- FALSE, Stops <- {"crash"}, MaxOutside <- 0, MaxFaults <- 0, Inputs <- {[study |-> "none"]},
  job <- s1, tree <- s2, mode <- s3, leased <- s4, cancelled <- s5,
  call <- s6, held <- s7, temps <- s8, outside <- s9, faults <- s10,
  input <- s11

FilIn == INSTANCE FileTools WITH
  Calls <- {}, Jobs <- {},
  Tree <- [p \in {<<"ws">>, <<"out">>, <<"ws", "d">>, <<"ws", ".git">>, <<"ws", "f">>, <<"out", "g">>, <<"ws", "d", "f">>,
    <<"ws", ".git", "f">>, <<"ws", "l">>, <<"ws", "o">>, <<"ws", "z">>, <<"out", "b">>} |->
      CASE Len(p) > 1 /\ p[Len(p)] \in {"f", "g"} -> [kind |-> "file", text |-> <<>>]
        [] p = <<"ws", "l">> -> [kind |-> "link", to |-> <<"ws", "d", "f">>]
        [] p = <<"ws", "o">> -> [kind |-> "link", to |-> <<"out">>]
        [] p = <<"ws", "z">> -> [kind |-> "link", to |-> <<"ws", "n">>]
        [] p = <<"out", "b">> -> [kind |-> "link", to |-> <<"ws">>]
        [] OTHER -> [kind |-> "dir"]],
  OneFilesystem <- TRUE, Stops <- {}, MaxOutside <- 0, MaxFaults <- 0,
  Inputs <-
    [study : {"path"}, request : [absolute : BOOLEAN,
       path : UNION {[1..n -> {"ws", "out", "d", "f", "l", "o", "z", "b", "g", "n", ".."}] : n \in 1..3}]]
    \cup [study : {"search"}, at : {<<"ws">>, <<"ws", "d">>, <<"ws", "f">>}]
    \cup [study : {"read"}, lines : UNION {[1..n -> 0..2] : n \in 0..3}, limit : 1..2, cap : 1..3]
    \cup [study : {"diff"}, old : UNION {[1..n -> {c1, c2}] : n \in 0..3},
          new : UNION {[1..n -> {c1, c2}] : n \in 0..3}, context : 0..1]
    \cup [study : {"grep"}, files : UNION {[1..n -> [text : {TRUE}, matches : 0..2] \cup {[text |-> FALSE, matches |-> 1]}] :
          n \in 0..3}, most : 1..3, size : {0, 2, 4}, cap : {1, 2, 4, 8}]
    \cup [study : {"glob"}, total : 0..5, most : {2, 4}, size : 0..5, cap : {1, 3, 6}]
    \cup [study : {"fetch"}, header : 1..2, body : 0..4, footer : 1..2, cap : 1..5, cut : BOOLEAN],
  job <- s1, tree <- s2, mode <- s3, leased <- s4, cancelled <- s5,
  call <- s6, held <- s7, temps <- s8, outside <- s9, faults <- s10,
  input <- s11

Sql == INSTANCE SqliteStore WITH
  Instances <- {i1, i2}, Sessions <- {1}, Bodies <- {e1}, MaxSeq <- 2, MaxCalls <- 3,
  Kinds <- {"create", "append", "rollback", "flush", "delete", "read"}, Legacies <- {"no"},
  db <- s1, legacy <- s2, opened <- s3, writer <- s4, image <- s5, task <- s6,
  acked <- s7, calls <- s8

SqlMig == INSTANCE SqliteStore WITH
  Instances <- {i1, i2}, Sessions <- {1}, Bodies <- {e1}, MaxSeq <- 1, MaxCalls <- 2,
  Kinds <- {"append", "read"}, Legacies <- {"only"},
  db <- s1, legacy <- s2, opened <- s3, writer <- s4, image <- s5, task <- s6,
  acked <- s7, calls <- s8

SqlList == INSTANCE SqliteStore WITH
  Instances <- {i1, i2}, Sessions <- {1, 2}, Bodies <- {e1}, MaxSeq <- 1, MaxCalls <- 3,
  Kinds <- {"list", "delete"}, Legacies <- {"no"},
  db <- s1, legacy <- s2, opened <- s3, writer <- s4, image <- s5, task <- s6,
  acked <- s7, calls <- s8

QryList == INSTANCE SessionQueries WITH
  Sessions <- {1, 2}, Events <- {[type |-> "user", op |-> [is |-> "append"], sources |-> {}, hits |-> 1, size |-> 2]},
  Filters <- {[types |-> {}, first |-> 0, last |-> 2]}, Kinds <- {"list"},
  Readers <- {r1}, Limit <- 1, MaxEvents <- 1, MaxAsks <- 1, MaxBirths <- 2, Modes <- {m1},
  Texts <- {},
  Words <- {},
  Happens <- {"delete", "restart"}, SnippetMax <- 3,
  stored <- s1, live <- s2, work <- s3, mode <- s4, cache <- s5, reader <- s6,
  births <- s7, asks <- s8

QryLog == INSTANCE SessionQueries WITH
  Sessions <- {1}, Events <- {[type |-> "user", op |-> [is |-> "append"], sources |-> {}, hits |-> 1, size |-> 2],
    [type |-> "note", op |-> [is |-> "none"], sources |-> {}, hits |-> 0, size |-> 0]},
  Filters <- {[types |-> {}, first |-> 0, last |-> 3], [types |-> {"user"}, first |-> 0, last |-> 3]}, Kinds <- {"log"},
  Readers <- {r1}, Limit <- 1, MaxEvents <- 3, MaxAsks <- 1, MaxBirths <- 1, Modes <- {m1},
  Texts <- {},
  Words <- {},
  Happens <- {"delete", "restart"}, SnippetMax <- 3,
  stored <- s1, live <- s2, work <- s3, mode <- s4, cache <- s5, reader <- s6,
  births <- s7, asks <- s8

QryFind == INSTANCE SessionQueries WITH
  Sessions <- {1, 2}, Events <- {[type |-> "assistant", op |-> [is |-> "append"], sources |-> {}, hits |-> 2, size |-> 3],
    [type |-> "user", op |-> [is |-> "replace", start |-> 0, end |-> 1], sources |-> {0}, hits |-> 1, size |-> 1]},
  Filters <- {[types |-> {}, first |-> 0, last |-> 2]}, Kinds <- {"search"},
  Readers <- {r1}, Limit <- 1, MaxEvents <- 2, MaxAsks <- 1, MaxBirths <- 2, Modes <- {m1},
  Texts <- {},
  Words <- {},
  Happens <- {}, SnippetMax <- 3,
  stored <- s1, live <- s2, work <- s3, mode <- s4, cache <- s5, reader <- s6,
  births <- s7, asks <- s8

QrySum == INSTANCE SessionQueries WITH
  Sessions <- {1}, Events <- {[type |-> "mode", op |-> [is |-> "none"], sources |-> {}, hits |-> 0, size |-> 0]},
  Filters <- {[types |-> {}, first |-> 0, last |-> 2]}, Kinds <- {"summaries"},
  Readers <- {r1, r2}, Limit <- 1, MaxEvents <- 1, MaxAsks <- 2, MaxBirths <- 1, Modes <- {m1},
  Texts <- {},
  Words <- {},
  Happens <- {"delete"}, SnippetMax <- 3,
  stored <- s1, live <- s2, work <- s3, mode <- s4, cache <- s5, reader <- s6,
  births <- s7, asks <- s8

QryMode == INSTANCE SessionQueries WITH
  Sessions <- {1}, Events <- {[type |-> "mode", op |-> [is |-> "none"], sources |-> {}, hits |-> 0, size |-> 0]},
  Filters <- {[types |-> {}, first |-> 0, last |-> 2]}, Kinds <- {"summaries"},
  Readers <- {r1}, Limit <- 1, MaxEvents <- 1, MaxAsks <- 2, MaxBirths <- 1, Modes <- {m1, m2},
  Texts <- {},
  Words <- {},
  Happens <- {"delete"}, SnippetMax <- 3,
  stored <- s1, live <- s2, work <- s3, mode <- s4, cache <- s5, reader <- s6,
  births <- s7, asks <- s8

QryText == INSTANCE SessionQueries WITH
  Sessions <- {}, Events <- {[type |-> "user", op |-> [is |-> "append"], sources |-> {}, hits |-> 1, size |-> 2]},
  Filters <- {[types |-> {}, first |-> 0, last |-> 2]}, Kinds <- {"text"},
  Readers <- {r1}, Limit <- 1, MaxEvents <- 2, MaxAsks <- 1, MaxBirths <- 2, Modes <- {m1},
  Texts <- UNION {[1 .. n -> {"a", "I", " "}] : n \in 0 .. 4},
  Words <- {<<"a">>, <<"I">>, <<"A", " ">>, <<"a", " ", " ", "A">>, <<"i", "dot", "a">>, <<"a", "a">>},
  Happens <- {"delete", "restart"}, SnippetMax <- 3,
  stored <- s1, live <- s2, work <- s3, mode <- s4, cache <- s5, reader <- s6,
  births <- s7, asks <- s8

HBoot == INSTANCE HostLifecycle WITH
  Calls <- {}, Sessions <- {}, MaxLive <- 0, Abandons <- FALSE, Signals <- FALSE,
  Faults <- {"config", "modes", "settings", "namespaces", "services", "tools", "legacy", "composition", "loader", "factory"},
  Frames <- {}, MaxFrames <- 0, MaxChanges <- 0,
  Kept <- 1, Noticed <- 1,
  boot <- s1, made <- s2, admission <- s3, setup <- s4, call <- s5,
  held <- s6, orphaned <- s7, gate <- s8, stopper <- s9, cut <- s10,
  changes <- s11, relay <- s12, stops <- s13, server <- s14, wire <- s15

HPair == INSTANCE HostLifecycle WITH
  Calls <- {c1, c2}, Sessions <- {1, 2}, MaxLive <- 1, Abandons <- FALSE, Signals <- FALSE,
  Faults <- {},
  Frames <- {}, MaxFrames <- 0, MaxChanges <- 0,
  Kept <- 1, Noticed <- 1,
  boot <- s1, made <- s2, admission <- s3, setup <- s4, call <- s5,
  held <- s6, orphaned <- s7, gate <- s8, stopper <- s9, cut <- s10,
  changes <- s11, relay <- s12, stops <- s13, server <- s14, wire <- s15

HSetup == INSTANCE HostLifecycle WITH
  Calls <- {c1}, Sessions <- {1}, MaxLive <- 1, Abandons <- TRUE, Signals <- FALSE,
  Faults <- {"agent", "permission", "approval", "question", "goals", "planning", "jobs", "drive"}
    \cup {"agent_dispose", "busy", "dispose", "flush"},
  Frames <- {}, MaxFrames <- 0, MaxChanges <- 0,
  Kept <- 1, Noticed <- 1,
  boot <- s1, made <- s2, admission <- s3, setup <- s4, call <- s5,
  held <- s6, orphaned <- s7, gate <- s8, stopper <- s9, cut <- s10,
  changes <- s11, relay <- s12, stops <- s13, server <- s14, wire <- s15

HStop == INSTANCE HostLifecycle WITH
  Calls <- {}, Sessions <- {}, MaxLive <- 0, Abandons <- FALSE, Signals <- TRUE,
  Faults <- {"legacy_stop", "unload", "root", "writer"},
  Frames <- {"shutdown"}, MaxFrames <- 2, MaxChanges <- 0,
  Kept <- 1, Noticed <- 1,
  boot <- s1, made <- s2, admission <- s3, setup <- s4, call <- s5,
  held <- s6, orphaned <- s7, gate <- s8, stopper <- s9, cut <- s10,
  changes <- s11, relay <- s12, stops <- s13, server <- s14, wire <- s15

HTell == INSTANCE HostLifecycle WITH
  Calls <- {}, Sessions <- {}, MaxLive <- 0, Abandons <- FALSE, Signals <- FALSE,
  Faults <- {},
  Frames <- {"shutdown"}, MaxFrames <- 1, MaxChanges <- 2,
  Kept <- 1, Noticed <- 1,
  boot <- s1, made <- s2, admission <- s3, setup <- s4, call <- s5,
  held <- s6, orphaned <- s7, gate <- s8, stopper <- s9, cut <- s10,
  changes <- s11, relay <- s12, stops <- s13, server <- s14, wire <- s15

HWrite == INSTANCE HostLifecycle WITH
  Calls <- {}, Sessions <- {}, MaxLive <- 0, Abandons <- FALSE, Signals <- FALSE,
  Faults <- {"writer", "notices"},
  Frames <- {"junk", "shutdown"}, MaxFrames <- 1, MaxChanges <- 1,
  Kept <- 1, Noticed <- 1,
  boot <- s1, made <- s2, admission <- s3, setup <- s4, call <- s5,
  held <- s6, orphaned <- s7, gate <- s8, stopper <- s9, cut <- s10,
  changes <- s11, relay <- s12, stops <- s13, server <- s14, wire <- s15

HPrompt == INSTANCE HostLifecycle WITH
  Calls <- {c1}, Sessions <- {1}, MaxLive <- 0, Abandons <- FALSE, Signals <- TRUE,
  Faults <- {},
  Frames <- {"initialize", "prompt"}, MaxFrames <- 2, MaxChanges <- 0,
  Kept <- 1, Noticed <- 1,
  boot <- s1, made <- s2, admission <- s3, setup <- s4, call <- s5,
  held <- s6, orphaned <- s7, gate <- s8, stopper <- s9, cut <- s10,
  changes <- s11, relay <- s12, stops <- s13, server <- s14, wire <- s15

CmdPerm == INSTANCE HostCommands WITH
  Calls <- {c1, c2}, Lines <- {[name |-> n, arg |-> a] : n \in {"permission"}, a \in {"danger-full-access", "read-only"}},
  Logs <- {<<>>},
  Defaults <- {"danger-full-access"}, Compacts <- FALSE,
  Raters <- {}, Messages <- {}, Known <- {}, Ratings <- {},
  Fails <- FALSE, MaxUpsets <- 1, MaxMoves <- 0,
  log <- s1, agent <- s2, goal <- s3, busy <- s4, call <- s5, lock <- s6,
  driven <- s7, doc <- s8, disk <- s9, born <- s10, rater <- s11,
  answers <- s12, users <- s13, count <- s14

CmdAll == INSTANCE HostCommands WITH
  Calls <- {c1}, Lines <- {[name |-> n, arg |-> a] : n \in {"compact", "export", "open", "other"}, a \in {"", "x"}}
    \cup {[name |-> "permission", arg |-> a] : a \in {"danger-full-access", "read-only", "", "x"}}
    \cup {[name |-> "goal", arg |-> a] : a \in {"", "new", "resume", "pause", "clear", "edit", "edit x"}}
    \cup {[name |-> n, arg |-> a] : n \in {"plan", "feedback"}, a \in {"", "text", "off"}},
  Logs <- {<<>>, <<[type |-> "session/end-seed", arg |-> "none"]>>, <<[type |-> "sandbox/mode", arg |-> "read-only"]>>},
  Defaults <- {"danger-full-access", "workspace-write"}, Compacts <- FALSE,
  Raters <- {}, Messages <- {}, Known <- {}, Ratings <- {},
  Fails <- TRUE, MaxUpsets <- 1, MaxMoves <- 2,
  log <- s1, agent <- s2, goal <- s3, busy <- s4, call <- s5, lock <- s6,
  driven <- s7, doc <- s8, disk <- s9, born <- s10, rater <- s11,
  answers <- s12, users <- s13, count <- s14

CmdMode == INSTANCE HostCommands WITH
  Calls <- {c1}, Lines <- {[name |-> "compact", arg |-> ""], [name |-> "plan", arg |-> "text"],
    [name |-> "plan", arg |-> "off"], [name |-> "goal", arg |-> "new"]},
  Logs <- {<<>>},
  Defaults <- {"workspace-write"}, Compacts <- TRUE,
  Raters <- {}, Messages <- {}, Known <- {}, Ratings <- {},
  Fails <- TRUE, MaxUpsets <- 1, MaxMoves <- 2,
  log <- s1, agent <- s2, goal <- s3, busy <- s4, call <- s5, lock <- s6,
  driven <- s7, doc <- s8, disk <- s9, born <- s10, rater <- s11,
  answers <- s12, users <- s13, count <- s14

CmdGoal == INSTANCE HostCommands WITH
  Calls <- {c1, c2}, Lines <- {[name |-> "goal", arg |-> a] : a \in {"new", "resume", "clear", "edit x"}},
  Logs <- {<<[type |-> "sandbox/mode", arg |-> "read-only"], [type |-> "permission/preset", arg |-> "read-only"], [type |-> "approval/policy", arg |-> "ask"]>>},
  Defaults <- {"workspace-write"}, Compacts <- FALSE,
  Raters <- {}, Messages <- {}, Known <- {}, Ratings <- {},
  Fails <- FALSE, MaxUpsets <- 0, MaxMoves <- 2,
  log <- s1, agent <- s2, goal <- s3, busy <- s4, call <- s5, lock <- s6,
  driven <- s7, doc <- s8, disk <- s9, born <- s10, rater <- s11,
  answers <- s12, users <- s13, count <- s14

CmdUser == INSTANCE HostCommands WITH
  Calls <- {c1, c2}, Lines <- {[name |-> "feedback", arg |-> "text"]},
  Logs <- {<<[type |-> "sandbox/mode", arg |-> "read-only"], [type |-> "permission/preset", arg |-> "read-only"], [type |-> "approval/policy", arg |-> "ask"]>>},
  Defaults <- {"workspace-write"}, Compacts <- FALSE,
  Raters <- {}, Messages <- {}, Known <- {}, Ratings <- {},
  Fails <- FALSE, MaxUpsets <- 1, MaxMoves <- 0,
  log <- s1, agent <- s2, goal <- s3, busy <- s4, call <- s5, lock <- s6,
  driven <- s7, doc <- s8, disk <- s9, born <- s10, rater <- s11,
  answers <- s12, users <- s13, count <- s14

CmdRate == INSTANCE HostCommands WITH
  Calls <- {}, Lines <- {},
  Logs <- {<<>>},
  Defaults <- {}, Compacts <- FALSE,
  Raters <- {r1, r2, c1}, Messages <- {m1}, Known <- {m1}, Ratings <- {"positive", "negative"},
  Fails <- FALSE, MaxUpsets <- 0, MaxMoves <- 0,
  log <- s1, agent <- s2, goal <- s3, busy <- s4, call <- s5, lock <- s6,
  driven <- s7, doc <- s8, disk <- s9, born <- s10, rater <- s11,
  answers <- s12, users <- s13, count <- s14

CmdLose == INSTANCE HostCommands WITH
  Calls <- {}, Lines <- {},
  Logs <- {<<>>},
  Defaults <- {}, Compacts <- FALSE,
  Raters <- {r1, r2}, Messages <- {m1, m2}, Known <- {m1}, Ratings <- {"positive"},
  Fails <- TRUE, MaxUpsets <- 2, MaxMoves <- 0,
  log <- s1, agent <- s2, goal <- s3, busy <- s4, call <- s5, lock <- s6,
  driven <- s7, doc <- s8, disk <- s9, born <- s10, rater <- s11,
  answers <- s12, users <- s13, count <- s14

DelAny == INSTANCE Delegation WITH
  Calls <- {c1}, Children <- {1, 2}, Before <- <<>>, Kinds <- {"subagent", "fork", "ralph"},
  Reports <- [status : {"continue", "complete", "blocked"}, evidence : BOOLEAN, next : BOOLEAN,
    blocker : {"empty", "blank", "text"}, normal : BOOLEAN], MaxRounds <- 2, MaxDepth <- 2, Jobs <- TRUE,
  Breaks <- {"fail", "kill", "interrupt", "stop"}, Walking <- FALSE,
  header <- s1, noted <- s2, agent <- s3, cap <- s4, shared <- s5, of <- s6,
  call <- s7, killed <- s8, walk <- s9

DelShare == INSTANCE Delegation WITH
  Calls <- {c1, c2}, Children <- {1, 2}, Before <- <<>>, Kinds <- {"subagent"},
  Reports <- {}, MaxRounds <- 1, MaxDepth <- 2, Jobs <- TRUE,
  Breaks <- {"stop"}, Walking <- FALSE,
  header <- s1, noted <- s2, agent <- s3, cap <- s4, shared <- s5, of <- s6,
  call <- s7, killed <- s8, walk <- s9

DelFork == INSTANCE Delegation WITH
  Calls <- {c1, c2}, Children <- {1, 2}, Before <- <<>>, Kinds <- {"fork"},
  Reports <- {}, MaxRounds <- 1, MaxDepth <- 2, Jobs <- TRUE,
  Breaks <- {"stop"}, Walking <- FALSE,
  header <- s1, noted <- s2, agent <- s3, cap <- s4, shared <- s5, of <- s6,
  call <- s7, killed <- s8, walk <- s9

DelRalph == INSTANCE Delegation WITH
  Calls <- {c1, c2}, Children <- {1, 2, 3}, Before <- <<>>, Kinds <- {"ralph"},
  Reports <- {[status |-> s, evidence |-> s = "complete", next |-> s = "continue",
    blocker |-> "empty", normal |-> TRUE] : s \in {"continue", "complete"}}, MaxRounds <- 2, MaxDepth <- 1, Jobs <- FALSE,
  Breaks <- {}, Walking <- FALSE,
  header <- s1, noted <- s2, agent <- s3, cap <- s4, shared <- s5, of <- s6,
  call <- s7, killed <- s8, walk <- s9

DelNest == INSTANCE Delegation WITH
  Calls <- {c1, c2}, Children <- {1, 2}, Before <- <<>>, Kinds <- {"subagent"},
  Reports <- {}, MaxRounds <- 1, MaxDepth <- 2, Jobs <- TRUE,
  Breaks <- {"interrupt"}, Walking <- FALSE,
  header <- s1, noted <- s2, agent <- s3, cap <- s4, shared <- s5, of <- s6,
  call <- s7, killed <- s8, walk <- s9

DelWalk == INSTANCE Delegation WITH
  Calls <- {c1, c2}, Children <- {1, 2}, Before <- <<>>, Kinds <- {"subagent"},
  Reports <- {}, MaxRounds <- 1, MaxDepth <- 2, Jobs <- FALSE,
  Breaks <- {}, Walking <- TRUE,
  header <- s1, noted <- s2, agent <- s3, cap <- s4, shared <- s5, of <- s6,
  call <- s7, killed <- s8, walk <- s9

DelOld == INSTANCE Delegation WITH
  Calls <- {c1}, Children <- {1, 2, 3}, Before <- <<0, 1>>, Kinds <- {"subagent", "fork"},
  Reports <- {}, MaxRounds <- 1, MaxDepth <- 2, Jobs <- FALSE,
  Breaks <- {"interrupt"}, Walking <- TRUE,
  header <- s1, noted <- s2, agent <- s3, cap <- s4, shared <- s5, of <- s6,
  call <- s7, killed <- s8, walk <- s9

ASSUME SqliteInstances == Sql!SqliteAssumption /\ SqlMig!SqliteAssumption /\ SqlList!SqliteAssumption

ASSUME HostInstances ==
  /\ HBoot!HostAssumption
  /\ HPair!HostAssumption
  /\ HSetup!HostAssumption
  /\ HStop!HostAssumption
  /\ HTell!HostAssumption
  /\ HWrite!HostAssumption
  /\ HPrompt!HostAssumption

Init ==
  \/ part = "Interaction" /\ focus = "ask" /\ Ask!Init
  \/ part = "SessionStore" /\ focus = "store" /\ Store!Init /\ s10 = 0 /\
       s11 = 0 /\ s12 = 0 /\ s13 = 0 /\ s14 = 0 /\ s15 = 0 /\ s16 = 0 /\ s17 = 0
  \/ part = "Goal" /\ focus = "goal" /\ Goals!Init /\ s13 = 0 /\ s14 = 0 /\
       s15 = 0 /\ s16 = 0 /\ s17 = 0
  \/ part = "Schedule" /\
       \/ focus = "schedule" /\ Sched!Init /\ s11 = 0 /\ s12 = 0 /\ s13 = 0 /\
            s14 = 0 /\ s15 = 0 /\ s16 = 0 /\ s17 = 0
       \/ focus = "schedule_batch" /\ SchedAll!Init /\ s11 = 0 /\ s12 = 0 /\
            s13 = 0 /\ s14 = 0 /\ s15 = 0 /\ s16 = 0 /\ s17 = 0
  \/ part = "Jobs" /\
       \/ focus = "jobs" /\ Job!Init /\ s9 = 0 /\ s10 = 0 /\ s11 = 0 /\ s12 = 0 /\
            s13 = 0 /\ s14 = 0 /\ s15 = 0 /\ s16 = 0 /\ s17 = 0
       \/ focus = "job_hooks" /\ JobHook!Init /\ s9 = 0 /\ s10 = 0 /\ s11 = 0 /\
            s12 = 0 /\ s13 = 0 /\ s14 = 0 /\ s15 = 0 /\ s16 = 0 /\ s17 = 0
  \/ part = "Subagent" /\
       \/ focus = "subagents" /\ Sub!Init /\ s13 = 0 /\ s14 = 0 /\ s15 = 0 /\
            s16 = 0 /\ s17 = 0
       \/ focus = "subagent_race" /\ SubCap!Init /\ s13 = 0 /\ s14 = 0 /\ s15 = 0 /\
            s16 = 0 /\ s17 = 0
       \/ focus = "subagent_rpc" /\ SubRpc!Init /\ s13 = 0 /\ s14 = 0 /\ s15 = 0 /\
            s16 = 0 /\ s17 = 0
  \/ part = "Bridge" /\
       \/ focus = "bridge_requests" /\ Brg!Init /\ s9 = 0 /\ s10 = 0 /\ s11 = 0 /\
            s12 = 0 /\ s13 = 0 /\ s14 = 0 /\ s15 = 0 /\ s16 = 0 /\ s17 = 0
       \/ focus = "bridge_packages" /\ BrgPkg!Init /\ s9 = 0 /\ s10 = 0 /\
            s11 = 0 /\ s12 = 0 /\ s13 = 0 /\ s14 = 0 /\ s15 = 0 /\ s16 = 0 /\ s17 = 0
       \/ focus = "bridge_resources" /\ BrgRes!Init /\ s9 = 0 /\ s10 = 0 /\
            s11 = 0 /\ s12 = 0 /\ s13 = 0 /\ s14 = 0 /\ s15 = 0 /\ s16 = 0 /\ s17 = 0
       \/ focus = "bridge_timers" /\ BrgTime!Init /\ s9 = 0 /\ s10 = 0 /\ s11 = 0 /\
            s12 = 0 /\ s13 = 0 /\ s14 = 0 /\ s15 = 0 /\ s16 = 0 /\ s17 = 0
       \/ focus = "bridge_web" /\ BrgWeb!Init /\ s9 = 0 /\ s10 = 0 /\ s11 = 0 /\
            s12 = 0 /\ s13 = 0 /\ s14 = 0 /\ s15 = 0 /\ s16 = 0 /\ s17 = 0
  \/ part = "LegacyProfile" /\ focus = "legacy" /\ LegProf!Init /\ s10 = 0 /\
       s11 = 0 /\ s12 = 0 /\ s13 = 0 /\ s14 = 0 /\ s15 = 0 /\ s16 = 0 /\ s17 = 0
  \/ part = "WasmPolicy" /\ focus = "wasm" /\ Wasm!Init /\ s8 = 0 /\ s9 = 0 /\
       s10 = 0 /\ s11 = 0 /\ s12 = 0 /\ s13 = 0 /\ s14 = 0 /\ s15 = 0 /\ s16 = 0 /\ s17 = 0
  \/ part = "Watch" /\
       \/ focus = "sse" /\ WchSse!Init /\ s10 = 0 /\ s11 = 0 /\ s12 = 0 /\ s13 = 0 /\
            s14 = 0 /\ s15 = 0 /\ s16 = 0 /\ s17 = 0
       \/ focus = "sockets" /\ WchSock!Init /\ s10 = 0 /\ s11 = 0 /\ s12 = 0 /\
            s13 = 0 /\ s14 = 0 /\ s15 = 0 /\ s16 = 0 /\ s17 = 0
       \/ focus = "mux" /\ WchMux!Init /\ s10 = 0 /\ s11 = 0 /\ s12 = 0 /\ s13 = 0 /\
            s14 = 0 /\ s15 = 0 /\ s16 = 0 /\ s17 = 0
  \/ part = "PluginProfile" /\
       \/ focus = "profile" /\ Prof!Init /\ s8 = 0 /\ s9 = 0 /\ s10 = 0 /\ s11 = 0 /\
            s12 = 0 /\ s13 = 0 /\ s14 = 0 /\ s15 = 0 /\ s16 = 0 /\ s17 = 0
       \/ focus = "profile_dropped" /\ ProfDrop!Init /\ s8 = 0 /\ s9 = 0 /\
            s10 = 0 /\ s11 = 0 /\ s12 = 0 /\ s13 = 0 /\ s14 = 0 /\ s15 = 0 /\ s16 = 0 /\
            s17 = 0
       \/ focus = "market" /\ ProfMarket!Init /\ s8 = 0 /\ s9 = 0 /\ s10 = 0 /\
            s11 = 0 /\ s12 = 0 /\ s13 = 0 /\ s14 = 0 /\ s15 = 0 /\ s16 = 0 /\ s17 = 0
       \/ focus = "profile_lock" /\ ProfLock!Init /\ s8 = 0 /\ s9 = 0 /\ s10 = 0 /\
            s11 = 0 /\ s12 = 0 /\ s13 = 0 /\ s14 = 0 /\ s15 = 0 /\ s16 = 0 /\ s17 = 0
  \/ part = "Compaction" /\
       \/ focus = "compaction" /\ Cpt!Init /\ s9 = 0 /\ s10 = 0 /\ s11 = 0 /\
            s12 = 0 /\ s13 = 0 /\ s14 = 0 /\ s15 = 0 /\ s16 = 0 /\ s17 = 0
       \/ focus = "compaction_limits" /\ CptLim!Init /\ s9 = 0 /\ s10 = 0 /\
            s11 = 0 /\ s12 = 0 /\ s13 = 0 /\ s14 = 0 /\ s15 = 0 /\ s16 = 0 /\ s17 = 0
  \/ part = "Workflow" /\
       \/ focus = "workflow" /\ Wfl!Init /\ s12 = 0 /\ s13 = 0 /\ s14 = 0 /\
            s15 = 0 /\ s16 = 0 /\ s17 = 0
       \/ focus = "workflow_replay" /\ WflRec!Init /\ s12 = 0 /\ s13 = 0 /\
            s14 = 0 /\ s15 = 0 /\ s16 = 0 /\ s17 = 0
       \/ focus = "workflow_late" /\ WflLate!Init /\ s12 = 0 /\ s13 = 0 /\
            s14 = 0 /\ s15 = 0 /\ s16 = 0 /\ s17 = 0
  \/ part = "ShellSession" /\
       \/ focus = "shell" /\ Shl!Init /\ s6 = 0 /\ s7 = 0 /\ s8 = 0 /\ s9 = 0 /\
            s10 = 0 /\ s11 = 0 /\ s12 = 0 /\ s13 = 0 /\ s14 = 0 /\ s15 = 0 /\ s16 = 0 /\
            s17 = 0
       \/ focus = "shell_disable" /\ ShlDis!Init /\ s6 = 0 /\ s7 = 0 /\ s8 = 0 /\
            s9 = 0 /\ s10 = 0 /\ s11 = 0 /\ s12 = 0 /\ s13 = 0 /\ s14 = 0 /\ s15 = 0 /\
            s16 = 0 /\ s17 = 0
       \/ focus = "shell_enable" /\ ShlOn!Init /\ s6 = 0 /\ s7 = 0 /\ s8 = 0 /\
            s9 = 0 /\ s10 = 0 /\ s11 = 0 /\ s12 = 0 /\ s13 = 0 /\ s14 = 0 /\ s15 = 0 /\
            s16 = 0 /\ s17 = 0
       \/ focus = "shell_restart" /\ ShlTwo!Init /\ s6 = 0 /\ s7 = 0 /\ s8 = 0 /\
            s9 = 0 /\ s10 = 0 /\ s11 = 0 /\ s12 = 0 /\ s13 = 0 /\ s14 = 0 /\ s15 = 0 /\
            s16 = 0 /\ s17 = 0
  \/ part = "Subprocess" /\
       \/ focus = "processes" /\ Sbp!Init /\ s8 = 0 /\ s9 = 0 /\ s10 = 0 /\ s11 = 0 /\
            s12 = 0 /\ s13 = 0 /\ s14 = 0 /\ s15 = 0 /\ s16 = 0 /\ s17 = 0
       \/ focus = "captures" /\ SbpOut!Init /\ s8 = 0 /\ s9 = 0 /\ s10 = 0 /\
            s11 = 0 /\ s12 = 0 /\ s13 = 0 /\ s14 = 0 /\ s15 = 0 /\ s16 = 0 /\ s17 = 0
       \/ focus = "bash" /\ SbpSh!Init /\ s8 = 0 /\ s9 = 0 /\ s10 = 0 /\ s11 = 0 /\
            s12 = 0 /\ s13 = 0 /\ s14 = 0 /\ s15 = 0 /\ s16 = 0 /\ s17 = 0
  \/ part = "ProviderStream" /\
       \/ focus = "responses_api" /\ Rsp!Init /\ s5 = 0 /\ s6 = 0 /\ s7 = 0 /\
            s8 = 0 /\ s9 = 0 /\ s10 = 0 /\ s11 = 0 /\ s12 = 0 /\ s13 = 0 /\ s14 = 0 /\
            s15 = 0 /\ s16 = 0 /\ s17 = 0
       \/ focus = "responses_reasoning" /\ RspRsn!Init /\ s5 = 0 /\ s6 = 0 /\
            s7 = 0 /\ s8 = 0 /\ s9 = 0 /\ s10 = 0 /\ s11 = 0 /\ s12 = 0 /\ s13 = 0 /\
            s14 = 0 /\ s15 = 0 /\ s16 = 0 /\ s17 = 0
       \/ focus = "chat_api" /\ Cht!Init /\ s5 = 0 /\ s6 = 0 /\ s7 = 0 /\ s8 = 0 /\
            s9 = 0 /\ s10 = 0 /\ s11 = 0 /\ s12 = 0 /\ s13 = 0 /\ s14 = 0 /\ s15 = 0 /\
            s16 = 0 /\ s17 = 0
       \/ focus = "anthropic_api" /\ Ant!Init /\ s5 = 0 /\ s6 = 0 /\ s7 = 0 /\
            s8 = 0 /\ s9 = 0 /\ s10 = 0 /\ s11 = 0 /\ s12 = 0 /\ s13 = 0 /\ s14 = 0 /\
            s15 = 0 /\ s16 = 0 /\ s17 = 0
  \/ part = "Replay" /\
       \/ focus = "replay" /\ Rpl!Init /\ s8 = 0 /\ s9 = 0 /\ s10 = 0 /\ s11 = 0 /\
            s12 = 0 /\ s13 = 0 /\ s14 = 0 /\ s15 = 0 /\ s16 = 0 /\ s17 = 0
       \/ focus = "replay_two" /\ RplTwo!Init /\ s8 = 0 /\ s9 = 0 /\ s10 = 0 /\
            s11 = 0 /\ s12 = 0 /\ s13 = 0 /\ s14 = 0 /\ s15 = 0 /\ s16 = 0 /\ s17 = 0
       \/ focus = "replay_override" /\ RplOvr!Init /\ s8 = 0 /\ s9 = 0 /\ s10 = 0 /\
            s11 = 0 /\ s12 = 0 /\ s13 = 0 /\ s14 = 0 /\ s15 = 0 /\ s16 = 0 /\ s17 = 0
       \/ focus = "replay_routes" /\ RplRaw!Init /\ s8 = 0 /\ s9 = 0 /\ s10 = 0 /\
            s11 = 0 /\ s12 = 0 /\ s13 = 0 /\ s14 = 0 /\ s15 = 0 /\ s16 = 0 /\ s17 = 0
  \/ part = "Framing" /\
       \/ focus = "sse_frames" /\ Sse!Init /\ s7 = 0 /\ s8 = 0 /\ s9 = 0 /\ s10 = 0 /\
            s11 = 0 /\ s12 = 0 /\ s13 = 0 /\ s14 = 0 /\ s15 = 0 /\ s16 = 0 /\ s17 = 0
       \/ focus = "shell_frames" /\ Frm!Init /\ s7 = 0 /\ s8 = 0 /\ s9 = 0 /\
            s10 = 0 /\ s11 = 0 /\ s12 = 0 /\ s13 = 0 /\ s14 = 0 /\ s15 = 0 /\ s16 = 0 /\
            s17 = 0
       \/ focus = "base64" /\ B64!Init /\ s7 = 0 /\ s8 = 0 /\ s9 = 0 /\ s10 = 0 /\
            s11 = 0 /\ s12 = 0 /\ s13 = 0 /\ s14 = 0 /\ s15 = 0 /\ s16 = 0 /\ s17 = 0
  \/ part = "ProviderRequest" /\ focus = "requests" /\ Req!Init /\ s2 = 0 /\
       s3 = 0 /\ s4 = 0 /\ s5 = 0 /\ s6 = 0 /\ s7 = 0 /\ s8 = 0 /\ s9 = 0 /\ s10 = 0 /\
       s11 = 0 /\ s12 = 0 /\ s13 = 0 /\ s14 = 0 /\ s15 = 0 /\ s16 = 0 /\ s17 = 0
  \/ part = "Settings" /\
       \/ focus = "settings" /\ Set!Init /\ s15 = 0 /\ s16 = 0 /\ s17 = 0
       \/ focus = "settings_edited" /\ SetEdit!Init /\ s15 = 0 /\ s16 = 0 /\
            s17 = 0
       \/ focus = "settings_crash" /\ SetCrash!Init /\ s15 = 0 /\ s16 = 0 /\
            s17 = 0
       \/ focus = "settings_registration" /\ SetReg!Init /\ s15 = 0 /\ s16 = 0 /\
            s17 = 0
       \/ focus = "settings_left" /\ SetLeft!Init /\ s15 = 0 /\ s16 = 0 /\ s17 = 0
       \/ focus = "settings_dropped" /\ SetDrop!Init /\ s15 = 0 /\ s16 = 0 /\
            s17 = 0
       \/ focus = "settings_paths" /\ SetPath!Init /\ s15 = 0 /\ s16 = 0 /\
            s17 = 0
  \/ part = "Stores" /\
       \/ focus = "credentials" /\ Crd!Init /\ s7 = 0 /\ s8 = 0 /\ s9 = 0 /\
            s10 = 0 /\ s11 = 0 /\ s12 = 0 /\ s13 = 0 /\ s14 = 0 /\ s15 = 0 /\ s16 = 0 /\
            s17 = 0
       \/ focus = "storage" /\ Kv!Init /\ s7 = 0 /\ s8 = 0 /\ s9 = 0 /\ s10 = 0 /\
            s11 = 0 /\ s12 = 0 /\ s13 = 0 /\ s14 = 0 /\ s15 = 0 /\ s16 = 0 /\ s17 = 0
       \/ focus = "attachments" /\ Att!Init /\ s7 = 0 /\ s8 = 0 /\ s9 = 0 /\
            s10 = 0 /\ s11 = 0 /\ s12 = 0 /\ s13 = 0 /\ s14 = 0 /\ s15 = 0 /\ s16 = 0 /\
            s17 = 0
  \/ part = "Routes" /\
       \/ focus = "routes" /\ Rte!Init /\ s12 = 0 /\ s13 = 0 /\ s14 = 0 /\ s15 = 0 /\
            s16 = 0 /\ s17 = 0
       \/ focus = "models" /\ RteSel!Init /\ s12 = 0 /\ s13 = 0 /\ s14 = 0 /\
            s15 = 0 /\ s16 = 0 /\ s17 = 0
  \/ part = "RemoteAccess" /\
       \/ focus = "remote_access" /\ Rmt!Init /\ s10 = 0 /\ s11 = 0 /\ s12 = 0 /\
            s13 = 0 /\ s14 = 0 /\ s15 = 0 /\ s16 = 0 /\ s17 = 0
       \/ focus = "remote_crash" /\ RmtCrash!Init /\ s10 = 0 /\ s11 = 0 /\
            s12 = 0 /\ s13 = 0 /\ s14 = 0 /\ s15 = 0 /\ s16 = 0 /\ s17 = 0
       \/ focus = "remote_limits" /\ RmtLim!Init /\ s10 = 0 /\ s11 = 0 /\ s12 = 0 /\
            s13 = 0 /\ s14 = 0 /\ s15 = 0 /\ s16 = 0 /\ s17 = 0
       \/ focus = "remote_tunnel" /\ RmtTun!Init /\ s10 = 0 /\ s11 = 0 /\ s12 = 0 /\
            s13 = 0 /\ s14 = 0 /\ s15 = 0 /\ s16 = 0 /\ s17 = 0
  \/ part = "Projections" /\
       \/ focus = "projections" /\ Prj!Init /\ s11 = 0 /\ s12 = 0 /\ s13 = 0 /\
            s14 = 0 /\ s15 = 0 /\ s16 = 0 /\ s17 = 0
       \/ focus = "checkpoints" /\ PrjCp!Init /\ s11 = 0 /\ s12 = 0 /\ s13 = 0 /\
            s14 = 0 /\ s15 = 0 /\ s16 = 0 /\ s17 = 0
       \/ focus = "projection_faults" /\ PrjBad!Init /\ s11 = 0 /\ s12 = 0 /\
            s13 = 0 /\ s14 = 0 /\ s15 = 0 /\ s16 = 0 /\ s17 = 0
  \/ part = "SessionViews" /\
       \/ focus = "view_stats" /\ Vst!Init /\ s7 = 0 /\ s8 = 0 /\ s9 = 0 /\ s10 = 0 /\
            s11 = 0 /\ s12 = 0 /\ s13 = 0 /\ s14 = 0 /\ s15 = 0 /\ s16 = 0 /\ s17 = 0
       \/ focus = "view_facts" /\ Vfa!Init /\ s7 = 0 /\ s8 = 0 /\ s9 = 0 /\ s10 = 0 /\
            s11 = 0 /\ s12 = 0 /\ s13 = 0 /\ s14 = 0 /\ s15 = 0 /\ s16 = 0 /\ s17 = 0
       \/ focus = "view_pages" /\ Vpg!Init /\ s7 = 0 /\ s8 = 0 /\ s9 = 0 /\ s10 = 0 /\
            s11 = 0 /\ s12 = 0 /\ s13 = 0 /\ s14 = 0 /\ s15 = 0 /\ s16 = 0 /\ s17 = 0
  \/ part = "Workspaces" /\
       \/ focus = "workspaces" /\ Wsr!Init /\ s14 = 0 /\ s15 = 0 /\ s16 = 0 /\
            s17 = 0
       \/ focus = "workspace_views" /\ Wsv!Init /\ s14 = 0 /\ s15 = 0 /\ s16 = 0 /\
            s17 = 0
       \/ focus = "workspace_agents" /\ Wsa!Init /\ s14 = 0 /\ s15 = 0 /\ s16 = 0 /\
            s17 = 0
       \/ focus = "workspace_forget" /\ Wsg!Init /\ s14 = 0 /\ s15 = 0 /\ s16 = 0 /\
            s17 = 0
       \/ focus = "session_pages" /\ Wsp!Init /\ s14 = 0 /\ s15 = 0 /\ s16 = 0 /\
            s17 = 0
       \/ focus = "forks" /\ Wsf!Init /\ s14 = 0 /\ s15 = 0 /\ s16 = 0 /\ s17 = 0
  \/ part = "Tools" /\
       \/ focus = "tools" /\ Tol!Init /\ s12 = 0 /\ s13 = 0 /\ s14 = 0 /\ s15 = 0 /\
            s16 = 0 /\ s17 = 0
       \/ focus = "mcp" /\ Mcp!Init /\ s12 = 0 /\ s13 = 0 /\ s14 = 0 /\ s15 = 0 /\
            s16 = 0 /\ s17 = 0
       \/ focus = "mcp_listing" /\ McpList!Init /\ s12 = 0 /\ s13 = 0 /\ s14 = 0 /\
            s15 = 0 /\ s16 = 0 /\ s17 = 0
       \/ focus = "mcp_calls" /\ McpCall!Init /\ s12 = 0 /\ s13 = 0 /\ s14 = 0 /\
            s15 = 0 /\ s16 = 0 /\ s17 = 0
  \/ part = "Workers" /\
       \/ focus = "code_runs" /\ Cod!Init /\ s6 = 0 /\ s7 = 0 /\ s8 = 0 /\ s9 = 0 /\
            s10 = 0 /\ s11 = 0 /\ s12 = 0 /\ s13 = 0 /\ s14 = 0 /\ s15 = 0 /\ s16 = 0 /\
            s17 = 0
       \/ focus = "lsp" /\ Lsp!Init /\ s6 = 0 /\ s7 = 0 /\ s8 = 0 /\ s9 = 0 /\
            s10 = 0 /\ s11 = 0 /\ s12 = 0 /\ s13 = 0 /\ s14 = 0 /\ s15 = 0 /\ s16 = 0 /\
            s17 = 0
       \/ focus = "lsp_notes" /\ LspNote!Init /\ s6 = 0 /\ s7 = 0 /\ s8 = 0 /\
            s9 = 0 /\ s10 = 0 /\ s11 = 0 /\ s12 = 0 /\ s13 = 0 /\ s14 = 0 /\ s15 = 0 /\
            s16 = 0 /\ s17 = 0
       \/ focus = "lsp_registry" /\ LspReg!Init /\ s6 = 0 /\ s7 = 0 /\ s8 = 0 /\
            s9 = 0 /\ s10 = 0 /\ s11 = 0 /\ s12 = 0 /\ s13 = 0 /\ s14 = 0 /\ s15 = 0 /\
            s16 = 0 /\ s17 = 0
  \/ part = "FileTools" /\
       \/ focus = "files_shared" /\ Fil!Init /\ s12 = 0 /\ s13 = 0 /\ s14 = 0 /\
            s15 = 0 /\ s16 = 0 /\ s17 = 0
       \/ focus = "files_apart" /\ FilTl!Init /\ s12 = 0 /\ s13 = 0 /\ s14 = 0 /\
            s15 = 0 /\ s16 = 0 /\ s17 = 0
       \/ focus = "files_create" /\ FilNew!Init /\ s12 = 0 /\ s13 = 0 /\ s14 = 0 /\
            s15 = 0 /\ s16 = 0 /\ s17 = 0
       \/ focus = "file_results" /\ FilIn!Init /\ s12 = 0 /\ s13 = 0 /\ s14 = 0 /\
            s15 = 0 /\ s16 = 0 /\ s17 = 0
  \/ part = "SqliteStore" /\
       \/ focus = "sqlite" /\ Sql!Init /\ s9 = 0 /\ s10 = 0 /\ s11 = 0 /\ s12 = 0 /\
            s13 = 0 /\ s14 = 0 /\ s15 = 0 /\ s16 = 0 /\ s17 = 0
       \/ focus = "sqlite_migration" /\ SqlMig!Init /\ s9 = 0 /\ s10 = 0 /\
            s11 = 0 /\ s12 = 0 /\ s13 = 0 /\ s14 = 0 /\ s15 = 0 /\ s16 = 0 /\ s17 = 0
       \/ focus = "sqlite_list" /\ SqlList!Init /\ s9 = 0 /\ s10 = 0 /\ s11 = 0 /\
            s12 = 0 /\ s13 = 0 /\ s14 = 0 /\ s15 = 0 /\ s16 = 0 /\ s17 = 0
  \/ part = "SessionQueries" /\
       \/ focus = "query_list" /\ QryList!Init /\ s9 = 0 /\ s10 = 0 /\ s11 = 0 /\
            s12 = 0 /\ s13 = 0 /\ s14 = 0 /\ s15 = 0 /\ s16 = 0 /\ s17 = 0
       \/ focus = "query_log" /\ QryLog!Init /\ s9 = 0 /\ s10 = 0 /\ s11 = 0 /\
            s12 = 0 /\ s13 = 0 /\ s14 = 0 /\ s15 = 0 /\ s16 = 0 /\ s17 = 0
       \/ focus = "query_search" /\ QryFind!Init /\ s9 = 0 /\ s10 = 0 /\ s11 = 0 /\
            s12 = 0 /\ s13 = 0 /\ s14 = 0 /\ s15 = 0 /\ s16 = 0 /\ s17 = 0
       \/ focus = "query_summaries" /\ QrySum!Init /\ s9 = 0 /\ s10 = 0 /\
            s11 = 0 /\ s12 = 0 /\ s13 = 0 /\ s14 = 0 /\ s15 = 0 /\ s16 = 0 /\ s17 = 0
       \/ focus = "query_modes" /\ QryMode!Init /\ s9 = 0 /\ s10 = 0 /\ s11 = 0 /\
            s12 = 0 /\ s13 = 0 /\ s14 = 0 /\ s15 = 0 /\ s16 = 0 /\ s17 = 0
       \/ focus = "query_text" /\ QryText!Init /\ s9 = 0 /\ s10 = 0 /\ s11 = 0 /\
            s12 = 0 /\ s13 = 0 /\ s14 = 0 /\ s15 = 0 /\ s16 = 0 /\ s17 = 0
  \/ part = "HostLifecycle" /\
       \/ focus = "host_boot" /\ HBoot!Init /\ s16 = 0 /\ s17 = 0
       \/ focus = "host_pair" /\ HPair!Init /\ s16 = 0 /\ s17 = 0
       \/ focus = "host_setup" /\ HSetup!Init /\ s16 = 0 /\ s17 = 0
       \/ focus = "host_stop" /\ HStop!Init /\ s16 = 0 /\ s17 = 0
       \/ focus = "host_tell" /\ HTell!Init /\ s16 = 0 /\ s17 = 0
       \/ focus = "host_write" /\ HWrite!Init /\ s16 = 0 /\ s17 = 0
       \/ focus = "host_prompt" /\ HPrompt!Init /\ s16 = 0 /\ s17 = 0
  \/ part = "HostCommands" /\
       \/ focus = "cmd_permission" /\ CmdPerm!Init /\ s15 = 0 /\ s16 = 0 /\
            s17 = 0
       \/ focus = "cmd_all" /\ CmdAll!Init /\ s15 = 0 /\ s16 = 0 /\ s17 = 0
       \/ focus = "cmd_mode" /\ CmdMode!Init /\ s15 = 0 /\ s16 = 0 /\ s17 = 0
       \/ focus = "cmd_goal" /\ CmdGoal!Init /\ s15 = 0 /\ s16 = 0 /\ s17 = 0
       \/ focus = "cmd_user" /\ CmdUser!Init /\ s15 = 0 /\ s16 = 0 /\ s17 = 0
       \/ focus = "cmd_rate" /\ CmdRate!Init /\ s15 = 0 /\ s16 = 0 /\ s17 = 0
       \/ focus = "cmd_lose" /\ CmdLose!Init /\ s15 = 0 /\ s16 = 0 /\ s17 = 0
  \/ part = "Delegation" /\
       \/ focus = "delegate_any" /\ DelAny!Init /\ s10 = 0 /\ s11 = 0 /\ s12 = 0 /\
            s13 = 0 /\ s14 = 0 /\ s15 = 0 /\ s16 = 0 /\ s17 = 0
       \/ focus = "delegate_share" /\ DelShare!Init /\ s10 = 0 /\ s11 = 0 /\
            s12 = 0 /\ s13 = 0 /\ s14 = 0 /\ s15 = 0 /\ s16 = 0 /\ s17 = 0
       \/ focus = "delegate_fork" /\ DelFork!Init /\ s10 = 0 /\ s11 = 0 /\
            s12 = 0 /\ s13 = 0 /\ s14 = 0 /\ s15 = 0 /\ s16 = 0 /\ s17 = 0
       \/ focus = "delegate_ralph" /\ DelRalph!Init /\ s10 = 0 /\ s11 = 0 /\
            s12 = 0 /\ s13 = 0 /\ s14 = 0 /\ s15 = 0 /\ s16 = 0 /\ s17 = 0
       \/ focus = "delegate_nest" /\ DelNest!Init /\ s10 = 0 /\ s11 = 0 /\
            s12 = 0 /\ s13 = 0 /\ s14 = 0 /\ s15 = 0 /\ s16 = 0 /\ s17 = 0
       \/ focus = "delegate_walk" /\ DelWalk!Init /\ s10 = 0 /\ s11 = 0 /\
            s12 = 0 /\ s13 = 0 /\ s14 = 0 /\ s15 = 0 /\ s16 = 0 /\ s17 = 0
       \/ focus = "delegate_old" /\ DelOld!Init /\ s10 = 0 /\ s11 = 0 /\ s12 = 0 /\
            s13 = 0 /\ s14 = 0 /\ s15 = 0 /\ s16 = 0 /\ s17 = 0

InteractionNext ==
  /\ part = "Interaction" /\ UNCHANGED <<part, focus>>
  /\ focus = "ask" /\ Ask!Next

SessionStoreNext ==
  /\ part = "SessionStore" /\ UNCHANGED <<part, focus>>
  /\ focus = "store" /\ Store!Next /\ UNCHANGED <<s10, s11, s12, s13, s14,
          s15, s16, s17>>

GoalNext ==
  /\ part = "Goal" /\ UNCHANGED <<part, focus>>
  /\ focus = "goal" /\ Goals!Next /\ UNCHANGED <<s13, s14, s15, s16, s17>>

ScheduleNext ==
  /\ part = "Schedule" /\ UNCHANGED <<part, focus>>
  /\ \/ focus = "schedule" /\ Sched!Next /\ UNCHANGED <<s11, s12, s13, s14,
          s15, s16, s17>>
     \/ focus = "schedule_batch" /\ SchedAll!Next /\ UNCHANGED <<s11, s12,
          s13, s14, s15, s16, s17>>

JobsNext ==
  /\ part = "Jobs" /\ UNCHANGED <<part, focus>>
  /\ \/ focus = "jobs" /\ Job!Next /\ UNCHANGED <<s9, s10, s11, s12, s13, s14,
          s15, s16, s17>>
     \/ focus = "job_hooks" /\ JobHook!Next /\ UNCHANGED <<s9, s10, s11, s12,
          s13, s14, s15, s16, s17>>

SubagentNext ==
  /\ part = "Subagent" /\ UNCHANGED <<part, focus>>
  /\ \/ focus = "subagents" /\ Sub!Next /\ UNCHANGED <<s13, s14, s15, s16, s17>>
     \/ focus = "subagent_race" /\ SubCap!Next /\ UNCHANGED <<s13, s14, s15,
          s16, s17>>
     \/ focus = "subagent_rpc" /\ SubRpc!Next /\ UNCHANGED <<s13, s14, s15,
          s16, s17>>

BridgeNext ==
  /\ part = "Bridge" /\ UNCHANGED <<part, focus>>
  /\ \/ focus = "bridge_requests" /\ Brg!Next /\ UNCHANGED <<s9, s10, s11,
          s12, s13, s14, s15, s16, s17>>
     \/ focus = "bridge_packages" /\ BrgPkg!Next /\ UNCHANGED <<s9, s10, s11,
          s12, s13, s14, s15, s16, s17>>
     \/ focus = "bridge_resources" /\ BrgRes!Next /\ UNCHANGED <<s9, s10, s11,
          s12, s13, s14, s15, s16, s17>>
     \/ focus = "bridge_timers" /\ BrgTime!Next /\ UNCHANGED <<s9, s10, s11,
          s12, s13, s14, s15, s16, s17>>
     \/ focus = "bridge_web" /\ BrgWeb!Next /\ UNCHANGED <<s9, s10, s11, s12,
          s13, s14, s15, s16, s17>>

LegacyProfileNext ==
  /\ part = "LegacyProfile" /\ UNCHANGED <<part, focus>>
  /\ focus = "legacy" /\ LegProf!Next /\ UNCHANGED <<s10, s11, s12, s13, s14,
          s15, s16, s17>>

WasmPolicyNext ==
  /\ part = "WasmPolicy" /\ UNCHANGED <<part, focus>>
  /\ focus = "wasm" /\ Wasm!Next /\ UNCHANGED <<s8, s9, s10, s11, s12, s13,
          s14, s15, s16, s17>>

WatchNext ==
  /\ part = "Watch" /\ UNCHANGED <<part, focus>>
  /\ \/ focus = "sse" /\ WchSse!Next /\ UNCHANGED <<s10, s11, s12, s13, s14,
          s15, s16, s17>>
     \/ focus = "sockets" /\ WchSock!Next /\ UNCHANGED <<s10, s11, s12, s13,
          s14, s15, s16, s17>>
     \/ focus = "mux" /\ WchMux!Next /\ UNCHANGED <<s10, s11, s12, s13, s14,
          s15, s16, s17>>

PluginProfileNext ==
  /\ part = "PluginProfile" /\ UNCHANGED <<part, focus>>
  /\ \/ focus = "profile" /\ Prof!Next /\ UNCHANGED <<s8, s9, s10, s11, s12,
          s13, s14, s15, s16, s17>>
     \/ focus = "profile_dropped" /\ ProfDrop!Next /\ UNCHANGED <<s8, s9, s10,
          s11, s12, s13, s14, s15, s16, s17>>
     \/ focus = "market" /\ ProfMarket!Next /\ UNCHANGED <<s8, s9, s10, s11,
          s12, s13, s14, s15, s16, s17>>
     \/ focus = "profile_lock" /\ ProfLock!Next /\ UNCHANGED <<s8, s9, s10,
          s11, s12, s13, s14, s15, s16, s17>>

CompactionNext ==
  /\ part = "Compaction" /\ UNCHANGED <<part, focus>>
  /\ \/ focus = "compaction" /\ Cpt!Next /\ UNCHANGED <<s9, s10, s11, s12,
          s13, s14, s15, s16, s17>>
     \/ focus = "compaction_limits" /\ CptLim!Next /\ UNCHANGED <<s9, s10,
          s11, s12, s13, s14, s15, s16, s17>>

WorkflowNext ==
  /\ part = "Workflow" /\ UNCHANGED <<part, focus>>
  /\ \/ focus = "workflow" /\ Wfl!Next /\ UNCHANGED <<s12, s13, s14, s15, s16,
          s17>>
     \/ focus = "workflow_replay" /\ WflRec!Next /\ UNCHANGED <<s12, s13, s14,
          s15, s16, s17>>
     \/ focus = "workflow_late" /\ WflLate!Next /\ UNCHANGED <<s12, s13, s14,
          s15, s16, s17>>

ShellSessionNext ==
  /\ part = "ShellSession" /\ UNCHANGED <<part, focus>>
  /\ \/ focus = "shell" /\ Shl!Next /\ UNCHANGED <<s6, s7, s8, s9, s10, s11,
          s12, s13, s14, s15, s16, s17>>
     \/ focus = "shell_disable" /\ ShlDis!Next /\ UNCHANGED <<s6, s7, s8, s9,
          s10, s11, s12, s13, s14, s15, s16, s17>>
     \/ focus = "shell_enable" /\ ShlOn!Next /\ UNCHANGED <<s6, s7, s8, s9,
          s10, s11, s12, s13, s14, s15, s16, s17>>
     \/ focus = "shell_restart" /\ ShlTwo!Next /\ UNCHANGED <<s6, s7, s8, s9,
          s10, s11, s12, s13, s14, s15, s16, s17>>

SubprocessNext ==
  /\ part = "Subprocess" /\ UNCHANGED <<part, focus>>
  /\ \/ focus = "processes" /\ Sbp!Next /\ UNCHANGED <<s8, s9, s10, s11, s12,
          s13, s14, s15, s16, s17>>
     \/ focus = "captures" /\ SbpOut!Next /\ UNCHANGED <<s8, s9, s10, s11,
          s12, s13, s14, s15, s16, s17>>
     \/ focus = "bash" /\ SbpSh!Next /\ UNCHANGED <<s8, s9, s10, s11, s12,
          s13, s14, s15, s16, s17>>

ProviderStreamNext ==
  /\ part = "ProviderStream" /\ UNCHANGED <<part, focus>>
  /\ \/ focus = "responses_api" /\ Rsp!Next /\ UNCHANGED <<s5, s6, s7, s8, s9,
          s10, s11, s12, s13, s14, s15, s16, s17>>
     \/ focus = "responses_reasoning" /\ RspRsn!Next /\ UNCHANGED <<s5, s6,
          s7, s8, s9, s10, s11, s12, s13, s14, s15, s16, s17>>
     \/ focus = "chat_api" /\ Cht!Next /\ UNCHANGED <<s5, s6, s7, s8, s9, s10,
          s11, s12, s13, s14, s15, s16, s17>>
     \/ focus = "anthropic_api" /\ Ant!Next /\ UNCHANGED <<s5, s6, s7, s8, s9,
          s10, s11, s12, s13, s14, s15, s16, s17>>

ReplayNext ==
  /\ part = "Replay" /\ UNCHANGED <<part, focus>>
  /\ \/ focus = "replay" /\ Rpl!Next /\ UNCHANGED <<s8, s9, s10, s11, s12,
          s13, s14, s15, s16, s17>>
     \/ focus = "replay_two" /\ RplTwo!Next /\ UNCHANGED <<s8, s9, s10, s11,
          s12, s13, s14, s15, s16, s17>>
     \/ focus = "replay_override" /\ RplOvr!Next /\ UNCHANGED <<s8, s9, s10,
          s11, s12, s13, s14, s15, s16, s17>>
     \/ focus = "replay_routes" /\ RplRaw!Next /\ UNCHANGED <<s8, s9, s10,
          s11, s12, s13, s14, s15, s16, s17>>

FramingNext ==
  /\ part = "Framing" /\ UNCHANGED <<part, focus>>
  /\ \/ focus = "sse_frames" /\ Sse!Next /\ UNCHANGED <<s7, s8, s9, s10, s11,
          s12, s13, s14, s15, s16, s17>>
     \/ focus = "shell_frames" /\ Frm!Next /\ UNCHANGED <<s7, s8, s9, s10,
          s11, s12, s13, s14, s15, s16, s17>>
     \/ focus = "base64" /\ B64!Next /\ UNCHANGED <<s7, s8, s9, s10, s11, s12,
          s13, s14, s15, s16, s17>>

ProviderRequestNext ==
  /\ part = "ProviderRequest" /\ UNCHANGED <<part, focus>>
  /\ focus = "requests" /\ Req!Next /\ UNCHANGED <<s2, s3, s4, s5, s6, s7, s8,
          s9, s10, s11, s12, s13, s14, s15, s16, s17>>

SettingsNext ==
  /\ part = "Settings" /\ UNCHANGED <<part, focus>>
  /\ \/ focus = "settings" /\ Set!Next /\ UNCHANGED <<s15, s16, s17>>
     \/ focus = "settings_edited" /\ SetEdit!Next /\ UNCHANGED <<s15, s16, s17>>
     \/ focus = "settings_crash" /\ SetCrash!Next /\ UNCHANGED <<s15, s16, s17>>
     \/ focus = "settings_registration" /\ SetReg!Next /\ UNCHANGED <<s15,
          s16, s17>>
     \/ focus = "settings_left" /\ SetLeft!Next /\ UNCHANGED <<s15, s16, s17>>
     \/ focus = "settings_dropped" /\ SetDrop!Next /\ UNCHANGED <<s15, s16,
          s17>>
     \/ focus = "settings_paths" /\ SetPath!Next /\ UNCHANGED <<s15, s16, s17>>

StoresNext ==
  /\ part = "Stores" /\ UNCHANGED <<part, focus>>
  /\ \/ focus = "credentials" /\ Crd!Next /\ UNCHANGED <<s7, s8, s9, s10, s11,
          s12, s13, s14, s15, s16, s17>>
     \/ focus = "storage" /\ Kv!Next /\ UNCHANGED <<s7, s8, s9, s10, s11, s12,
          s13, s14, s15, s16, s17>>
     \/ focus = "attachments" /\ Att!Next /\ UNCHANGED <<s7, s8, s9, s10, s11,
          s12, s13, s14, s15, s16, s17>>

RoutesNext ==
  /\ part = "Routes" /\ UNCHANGED <<part, focus>>
  /\ \/ focus = "routes" /\ Rte!Next /\ UNCHANGED <<s12, s13, s14, s15, s16,
          s17>>
     \/ focus = "models" /\ RteSel!Next /\ UNCHANGED <<s12, s13, s14, s15,
          s16, s17>>

RemoteAccessNext ==
  /\ part = "RemoteAccess" /\ UNCHANGED <<part, focus>>
  /\ \/ focus = "remote_access" /\ Rmt!Next /\ UNCHANGED <<s10, s11, s12, s13,
          s14, s15, s16, s17>>
     \/ focus = "remote_crash" /\ RmtCrash!Next /\ UNCHANGED <<s10, s11, s12,
          s13, s14, s15, s16, s17>>
     \/ focus = "remote_limits" /\ RmtLim!Next /\ UNCHANGED <<s10, s11, s12,
          s13, s14, s15, s16, s17>>
     \/ focus = "remote_tunnel" /\ RmtTun!Next /\ UNCHANGED <<s10, s11, s12,
          s13, s14, s15, s16, s17>>

ProjectionsNext ==
  /\ part = "Projections" /\ UNCHANGED <<part, focus>>
  /\ \/ focus = "projections" /\ Prj!Next /\ UNCHANGED <<s11, s12, s13, s14,
          s15, s16, s17>>
     \/ focus = "checkpoints" /\ PrjCp!Next /\ UNCHANGED <<s11, s12, s13, s14,
          s15, s16, s17>>
     \/ focus = "projection_faults" /\ PrjBad!Next /\ UNCHANGED <<s11, s12,
          s13, s14, s15, s16, s17>>

SessionViewsNext ==
  /\ part = "SessionViews" /\ UNCHANGED <<part, focus>>
  /\ \/ focus = "view_stats" /\ Vst!Next /\ UNCHANGED <<s7, s8, s9, s10, s11,
          s12, s13, s14, s15, s16, s17>>
     \/ focus = "view_facts" /\ Vfa!Next /\ UNCHANGED <<s7, s8, s9, s10, s11,
          s12, s13, s14, s15, s16, s17>>
     \/ focus = "view_pages" /\ Vpg!Next /\ UNCHANGED <<s7, s8, s9, s10, s11,
          s12, s13, s14, s15, s16, s17>>

WorkspacesNext ==
  /\ part = "Workspaces" /\ UNCHANGED <<part, focus>>
  /\ \/ focus = "workspaces" /\ Wsr!Next /\ UNCHANGED <<s14, s15, s16, s17>>
     \/ focus = "workspace_views" /\ Wsv!Next /\ UNCHANGED <<s14, s15, s16,
          s17>>
     \/ focus = "workspace_agents" /\ Wsa!Next /\ UNCHANGED <<s14, s15, s16,
          s17>>
     \/ focus = "workspace_forget" /\ Wsg!Next /\ UNCHANGED <<s14, s15, s16,
          s17>>
     \/ focus = "session_pages" /\ Wsp!Next /\ UNCHANGED <<s14, s15, s16, s17>>
     \/ focus = "forks" /\ Wsf!Next /\ UNCHANGED <<s14, s15, s16, s17>>

ToolsNext ==
  /\ part = "Tools" /\ UNCHANGED <<part, focus>>
  /\ \/ focus = "tools" /\ Tol!Next /\ UNCHANGED <<s12, s13, s14, s15, s16,
          s17>>
     \/ focus = "mcp" /\ Mcp!Next /\ UNCHANGED <<s12, s13, s14, s15, s16, s17>>
     \/ focus = "mcp_listing" /\ McpList!Next /\ UNCHANGED <<s12, s13, s14,
          s15, s16, s17>>
     \/ focus = "mcp_calls" /\ McpCall!Next /\ UNCHANGED <<s12, s13, s14, s15,
          s16, s17>>

WorkersNext ==
  /\ part = "Workers" /\ UNCHANGED <<part, focus>>
  /\ \/ focus = "code_runs" /\ Cod!Next /\ UNCHANGED <<s6, s7, s8, s9, s10,
          s11, s12, s13, s14, s15, s16, s17>>
     \/ focus = "lsp" /\ Lsp!Next /\ UNCHANGED <<s6, s7, s8, s9, s10, s11,
          s12, s13, s14, s15, s16, s17>>
     \/ focus = "lsp_notes" /\ LspNote!Next /\ UNCHANGED <<s6, s7, s8, s9,
          s10, s11, s12, s13, s14, s15, s16, s17>>
     \/ focus = "lsp_registry" /\ LspReg!Next /\ UNCHANGED <<s6, s7, s8, s9,
          s10, s11, s12, s13, s14, s15, s16, s17>>

FileToolsNext ==
  /\ part = "FileTools" /\ UNCHANGED <<part, focus>>
  /\ \/ focus = "files_shared" /\ Fil!Next /\ UNCHANGED <<s12, s13, s14, s15,
          s16, s17>>
     \/ focus = "files_apart" /\ FilTl!Next /\ UNCHANGED <<s12, s13, s14, s15,
          s16, s17>>
     \/ focus = "files_create" /\ FilNew!Next /\ UNCHANGED <<s12, s13, s14,
          s15, s16, s17>>
     \/ focus = "file_results" /\ FilIn!Next /\ UNCHANGED <<s12, s13, s14,
          s15, s16, s17>>

SqliteStoreNext ==
  /\ part = "SqliteStore" /\ UNCHANGED <<part, focus>>
  /\ \/ focus = "sqlite" /\ Sql!Next /\ UNCHANGED <<s9, s10, s11, s12, s13,
          s14, s15, s16, s17>>
     \/ focus = "sqlite_migration" /\ SqlMig!Next /\ UNCHANGED <<s9, s10, s11,
          s12, s13, s14, s15, s16, s17>>
     \/ focus = "sqlite_list" /\ SqlList!Next /\ UNCHANGED <<s9, s10, s11,
          s12, s13, s14, s15, s16, s17>>

SessionQueriesNext ==
  /\ part = "SessionQueries" /\ UNCHANGED <<part, focus>>
  /\ \/ focus = "query_list" /\ QryList!Next /\ UNCHANGED <<s9, s10, s11, s12,
          s13, s14, s15, s16, s17>>
     \/ focus = "query_log" /\ QryLog!Next /\ UNCHANGED <<s9, s10, s11, s12,
          s13, s14, s15, s16, s17>>
     \/ focus = "query_search" /\ QryFind!Next /\ UNCHANGED <<s9, s10, s11,
          s12, s13, s14, s15, s16, s17>>
     \/ focus = "query_summaries" /\ QrySum!Next /\ UNCHANGED <<s9, s10, s11,
          s12, s13, s14, s15, s16, s17>>
     \/ focus = "query_modes" /\ QryMode!Next /\ UNCHANGED <<s9, s10, s11,
          s12, s13, s14, s15, s16, s17>>
     \/ focus = "query_text" /\ QryText!Next /\ UNCHANGED <<s9, s10, s11, s12,
          s13, s14, s15, s16, s17>>

HostLifecycleNext ==
  /\ part = "HostLifecycle" /\ UNCHANGED <<part, focus>>
  /\ \/ focus = "host_boot" /\ HBoot!Next /\ UNCHANGED <<s16, s17>>
     \/ focus = "host_pair" /\ HPair!Next /\ UNCHANGED <<s16, s17>>
     \/ focus = "host_setup" /\ HSetup!Next /\ UNCHANGED <<s16, s17>>
     \/ focus = "host_stop" /\ HStop!Next /\ UNCHANGED <<s16, s17>>
     \/ focus = "host_tell" /\ HTell!Next /\ UNCHANGED <<s16, s17>>
     \/ focus = "host_write" /\ HWrite!Next /\ UNCHANGED <<s16, s17>>
     \/ focus = "host_prompt" /\ HPrompt!Next /\ UNCHANGED <<s16, s17>>

HostCommandsNext ==
  /\ part = "HostCommands" /\ UNCHANGED <<part, focus>>
  /\ \/ focus = "cmd_permission" /\ CmdPerm!Next /\ UNCHANGED <<s15, s16, s17>>
     \/ focus = "cmd_all" /\ CmdAll!Next /\ UNCHANGED <<s15, s16, s17>>
     \/ focus = "cmd_mode" /\ CmdMode!Next /\ UNCHANGED <<s15, s16, s17>>
     \/ focus = "cmd_goal" /\ CmdGoal!Next /\ UNCHANGED <<s15, s16, s17>>
     \/ focus = "cmd_user" /\ CmdUser!Next /\ UNCHANGED <<s15, s16, s17>>
     \/ focus = "cmd_rate" /\ CmdRate!Next /\ UNCHANGED <<s15, s16, s17>>
     \/ focus = "cmd_lose" /\ CmdLose!Next /\ UNCHANGED <<s15, s16, s17>>

DelegationNext ==
  /\ part = "Delegation" /\ UNCHANGED <<part, focus>>
  /\ \/ focus = "delegate_any" /\ DelAny!Next /\ UNCHANGED <<s10, s11, s12,
          s13, s14, s15, s16, s17>>
     \/ focus = "delegate_share" /\ DelShare!Next /\ UNCHANGED <<s10, s11,
          s12, s13, s14, s15, s16, s17>>
     \/ focus = "delegate_fork" /\ DelFork!Next /\ UNCHANGED <<s10, s11, s12,
          s13, s14, s15, s16, s17>>
     \/ focus = "delegate_ralph" /\ DelRalph!Next /\ UNCHANGED <<s10, s11,
          s12, s13, s14, s15, s16, s17>>
     \/ focus = "delegate_nest" /\ DelNest!Next /\ UNCHANGED <<s10, s11, s12,
          s13, s14, s15, s16, s17>>
     \/ focus = "delegate_walk" /\ DelWalk!Next /\ UNCHANGED <<s10, s11, s12,
          s13, s14, s15, s16, s17>>
     \/ focus = "delegate_old" /\ DelOld!Next /\ UNCHANGED <<s10, s11, s12,
          s13, s14, s15, s16, s17>>

Next == InteractionNext \/ SessionStoreNext \/ GoalNext \/ ScheduleNext \/ JobsNext \/
        SubagentNext \/ BridgeNext \/ LegacyProfileNext \/ WasmPolicyNext \/
        WatchNext \/ PluginProfileNext \/ CompactionNext \/ WorkflowNext \/
        ShellSessionNext \/ SubprocessNext \/ ProviderStreamNext \/ ReplayNext \/
        FramingNext \/ ProviderRequestNext \/ SettingsNext \/ StoresNext \/
        RoutesNext \/ RemoteAccessNext \/ ProjectionsNext \/ SessionViewsNext \/
        WorkspacesNext \/ ToolsNext \/ WorkersNext \/ FileToolsNext \/
        SqliteStoreNext \/ SessionQueriesNext \/ HostLifecycleNext \/
        HostCommandsNext \/ DelegationNext

vars == <<part, focus, s1, s2, s3, s4, s5, s6, s7, s8, s9, s10, s11, s12, s13,
          s14, s15, s16, s17>>

Spec == Init /\ [][Next]_vars

\* An approval or question ends with the outcome its log records
\* (approval.rs, question.rs).
OutcomeIsDurable ==
  /\ part = "Interaction" => Ask!OutcomeIsDurable

\* What was decided is what is done: a decision the broker accepted is the
\* one the waiting tool call gets (approval.rs decide), a tool call runs with
\* arguments its schema admits in a scope that may call it (tools.rs), and a
\* path is admitted exactly when it names a place in the workspace
\* (filesystem.rs tool_target).
AcceptedIsHonoured ==
  /\ part = "Interaction" => Ask!AcceptedIsHonoured
  /\ part = "Tools" =>
       /\ focus = "tools" => Tol!CallsAreChecked /\ Tol!ScopesNarrow
       /\ focus = "mcp" => Mcp!CallsAreChecked /\ Mcp!ScopesNarrow
       /\ focus = "mcp_listing" => McpList!CallsAreChecked /\ McpList!ScopesNarrow
       /\ focus = "mcp_calls" => McpCall!CallsAreChecked /\ McpCall!ScopesNarrow
  /\ part = "FileTools" =>
       /\ focus = "file_results" => FilIn!TargetsAreConfined

\* Clients are told of a pending approval or question once, whichever of
\* registration and relay comes first (approval.rs, host.rs).
AnnouncedOnce ==
  /\ part = "Interaction" => Ask!AnnouncedOnce

\* An event whose append returned Ok is in the resident copy and in the file,
\* at its sequence number (session.rs, persistence_jsonl.rs) or in the
\* database until its session is rolled back or deleted, and only a commit
\* between two SELECTs of a read makes a session look corrupt
\* (persistence_sqlite.rs).
AcknowledgedIsStored ==
  /\ part = "SessionStore" => Store!AcknowledgedIsStored
  /\ part = "SqliteStore" =>
       /\ focus = "sqlite" => Sql!AcknowledgedIsStored /\ Sql!CorruptionIsARace
       /\ focus = "sqlite_migration" => SqlMig!AcknowledgedIsStored /\ SqlMig!CorruptionIsARace
       /\ focus = "sqlite_list" => SqlList!AcknowledgedIsStored /\ SqlList!CorruptionIsARace

LedgerViewsAgreeParts == {"Goal", "Workflow", "Projections", "SessionViews",
   "SessionQueries", "HostCommands", "Delegation"}

\* What a log says happened is what happened: the goal service's view, the
\* queue and the log agree on rounds (goal.rs), the record of a workflow run
\* is a prefix of a whole one and whole when no append was refused
\* (workflow.rs), and projections and counts kept beside a log are the fold
\* of it (host.rs, statistics of a session), and a resident session is a
\* prefix of its log with the surface a query rebuilds from it (session.rs);
\* a permission the log says was selected is the one its facts spell, and the
\* approval policy in force is the log's, with no confinement lifted under
\* another preset (host.rs, permissions.rs); a walk of a tree of agents lists
\* each session once behind its parent and misses none that was there all
\* along (subagent.rs list_descendants).
LedgerViewsAgree == part \in LedgerViewsAgreeParts =>
  /\ part = "Goal" => Goals!LedgerViewsAgree
  /\ part = "Workflow" =>
       /\ focus = "workflow" => Wfl!RecordIsWhole
       /\ focus = "workflow_replay" => WflRec!RecordIsWhole
       /\ focus = "workflow_late" => WflLate!RecordIsWhole
  /\ part = "Projections" =>
       /\ focus = "projections" => Prj!ProjectionIsFold
       /\ focus = "checkpoints" => PrjCp!ProjectionIsFold
       /\ focus = "projection_faults" => PrjBad!ProjectionIsFold
  /\ part = "SessionViews" =>
       /\ focus = "view_stats" => Vst!StatsCountOnce
       /\ focus = "view_facts" => Vfa!StatsCountOnce
       /\ focus = "view_pages" => Vpg!StatsCountOnce
  /\ part = "SessionQueries" =>
       /\ focus = "query_list" => QryList!ResidentIsItsLog
       /\ focus = "query_log" => QryLog!ResidentIsItsLog
       /\ focus = "query_search" => QryFind!ResidentIsItsLog
       /\ focus = "query_summaries" => QrySum!ResidentIsItsLog
       /\ focus = "query_modes" => QryMode!ResidentIsItsLog
  /\ part = "HostCommands" =>
       /\ focus = "cmd_permission" => CmdPerm!SelectionHolds /\ CmdPerm!PermissionsInForce
       /\ focus = "cmd_all" => CmdAll!SelectionHolds /\ CmdAll!PermissionsInForce
       /\ focus = "cmd_mode" => CmdMode!SelectionHolds /\ CmdMode!PermissionsInForce
       /\ focus = "cmd_goal" => CmdGoal!SelectionHolds /\ CmdGoal!PermissionsInForce
       /\ focus = "cmd_user" => CmdUser!SelectionHolds /\ CmdUser!PermissionsInForce
       /\ focus = "cmd_rate" => CmdRate!SelectionHolds /\ CmdRate!PermissionsInForce
       /\ focus = "cmd_lose" => CmdLose!SelectionHolds /\ CmdLose!PermissionsInForce
  /\ part = "Delegation" =>
       /\ focus = "delegate_any" => DelAny!WalkIsExact
       /\ focus = "delegate_share" => DelShare!WalkIsExact
       /\ focus = "delegate_fork" => DelFork!WalkIsExact
       /\ focus = "delegate_ralph" => DelRalph!WalkIsExact
       /\ focus = "delegate_nest" => DelNest!WalkIsExact
       /\ focus = "delegate_walk" => DelWalk!WalkIsExact
       /\ focus = "delegate_old" => DelOld!WalkIsExact

\* The fold of the goal ledger refuses an event only where a posted round
\* comes after a change of its goal or a restart resumed a round that was
\* queued again (goal.rs apply_goal_event).
RoundsFold ==
  /\ part = "Goal" => Goals!RoundsFold

\* Every dispatched reminder was recorded, and none is sent twice but for a
\* crash or refusal between enqueue and record (schedule.rs drive).
RemindersAccounted ==
  /\ part = "Schedule" =>
       /\ focus = "schedule" => Sched!RemindersAccounted
       /\ focus = "schedule_batch" => SchedAll!RemindersAccounted

\* Without faults, a pending reminder of a live owner has a timer or a drive
\* that will see it (schedule.rs arm).
RemindersWatched ==
  /\ part = "Schedule" =>
       /\ focus = "schedule" => Sched!RemindersWatched
       /\ focus = "schedule_batch" => SchedAll!RemindersWatched

NothingOutlivesDisposalParts == {"Jobs", "Subagent", "Bridge",
   "LegacyProfile", "WasmPolicy", "Workflow", "ShellSession", "Subprocess",
   "Settings", "Stores", "RemoteAccess", "Projections", "Workspaces", "Tools",
   "Workers", "FileTools", "HostLifecycle", "Delegation"}

\* When a disposal has returned, nothing it disposes of is live or can become
\* so: jobs of an owner (jobs.rs), processes and persistent shells of a
\* session (subprocess.rs, builtin_tools.rs), children of a parent, of a
\* delegation that has answered or of a cleaned-up capability (subagent.rs)
\* or of a workflow run (workflow.rs), calls, timers and routes of a bridge
\* generation (bridge.rs), the legacy profile's process (legacy.rs), calls
\* into a drained WASM policy (bridge.rs), the stores behind settings
\* (settings.rs, storage.rs), streams and tunnels of a revoked device
\* (remote_access.rs, api.rs), observers of projections (host.rs), agents of
\* a removed workspace (workspace.rs), tools of a closed MCP client (mcp.rs),
\* code runs and language servers (code_runtime.rs, lsp.rs), temporary files
\* of a write (filesystem.rs); and once a host's shutdown has run to its end
\* no call, agent, owner, relay or plugin of it is left but what it reported,
\* nor does a call come in behind its drain (host.rs shutdown_inner).
NothingOutlivesDisposal == part \in NothingOutlivesDisposalParts =>
  /\ part = "Jobs" =>
       /\ focus = "jobs" => Job!DisposalLeavesNoJob
       /\ focus = "job_hooks" => JobHook!DisposalLeavesNoJob
  /\ part = "Subagent" =>
       /\ focus = "subagents" => Sub!CleanupJoinsChildren
       /\ focus = "subagent_race" => SubCap!CleanupJoinsChildren
       /\ focus = "subagent_rpc" => SubRpc!CleanupJoinsChildren
  /\ part = "Bridge" =>
       /\ focus = "bridge_requests" => Brg!GenerationLeavesNothing
       /\ focus = "bridge_packages" => BrgPkg!GenerationLeavesNothing
       /\ focus = "bridge_resources" => BrgRes!GenerationLeavesNothing
       /\ focus = "bridge_timers" => BrgTime!GenerationLeavesNothing
       /\ focus = "bridge_web" => BrgWeb!GenerationLeavesNothing
  /\ part = "LegacyProfile" => LegProf!StoppedMeansStopped
  /\ part = "WasmPolicy" => Wasm!DrainedIsQuiet
  /\ part = "Workflow" =>
       /\ focus = "workflow" => Wfl!RunJoinsChildren
       /\ focus = "workflow_replay" => WflRec!RunJoinsChildren
       /\ focus = "workflow_late" => WflLate!RunJoinsChildren
  /\ part = "ShellSession" =>
       /\ focus = "shell" => Shl!UnfinishedRetires /\ Shl!DisableReaps /\ Shl!DoneIsGone
       /\ focus = "shell_disable" => ShlDis!UnfinishedRetires /\ ShlDis!DisableReaps /\ ShlDis!DoneIsGone
       /\ focus = "shell_enable" => ShlOn!UnfinishedRetires /\ ShlOn!DisableReaps /\ ShlOn!DoneIsGone
       /\ focus = "shell_restart" => ShlTwo!UnfinishedRetires /\ ShlTwo!DisableReaps /\ ShlTwo!DoneIsGone
  /\ part = "Subprocess" =>
       /\ focus = "processes" => Sbp!StopReaps /\ Sbp!ShutdownJoins
       /\ focus = "captures" => SbpOut!StopReaps /\ SbpOut!ShutdownJoins
  /\ part = "Settings" =>
       /\ focus = "settings" => Set!ClosedIsQuiet
       /\ focus = "settings_edited" => SetEdit!ClosedIsQuiet
       /\ focus = "settings_crash" => SetCrash!ClosedIsQuiet
       /\ focus = "settings_registration" => SetReg!ClosedIsQuiet
       /\ focus = "settings_left" => SetLeft!ClosedIsQuiet
       /\ focus = "settings_dropped" => SetDrop!ClosedIsQuiet
       /\ focus = "settings_paths" => SetPath!ClosedIsQuiet
  /\ part = "Stores" =>
       /\ focus = "storage" => Kv!StorageDown
  /\ part = "RemoteAccess" =>
       /\ focus = "remote_access" => Rmt!RevokedIsCut /\ Rmt!TunnelStops
       /\ focus = "remote_crash" => RmtCrash!RevokedIsCut /\ RmtCrash!TunnelStops
       /\ focus = "remote_limits" => RmtLim!RevokedIsCut /\ RmtLim!TunnelStops
       /\ focus = "remote_tunnel" => RmtTun!RevokedIsCut /\ RmtTun!TunnelStops
  /\ part = "Projections" =>
       /\ focus = "projections" => Prj!ObserversEnd
       /\ focus = "checkpoints" => PrjCp!ObserversEnd
       /\ focus = "projection_faults" => PrjBad!ObserversEnd
  /\ part = "Workspaces" =>
       /\ focus = "workspaces" => Wsr!AgentsHaveHome
       /\ focus = "workspace_views" => Wsv!AgentsHaveHome
       /\ focus = "workspace_agents" => Wsa!AgentsHaveHome
       /\ focus = "workspace_forget" => Wsg!AgentsHaveHome
       /\ focus = "session_pages" => Wsp!AgentsHaveHome
       /\ focus = "forks" => Wsf!AgentsHaveHome
  /\ part = "Tools" =>
       /\ focus = "tools" => Tol!OwnsExactly /\ Tol!DisposedIsGone
       /\ focus = "mcp" => Mcp!OwnsExactly /\ Mcp!DisposedIsGone
       /\ focus = "mcp_listing" => McpList!OwnsExactly /\ McpList!DisposedIsGone
       /\ focus = "mcp_calls" => McpCall!OwnsExactly /\ McpCall!DisposedIsGone
  /\ part = "Workers" =>
       /\ focus = "code_runs" => Cod!CodeIsReaped /\ Cod!ServersReaped
       /\ focus = "lsp" => Lsp!CodeIsReaped /\ Lsp!ServersReaped
       /\ focus = "lsp_notes" => LspNote!CodeIsReaped /\ LspNote!ServersReaped
       /\ focus = "lsp_registry" => LspReg!CodeIsReaped /\ LspReg!ServersReaped
  /\ part = "FileTools" =>
       /\ focus = "files_shared" => Fil!TempsAreSwept
       /\ focus = "files_apart" => FilTl!TempsAreSwept
       /\ focus = "files_create" => FilNew!TempsAreSwept
  /\ part = "HostLifecycle" =>
       /\ focus = "host_boot" => HBoot!ShutdownReleases /\ HBoot!DrainHolds
       /\ focus = "host_pair" => HPair!ShutdownReleases /\ HPair!DrainHolds
       /\ focus = "host_setup" => HSetup!ShutdownReleases /\ HSetup!DrainHolds
       /\ focus = "host_stop" => HStop!ShutdownReleases /\ HStop!DrainHolds
       /\ focus = "host_tell" => HTell!ShutdownReleases /\ HTell!DrainHolds
       /\ focus = "host_write" => HWrite!ShutdownReleases /\ HWrite!DrainHolds
       /\ focus = "host_prompt" => HPrompt!ShutdownReleases /\ HPrompt!DrainHolds
  /\ part = "Delegation" =>
       /\ focus = "delegate_any" => DelAny!DelegationsCleanUp
       /\ focus = "delegate_share" => DelShare!DelegationsCleanUp
       /\ focus = "delegate_fork" => DelFork!DelegationsCleanUp
       /\ focus = "delegate_ralph" => DelRalph!DelegationsCleanUp
       /\ focus = "delegate_nest" => DelNest!DelegationsCleanUp
       /\ focus = "delegate_walk" => DelWalk!DelegationsCleanUp
       /\ focus = "delegate_old" => DelOld!DelegationsCleanUp

LimitsHoldParts == {"Subagent", "Bridge", "Workflow", "Subprocess",
   "RemoteAccess", "SessionViews", "Tools", "Workers", "FileTools",
   "HostLifecycle", "Delegation"}

\* Limits hold of what they limit, not only of the counters kept for them:
\* child agents, creations and generations of a tree and the rounds of a
\* Ralph run (subagent.rs), children of a workflow run (workflow.rs), timers,
\* subscriptions and callbacks of a bridge generation (bridge.rs), owned
\* processes (subprocess.rs), paired devices (remote_access.rs), remembered
\* tool calls of a view (host.rs), reconnects (mcp.rs), output of a program
\* (code_runtime.rs), live agents of a host (host.rs
\* ensure_agent_under_setup), results of a search or a fetch, which say when
\* they are cut (model_tools.rs).
LimitsHold == part \in LimitsHoldParts =>
  /\ part = "Subagent" =>
       /\ focus = "subagents" => Sub!TreeLimitsHold
       /\ focus = "subagent_race" => SubCap!TreeLimitsHold
       /\ focus = "subagent_rpc" => SubRpc!TreeLimitsHold
  /\ part = "Bridge" =>
       /\ focus = "bridge_requests" => Brg!BridgeLimitsHold
       /\ focus = "bridge_packages" => BrgPkg!BridgeLimitsHold
       /\ focus = "bridge_resources" => BrgRes!BridgeLimitsHold
       /\ focus = "bridge_timers" => BrgTime!BridgeLimitsHold
       /\ focus = "bridge_web" => BrgWeb!BridgeLimitsHold
  /\ part = "Workflow" =>
       /\ focus = "workflow" => Wfl!RepliesComplete
       /\ focus = "workflow_replay" => WflRec!RepliesComplete
       /\ focus = "workflow_late" => WflLate!RepliesComplete
  /\ part = "Subprocess" =>
       /\ focus = "bash" => SbpSh!ShellBounded
  /\ part = "RemoteAccess" =>
       /\ focus = "remote_access" => Rmt!DevicesBounded
       /\ focus = "remote_crash" => RmtCrash!DevicesBounded
       /\ focus = "remote_limits" => RmtLim!DevicesBounded
       /\ focus = "remote_tunnel" => RmtTun!DevicesBounded
  /\ part = "SessionViews" =>
       /\ focus = "view_stats" => Vst!CallsBounded
       /\ focus = "view_facts" => Vfa!CallsBounded
       /\ focus = "view_pages" => Vpg!CallsBounded
  /\ part = "Tools" =>
       /\ focus = "tools" => Tol!ReconnectsBounded
       /\ focus = "mcp" => Mcp!ReconnectsBounded
       /\ focus = "mcp_listing" => McpList!ReconnectsBounded
       /\ focus = "mcp_calls" => McpCall!ReconnectsBounded
  /\ part = "Workers" =>
       /\ focus = "code_runs" => Cod!OutputBounded
       /\ focus = "lsp" => Lsp!OutputBounded
       /\ focus = "lsp_notes" => LspNote!OutputBounded
       /\ focus = "lsp_registry" => LspReg!OutputBounded
  /\ part = "FileTools" =>
       /\ focus = "file_results" => FilIn!CutsAreTold
  /\ part = "HostLifecycle" =>
       /\ focus = "host_boot" => HBoot!CapacityHolds
       /\ focus = "host_pair" => HPair!CapacityHolds
       /\ focus = "host_setup" => HSetup!CapacityHolds
       /\ focus = "host_stop" => HStop!CapacityHolds
       /\ focus = "host_tell" => HTell!CapacityHolds
       /\ focus = "host_write" => HWrite!CapacityHolds
       /\ focus = "host_prompt" => HPrompt!CapacityHolds
  /\ part = "Delegation" =>
       /\ focus = "delegate_any" => DelAny!DelegationsBounded
       /\ focus = "delegate_share" => DelShare!DelegationsBounded
       /\ focus = "delegate_fork" => DelFork!DelegationsBounded
       /\ focus = "delegate_ralph" => DelRalph!DelegationsBounded
       /\ focus = "delegate_nest" => DelNest!DelegationsBounded
       /\ focus = "delegate_walk" => DelWalk!DelegationsBounded
       /\ focus = "delegate_old" => DelOld!DelegationsBounded

RequestsSettleParts == {"Bridge", "ShellSession", "Workers", "HostLifecycle",
   "HostCommands"}

\* A request is settled by its own answer: a cancellation reaches the request
\* it names, whether it comes before, during or after its dispatch (bridge.rs
\* admit, cancel_request), a shell script's result holds its own output
\* (subprocess.rs run_locked), a program's dispatch and a language server's
\* request get the answer with their id (code_runtime.rs, lsp.rs); an
\* answered command is bracketed in the log by its run and its done event and
\* what follows it has begun (host.rs command_execute_inner), and a shutdown
\* waiting for the last call has been woken when there is none (host.rs
\* wait_drained).
RequestsSettle == part \in RequestsSettleParts =>
  /\ part = "Bridge" =>
       /\ focus = "bridge_requests" => Brg!CancelReachesRequest
       /\ focus = "bridge_packages" => BrgPkg!CancelReachesRequest
       /\ focus = "bridge_resources" => BrgRes!CancelReachesRequest
       /\ focus = "bridge_timers" => BrgTime!CancelReachesRequest
  /\ part = "ShellSession" =>
       /\ focus = "shell" => Shl!OutputIsOwn
       /\ focus = "shell_disable" => ShlDis!OutputIsOwn
       /\ focus = "shell_enable" => ShlOn!OutputIsOwn
       /\ focus = "shell_restart" => ShlTwo!OutputIsOwn
  /\ part = "Workers" =>
       /\ focus = "code_runs" => Cod!DispatchesPaired /\ Cod!AnswersMatch
       /\ focus = "lsp" => Lsp!DispatchesPaired /\ Lsp!AnswersMatch
       /\ focus = "lsp_notes" => LspNote!DispatchesPaired /\ LspNote!AnswersMatch
       /\ focus = "lsp_registry" => LspReg!DispatchesPaired /\ LspReg!AnswersMatch
  /\ part = "HostLifecycle" =>
       /\ focus = "host_boot" => HBoot!DrainIsNoticed
       /\ focus = "host_pair" => HPair!DrainIsNoticed
       /\ focus = "host_setup" => HSetup!DrainIsNoticed
       /\ focus = "host_stop" => HStop!DrainIsNoticed
       /\ focus = "host_tell" => HTell!DrainIsNoticed
       /\ focus = "host_write" => HWrite!DrainIsNoticed
       /\ focus = "host_prompt" => HPrompt!DrainIsNoticed
  /\ part = "HostCommands" =>
       /\ focus = "cmd_permission" => CmdPerm!CommandsBracketed
       /\ focus = "cmd_all" => CmdAll!CommandsBracketed
       /\ focus = "cmd_mode" => CmdMode!CommandsBracketed
       /\ focus = "cmd_goal" => CmdGoal!CommandsBracketed
       /\ focus = "cmd_user" => CmdUser!CommandsBracketed
       /\ focus = "cmd_rate" => CmdRate!CommandsBracketed
       /\ focus = "cmd_lose" => CmdLose!CommandsBracketed

WatchersCatchUpParts == {"Watch", "Projections", "SessionViews", "Workspaces",
   "FileTools", "SessionQueries", "HostLifecycle"}

\* A reader sees everything once: a client of a session's stream has or will
\* get every event from the start of its relay on, and shows the requests
\* that are open, unless it is told of lag (host.rs ensure_relay, api.rs
\* sse_events, compat_websocket); pages of a history, of a list of sessions
\* or of a file cover it, frames of a workspace follow it (host.rs,
\* workspace.rs), queries over sessions answer with one snapshot that holds
\* what was known when they were asked, ranked and excerpted as they say
\* (session_query.rs, host.rs), a search looks at every file, and a shown
\* diff turns the text before into the text after (model_tools.rs); the
\* answer to an SDK client's shutdown comes behind every notification (sdk.rs
\* serve).
WatchersCatchUp == part \in WatchersCatchUpParts =>
  /\ part = "Watch" =>
       /\ focus = "sse" => WchSse!WatchersCatchUp
       /\ focus = "sockets" => WchSock!WatchersCatchUp
       /\ focus = "mux" => WchMux!WatchersCatchUp
  /\ part = "Projections" =>
       /\ focus = "projections" => Prj!ObserverCatchesUp /\ Prj!NewestIsPublished
       /\ focus = "checkpoints" => PrjCp!ObserverCatchesUp /\ PrjCp!NewestIsPublished
       /\ focus = "projection_faults" => PrjBad!ObserverCatchesUp /\ PrjBad!NewestIsPublished
  /\ part = "SessionViews" =>
       /\ focus = "view_stats" => Vst!ProjectionsFollowLog /\ Vst!ResultsShowTheirCall /\ Vst!PagesCoverLog
       /\ focus = "view_facts" => Vfa!ProjectionsFollowLog /\ Vfa!ResultsShowTheirCall /\ Vfa!PagesCoverLog
       /\ focus = "view_pages" => Vpg!ProjectionsFollowLog /\ Vpg!ResultsShowTheirCall /\ Vpg!PagesCoverLog
  /\ part = "Workspaces" =>
       /\ focus = "workspaces" => Wsr!WorkspaceViewsAgree /\ Wsr!ListingIsWhole
       /\ focus = "workspace_views" => Wsv!WorkspaceViewsAgree /\ Wsv!ListingIsWhole
       /\ focus = "workspace_agents" => Wsa!WorkspaceViewsAgree /\ Wsa!ListingIsWhole
       /\ focus = "workspace_forget" => Wsg!WorkspaceViewsAgree /\ Wsg!ListingIsWhole
       /\ focus = "session_pages" => Wsp!WorkspaceViewsAgree /\ Wsp!ListingIsWhole
       /\ focus = "forks" => Wsf!WorkspaceViewsAgree /\ Wsf!ListingIsWhole
  /\ part = "FileTools" =>
       /\ focus = "file_results" => FilIn!SearchIsComplete /\ FilIn!PagesShowTheFile /\ FilIn!DiffApplies
  /\ part = "SessionQueries" =>
       /\ focus = "query_list" => QryList!PagesAreOneSnapshot /\ QryList!AnswersAreFresh
       /\ focus = "query_log" => QryLog!PagesAreOneSnapshot /\ QryLog!AnswersAreFresh
       /\ focus = "query_search" => QryFind!PagesAreOneSnapshot /\ QryFind!AnswersAreFresh /\ QryFind!SearchIsRanked
       /\ focus = "query_summaries" => QrySum!SummariesAreFresh
       /\ focus = "query_modes" => QryMode!SummariesAreFresh
       /\ focus = "query_text" => QryText!FoundIsShown
  /\ part = "HostLifecycle" =>
       /\ focus = "host_boot" => HBoot!ByeIsLast
       /\ focus = "host_pair" => HPair!ByeIsLast
       /\ focus = "host_setup" => HSetup!ByeIsLast
       /\ focus = "host_stop" => HStop!ByeIsLast
       /\ focus = "host_tell" => HTell!ByeIsLast
       /\ focus = "host_write" => HWrite!ByeIsLast
       /\ focus = "host_prompt" => HPrompt!ByeIsLast

\* A plugin mutation commits whole or puts the profile back as it was, and
\* runs alone, but for two takers of one dead owner's lock and what a dropped
\* or dead run left going (plugin_manager.rs, bridge.rs handle); a session of
\* a host has all the services of its agent or none, also when their set-up
\* failed half way (host.rs ensure_agent_under_setup).
RollbackRestores ==
  /\ part = "PluginProfile" =>
       /\ focus = "profile" => Prof!MutationIsWhole /\ Prof!LockExcludes
       /\ focus = "profile_dropped" => ProfDrop!MutationIsWhole /\ ProfDrop!LockExcludes
       /\ focus = "market" => ProfMarket!MutationIsWhole
       /\ focus = "profile_lock" => ProfLock!LockExcludes
  /\ part = "HostLifecycle" =>
       /\ focus = "host_boot" => HBoot!SetupIsWhole
       /\ focus = "host_pair" => HPair!SetupIsWhole
       /\ focus = "host_setup" => HSetup!SetupIsWhole
       /\ focus = "host_stop" => HStop!SetupIsWhole
       /\ focus = "host_tell" => HTell!SetupIsWhole
       /\ focus = "host_write" => HWrite!SetupIsWhole
       /\ focus = "host_prompt" => HPrompt!SetupIsWhole

\* Compaction never splits a tool call from its result, drops the seed, the
\* newest prompt or context, plans what it then refuses or runs out of steps;
\* it leaves a compaction open only when an append is refused or its request
\* is dropped (compaction.rs).
CompactionKeepsContext ==
  /\ part = "Compaction" =>
       /\ focus = "compaction" => Cpt!ContextSurvives /\ Cpt!PlansAreSound /\ Cpt!AttemptsClose
       /\ focus = "compaction_limits" => CptLim!ContextSurvives /\ CptLim!PlansAreSound /\ CptLim!AttemptsClose

StreamsWellFormedParts == {"Subprocess", "ProviderStream", "Replay",
   "Framing", "ProviderRequest"}

\* What is read from a stream is what was written to it, however it was cut
\* up: captured process output (subprocess.rs), event streams, shell frames
\* and base64 (openai_responses.rs, subprocess.rs, attachments.rs,
\* bridge.rs), the request bodies made from a conversation, the message
\* assembled from a provider's events (openai_responses.rs,
\* compatible_api.rs, llm.rs), and recorded model calls played back (llm.rs).
StreamsWellFormed == part \in StreamsWellFormedParts =>
  /\ part = "Subprocess" =>
       /\ focus = "processes" => Sbp!ReadsAreExact
       /\ focus = "captures" => SbpOut!ReadsAreExact
  /\ part = "ProviderStream" =>
       /\ focus = "responses_api" => Rsp!ChunksWellFormed /\ Rsp!MessageIsStream
       /\ focus = "responses_reasoning" => RspRsn!ChunksWellFormed /\ RspRsn!MessageIsStream
       /\ focus = "chat_api" => Cht!ChunksWellFormed /\ Cht!MessageIsStream
       /\ focus = "anthropic_api" => Ant!ChunksWellFormed /\ Ant!MessageIsStream
  /\ part = "Replay" =>
       /\ focus = "replay" => Rpl!RecordedIsReplayed /\ Rpl!ClaimsInOrder /\ Rpl!AttemptsDelivered
       /\ focus = "replay_two" => RplTwo!RecordedIsReplayed /\ RplTwo!ClaimsInOrder /\ RplTwo!AttemptsDelivered
       /\ focus = "replay_override" => RplOvr!RecordedIsReplayed /\ RplOvr!ClaimsInOrder /\ RplOvr!AttemptsDelivered
       /\ focus = "replay_routes" => RplRaw!RecordedIsReplayed /\ RplRaw!ClaimsInOrder /\ RplRaw!AttemptsDelivered
  /\ part = "Framing" =>
       /\ focus = "sse_frames" => Sse!EventsWhole
       /\ focus = "shell_frames" => Frm!MarkersFound
       /\ focus = "base64" => B64!Base64Agrees
  /\ part = "ProviderRequest" => Req!CallsArePaired /\ Req!TextIsKept /\ Req!NamesResolve

WritesAreAtomicParts == {"Settings", "Stores", "Routes", "RemoteAccess",
   "Workspaces", "Workers", "FileTools", "SqliteStore", "HostCommands"}

\* A write to a shared document keeps every other section, memory follows
\* what was written but for an edit or the rename of a dropped caller it has
\* not heard of, and a check against a revision catches every change in
\* between (settings.rs, credentials.rs, storage.rs, attachments.rs,
\* remote_access.rs, workspace.rs, lsp.rs, and the provider routes of
\* host.rs); a file tool publishes whole texts, inside the workspace, over
\* the text it says it replaced (filesystem.rs); a session in the database is
\* whole or absent whichever statement of a transaction fails
\* (persistence_sqlite.rs); acknowledged feedback stays until a change that
\* names its version (host.rs MessageFeedbackStore).
WritesAreAtomic == part \in WritesAreAtomicParts =>
  /\ part = "Settings" =>
       /\ focus = "settings" => Set!SectionsSurvive /\ Set!MemoryIsFile /\ Set!ConflictsCaught /\ Set!ShownIsSafe /\ Set!SetIsRead
       /\ focus = "settings_edited" => SetEdit!SectionsSurvive /\ SetEdit!MemoryIsFile /\ SetEdit!ConflictsCaught /\ SetEdit!ShownIsSafe /\ SetEdit!SetIsRead
       /\ focus = "settings_crash" => SetCrash!SectionsSurvive /\ SetCrash!MemoryIsFile /\ SetCrash!ConflictsCaught /\ SetCrash!ShownIsSafe /\ SetCrash!SetIsRead
       /\ focus = "settings_registration" => SetReg!SectionsSurvive /\ SetReg!MemoryIsFile /\ SetReg!ConflictsCaught /\ SetReg!ShownIsSafe /\ SetReg!SetIsRead
       /\ focus = "settings_left" => SetLeft!SectionsSurvive /\ SetLeft!MemoryIsFile /\ SetLeft!ConflictsCaught /\ SetLeft!ShownIsSafe /\ SetLeft!SetIsRead
       /\ focus = "settings_dropped" => SetDrop!SectionsSurvive /\ SetDrop!MemoryIsFile /\ SetDrop!ConflictsCaught /\ SetDrop!ShownIsSafe /\ SetDrop!SetIsRead
       /\ focus = "settings_paths" => SetPath!SectionsSurvive /\ SetPath!MemoryIsFile /\ SetPath!ConflictsCaught /\ SetPath!ShownIsSafe /\ SetPath!SetIsRead
  /\ part = "Stores" =>
       /\ focus = "credentials" => Crd!CredentialsTold
       /\ focus = "storage" => Kv!OneView
       /\ focus = "attachments" => Att!ReferencedIsKept
  /\ part = "Routes" =>
       /\ focus = "routes" => Rte!RoutesFollowSettings /\ Rte!OwnersKeepSlots /\ Rte!RoutedIsServed /\ Rte!SelectionHolds
       /\ focus = "models" => RteSel!RoutesFollowSettings /\ RteSel!OwnersKeepSlots /\ RteSel!RoutedIsServed /\ RteSel!SelectionHolds
  /\ part = "RemoteAccess" =>
       /\ focus = "remote_access" => Rmt!OneDevicePerToken /\ Rmt!RevocationLasts /\ Rmt!PairedIsKnown /\ Rmt!TrustFollowsTunnel
       /\ focus = "remote_crash" => RmtCrash!OneDevicePerToken /\ RmtCrash!RevocationLasts /\ RmtCrash!PairedIsKnown /\ RmtCrash!TrustFollowsTunnel
       /\ focus = "remote_limits" => RmtLim!OneDevicePerToken /\ RmtLim!RevocationLasts /\ RmtLim!PairedIsKnown /\ RmtLim!TrustFollowsTunnel
       /\ focus = "remote_tunnel" => RmtTun!OneDevicePerToken /\ RmtTun!RevocationLasts /\ RmtTun!PairedIsKnown /\ RmtTun!TrustFollowsTunnel
  /\ part = "Workspaces" =>
       /\ focus = "workspaces" => Wsr!RegistryReopens /\ Wsr!RegistryDurable
       /\ focus = "workspace_views" => Wsv!RegistryReopens /\ Wsv!RegistryDurable
       /\ focus = "workspace_agents" => Wsa!RegistryReopens /\ Wsa!RegistryDurable
       /\ focus = "workspace_forget" => Wsg!RegistryReopens /\ Wsg!RegistryDurable
       /\ focus = "session_pages" => Wsp!RegistryReopens /\ Wsp!RegistryDurable
       /\ focus = "forks" => Wsf!RegistryReopens /\ Wsf!RegistryDurable
  /\ part = "Workers" =>
       /\ focus = "code_runs" => Cod!ExtensionsOwned
       /\ focus = "lsp" => Lsp!ExtensionsOwned
       /\ focus = "lsp_notes" => LspNote!ExtensionsOwned
       /\ focus = "lsp_registry" => LspReg!ExtensionsOwned
  /\ part = "FileTools" =>
       /\ focus = "files_shared" => Fil!OutcomeIsExact /\ Fil!Confined /\ Fil!FilesAreWhole /\ Fil!CreatesReplaceNothing /\ Fil!ResultIsTrue
       /\ focus = "files_apart" => FilTl!Confined /\ FilTl!FilesAreWhole /\ FilTl!CreatesReplaceNothing /\ FilTl!ResultIsTrue
       /\ focus = "files_create" => FilNew!Confined /\ FilNew!FilesAreWhole /\ FilNew!CreatesReplaceNothing /\ FilNew!ResultIsTrue
  /\ part = "SqliteStore" =>
       /\ focus = "sqlite" => Sql!CommittedIsWhole
       /\ focus = "sqlite_migration" => SqlMig!CommittedIsWhole
       /\ focus = "sqlite_list" => SqlList!CommittedIsWhole
  /\ part = "HostCommands" =>
       /\ focus = "cmd_permission" => CmdPerm!FeedbackKept
       /\ focus = "cmd_all" => CmdAll!FeedbackKept
       /\ focus = "cmd_mode" => CmdMode!FeedbackKept
       /\ focus = "cmd_goal" => CmdGoal!FeedbackKept
       /\ focus = "cmd_user" => CmdUser!FeedbackKept
       /\ focus = "cmd_rate" => CmdRate!FeedbackKept
       /\ focus = "cmd_lose" => CmdLose!FeedbackKept

\* A commit that changes a session of the database and leaves it there
\* advances its revision by one (persistence_sqlite.rs).
RevisionAdvances == [][
  /\ part = "SqliteStore" =>
       /\ focus = "sqlite" => Sql!RevisionStep
       /\ focus = "sqlite_migration" => SqlMig!RevisionStep
       /\ focus = "sqlite_list" => SqlList!RevisionStep]_vars

=============================================================================
