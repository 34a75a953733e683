---------------------------- MODULE PluginProfile ---------------------------
(***************************************************************************)
(* The plugin profile (src/src/plugin_manager.rs): the directory lock with *)
(* its stale-owner takeover, and the mutations that run under it - an add  *)
(* or remove from the command line or the bridge, an install, the          *)
(* migration to the first-party market, and the host's load.  A mutation   *)
(* captures package.json and the lock file, runs pnpm, validates what came *)
(* of it and records the bundles, or restores what it captured.  pnpm is   *)
(* external: a failed run may leave any part of its work done.  The bridge *)
(* gives up on a run after as long as the run itself allows pnpm, a little *)
(* earlier: the run is dropped and its lock with it, while pnpm, or the    *)
(* worker that validates or restores, goes on.  So does the pnpm of a      *)
(* process that crashes.  (What the bridge's process does next is done by  *)
(* another process here.)                                                  *)
(***************************************************************************)
EXTENDS Integers, Sequences, FiniteSets, SequencesExt

CONSTANTS
  Procs,     \* processes; one that crashes stays dead
  Bundled,   \* those that declare dsh.bundle.patch
  Broken,    \* those validate_candidate_package refuses
  Market, Legacy, Retired, \* the first-party market, a market it replaces, a package it retires
  Ops,       \* operations: [kind, pkg], kind of "add", "remove", "install", "market", "load"
  Initial,   \* manifests the profile may have
  MaxOps,    \* bound: operations of a process
  MaxCrashes \* bound: crashes and dropped runs

VARIABLES
  lockOwner, \* .tessivum-profile.lock: Free, Unwritten (no owner.json), or a nonce
  stale,     \* nonces with a .stale-<nonce> directory
  manifest,  \* package.json: [exists, deps, recorded, bundles], bundles recorded or not
  lockfile,  \* pnpm-lock.yaml: <<>> or the packages it pins
  modules,   \* packages under node_modules
  proc,      \* one process
  crashes

vars == <<lockOwner, stale, manifest, lockfile, modules, proc, crashes>>
files == <<manifest, lockfile, modules>>

Free == <<>>
Unwritten == <<"unwritten">>
NoManifest == [exists |-> FALSE, deps |-> {}, recorded |-> FALSE, bundles |-> <<>>]
EmptyManifest == [NoManifest EXCEPT !.exists = TRUE]
NoSnap == [manifest |-> NoManifest, lockfile |-> <<>>]
NoProc == [at |-> "idle", alive |-> TRUE, ops |-> 0, op |-> [kind |-> "load", pkg |-> Market], saw |-> Free,
           snap |-> NoSnap, before |-> NoManifest, started |-> FALSE,
           new |-> <<>>, todo |-> {}, took |-> {}, dropped |-> FALSE, wanted |-> {}, mixed |-> FALSE]

Init ==
  /\ lockOwner = Free /\ stale = {} /\ crashes = 0
  /\ manifest \in Initial
  /\ lockfile = IF manifest.exists THEN <<manifest.deps>> ELSE <<>>
  /\ modules = manifest.deps
  /\ proc = [p \in Procs |-> NoProc]

Nonce(p) == <<p, proc[p].ops>>
Goto(p, at) == proc' = [proc EXCEPT ![p].at = at]
At(p, at) == [NoProc EXCEPT !.at = at, !.alive = proc[p].alive, !.ops = proc[p].ops]
Rest(p) == proc' = [proc EXCEPT ![p] = At(p, "idle")]
Holding(p) == proc[p].at \notin {"idle", "create", "owner", "rename"}
\* Work that goes on without a lock.
Loose(p) == proc[p].dropped /\ proc[p].at # "idle"
\* Where a step that fails goes: there is no one to roll back for a dropped run.
Undo(p) == IF proc[p].dropped THEN "idle" ELSE "rollback"

-----------------------------------------------------------------------------
(* ProfileLock *)

Begin(p, op) ==
  /\ proc[p].at = "idle" /\ proc[p].alive /\ proc[p].ops < MaxOps
  /\ op.kind = "load" => manifest.exists
  /\ proc' = [proc EXCEPT ![p] = [NoProc EXCEPT !.at = "create", !.op = op, !.ops = proc[p].ops + 1]]
  /\ UNCHANGED <<lockOwner, stale, files, crashes>>

\* fs::create_dir succeeds ...
CreateDir(p) ==
  /\ proc[p].at = "create" /\ lockOwner = Free
  /\ lockOwner' = Unwritten /\ Goto(p, "owner")
  /\ UNCHANGED <<stale, files, crashes>>

\* ... and the owner is written.
WriteOwner(p) ==
  /\ proc[p].at = "owner" /\ lockOwner' = Nonce(p) /\ Goto(p, "sweep")
  /\ UNCHANGED <<stale, files, crashes>>

\* The stale directories this call has renamed are removed before it returns.
SweepStale(p) ==
  /\ proc[p].at = "sweep" /\ stale' = stale \ proc[p].took /\ Goto(p, "capture")
  /\ UNCHANGED <<lockOwner, files, crashes>>

\* AlreadyExists: the owner is read; none yet, or a live one, is Busy.
ReadOwner(p) ==
  /\ proc[p].at = "create" /\ lockOwner # Free
  /\ proc' = [proc EXCEPT ![p] =
       IF lockOwner = Unwritten \/ proc[lockOwner[1]].alive THEN At(p, "idle")
       ELSE [@ EXCEPT !.at = "rename", !.saw = lockOwner]]
  /\ UNCHANGED <<lockOwner, stale, files, crashes>>

\* fs::rename of whatever lock is there now, to the name of the owner it saw;
\* it fails when there is none or when that name is taken.
RenameStale(p) ==
  /\ proc[p].at = "rename"
  /\ IF lockOwner = Free \/ proc[p].saw \in stale
     THEN Goto(p, "create") /\ UNCHANGED <<lockOwner, stale>>
     ELSE /\ lockOwner' = Free /\ stale' = stale \cup {proc[p].saw}
          /\ proc' = [proc EXCEPT ![p] = [@ EXCEPT !.at = "create", !.took = @ \cup {proc[p].saw}]]
  /\ UNCHANGED <<files, crashes>>

\* Drop: only the owner it wrote itself is removed.
Unlock(p) ==
  /\ proc[p].at \in {"committed", "loaded", "restored", "unproven"}
  /\ lockOwner' = IF lockOwner = Nonce(p) THEN Free ELSE lockOwner
  /\ Rest(p)
  /\ UNCHANGED <<stale, files, crashes>>

\* What p leaves going, which from then on mixes with what the others do.
Leaves(p, rec) ==
  proc' = [q \in Procs |-> IF q = p THEN rec
                           ELSE IF Holding(q) THEN [proc[q] EXCEPT !.mixed = TRUE] ELSE proc[q]]

\* What a pnpm under way would make of the dependencies.
Wanted(p) ==
  CASE proc[p].op.kind = "add" -> manifest.deps \cup {proc[p].op.pkg}
    [] proc[p].op.kind = "remove" -> manifest.deps \ {proc[p].op.pkg}
    [] proc[p].op.kind = "market" -> manifest.deps \cup {Market}
    [] OTHER -> manifest.deps
UnderWay(p) ==
  CASE proc[p].at = "pnpm" -> {Wanted(p)}
    [] proc[p].at = "retire" -> {manifest.deps \ {x} : x \in proc[p].todo}
    [] proc[p].at = "reinstall" -> {manifest.deps}
    [] OTHER -> {}
Astray(p, wanted) == [At(p, "astray") EXCEPT !.dropped = TRUE, !.wanted = wanted, !.before = manifest]

\* The process dies, at once with its pnpm or before it.
Crash(p) ==
  /\ crashes < MaxCrashes /\ proc[p].at \notin {"idle", "astray"} /\ proc[p].alive
  /\ crashes' = crashes + 1
  /\ \/ proc' = [proc EXCEPT ![p] = [NoProc EXCEPT !.alive = FALSE]]
     \/ manifest.exists /\ \E w \in UnderWay(p) : Leaves(p, [Astray(p, w) EXCEPT !.alive = FALSE])
  /\ UNCHANGED <<lockOwner, stale, files>>

\* DomainBridge::handle: the outer timeout drops a run of the bridge, and the
\* drop of its ProfileLock frees the lock.  pnpm is not killed with its handle;
\* a blocking worker runs to its end.
DropsRun(p) ==
  /\ crashes < MaxCrashes /\ proc[p].alive /\ ~proc[p].dropped /\ proc[p].op.kind \in {"add", "remove", "install"}
  /\ proc[p].at \in {"pnpm", "validate", "reconcile", "rollback", "reinstall", "prove"}
  /\ crashes' = crashes + 1
  /\ Leaves(p, IF proc[p].at = "pnpm" THEN Astray(p, Wanted(p)) ELSE [proc[p] EXCEPT !.dropped = TRUE])
  /\ lockOwner' = IF lockOwner = Nonce(p) THEN Free ELSE lockOwner
  /\ UNCHANGED <<stale, files>>

\* A pnpm nobody waits for writes any part of what it set out to, from the
\* manifest it had read, at any time until it ends.
PnpmAstray(p) ==
  /\ proc[p].at = "astray" /\ (Rest(p) \/ UNCHANGED proc)
  /\ manifest' \in {manifest, [proc[p].before EXCEPT !.deps = proc[p].wanted]}
  /\ lockfile' \in {lockfile, <<proc[p].wanted>>}
  /\ modules' \in {modules, proc[p].wanted, modules \cap proc[p].wanted}
  /\ UNCHANGED <<lockOwner, stale, crashes>>

-----------------------------------------------------------------------------
(* Reading and recording the profile *)

Installed(S) == S \subseteq modules
\* resolve_profile_bundles, build_bundle_entries.
BundlesResolve(m) ==
  ~m.recorded \/ LET names == ToSet(m.bundles) IN names \subseteq m.deps \cap Bundled /\ Installed(names)
\* derive_profile_bundles, in the order of the dependencies.
Derived(deps) == SetToSeq(deps \cap Bundled)
\* load_profile: bundles that are not recorded are derived and written.
Loads(m) == IF m.recorded THEN BundlesResolve(m) ELSE Installed(m.deps)
Recorded(m, names) == [m EXCEPT !.recorded = TRUE, !.bundles = names]
Migrated(m) == IF m.recorded THEN m ELSE Recorded(m, Derived(m.deps))

Capture(p) ==
  /\ proc[p].at = "capture"
  /\ proc' = [proc EXCEPT ![p] = [@ EXCEPT !.snap = [manifest |-> manifest, lockfile |-> lockfile],
                                          !.mixed = \E q \in Procs : Loose(q),
                                          !.at = IF proc[p].op.kind = "load" THEN "load" ELSE "prepare"]]
  /\ UNCHANGED <<lockOwner, stale, files, crashes>>

\* load_plugin_entries.
Load(p) ==
  /\ proc[p].at = "load"
  /\ manifest' = IF Loads(manifest) THEN Migrated(manifest) ELSE manifest
  /\ Goto(p, "loaded")
  /\ UNCHANGED <<lockOwner, stale, lockfile, modules, crashes>>

\* ensure_profile and load_profile(migrate).
Prepare(p) ==
  /\ proc[p].at = "prepare" /\ proc[p].op.kind # "market"
  /\ LET m == IF manifest.exists THEN manifest ELSE EmptyManifest
         next == IF Loads(m) THEN Migrated(m) ELSE m
     IN /\ manifest' = next
        /\ proc' = [proc EXCEPT ![p] = [@ EXCEPT !.before = next, !.at = IF Loads(m) THEN "pnpm" ELSE "rollback"]]
  /\ UNCHANGED <<lockOwner, stale, lockfile, modules, crashes>>

\* preflight_materialized_candidate, or a file that cannot be written.
PrepareFails(p) ==
  /\ proc[p].at = "prepare" /\ Goto(p, "rollback")
  /\ UNCHANGED <<lockOwner, stale, files, crashes>>

-----------------------------------------------------------------------------
(* pnpm *)

\* The child exits with success.
Pnpm(p) ==
  /\ proc[p].at = "pnpm" /\ manifest.exists
  /\ manifest' = [manifest EXCEPT !.deps = Wanted(p)]
  /\ lockfile' = <<Wanted(p)>> /\ modules' = Wanted(p)
  /\ proc' = [proc EXCEPT ![p] = [@ EXCEPT !.started = TRUE, !.at = "validate"]]
  /\ UNCHANGED <<lockOwner, stale, crashes>>

\* A failed exit, a cancellation, a timeout, a sink or wait error: the
\* process group is stopped with any part of its work done.
PnpmFails(p) ==
  /\ proc[p].at = "pnpm" /\ manifest.exists
  /\ manifest' \in {manifest, [manifest EXCEPT !.deps = Wanted(p)]}
  /\ lockfile' \in {lockfile, <<Wanted(p)>>}
  /\ modules' \in {modules, Wanted(p), modules \cap Wanted(p)}
  /\ proc' = [proc EXCEPT ![p] = [@ EXCEPT !.started = TRUE, !.at = "rollback"]]
  /\ UNCHANGED <<lockOwner, stale, crashes>>

SpawnFails(p) ==
  /\ proc[p].at = "pnpm" /\ Goto(p, "rollback")
  /\ UNCHANGED <<lockOwner, stale, files, crashes>>

\* validate_candidate_package.
CandidateValid(pkg) == pkg \notin Broken /\ Installed({pkg})

\* validate_mutation_candidate: only an added package is looked at.
Validate(p) ==
  /\ proc[p].at = "validate" /\ proc[p].op.kind # "market"
  /\ Goto(p, IF proc[p].op.kind = "add" => CandidateValid(proc[p].op.pkg) THEN "reconcile" ELSE Undo(p))
  /\ UNCHANGED <<lockOwner, stale, files, crashes>>

\* The bundles reconcile_profile records.
Reconciled(p) ==
  LET kept(names) == SelectSeq(names, LAMBDA x : x \in manifest.deps)
      fresh == SetToSeq((manifest.deps \ proc[p].before.deps) \cap Bundled)
  IN IF proc[p].op.kind = "install"
     THEN kept(IF manifest.recorded THEN manifest.bundles ELSE proc[p].before.bundles)
     ELSE kept(proc[p].before.bundles) \o fresh

Reconcile(p) ==
  /\ proc[p].at = "reconcile" /\ manifest.exists
  /\ LET m == Recorded(manifest, Reconciled(p))
     IN IF BundlesResolve(m) THEN manifest' = m /\ Goto(p, "committed")
        ELSE Goto(p, Undo(p)) /\ UNCHANGED manifest
  /\ UNCHANGED <<lockOwner, stale, lockfile, modules, crashes>>

\* A write that fails, or the legacy package-lock.json that cannot be removed
\* once the bundles are recorded.
ReconcileFails(p) ==
  /\ proc[p].at = "reconcile"
  /\ manifest' \in {manifest, Recorded(manifest, Reconciled(p))}
  /\ Goto(p, Undo(p))
  /\ UNCHANGED <<lockOwner, stale, lockfile, modules, crashes>>

-----------------------------------------------------------------------------
(* The first-party market *)

\* FirstPartyMarketMigration::market_bundles.
MarketBundles(m, old) ==
  LET legacy == Legacy \in m.deps
      renamed == [i \in DOMAIN old |-> IF legacy /\ old[i] = Legacy THEN Market ELSE old[i]]
      left == SelectSeq(renamed, LAMBDA x : x # Retired)
  IN IF m.recorded \/ Contains(left, Market) THEN left ELSE Append(left, Market)

\* ensure_profile and FirstPartyMarketMigration::discover; the bundles it goes
\* on to record are kept in before, and todo holds what it will remove.  A
\* profile that already has the market (first_party_market_is_current) is done.
Discover(p) ==
  /\ proc[p].at = "prepare" /\ proc[p].op.kind = "market"
  /\ LET m == IF manifest.exists THEN manifest ELSE EmptyManifest
         kept == m.deps \ {Retired}
         old == IF m.recorded THEN m.bundles ELSE Derived(kept)
         new == MarketBundles(m, old)
         ready == (m.recorded \/ Installed(kept)) /\ IsInjective(new) /\ (Contains(old, Legacy) => Legacy \in m.deps)
         todo == m.deps \cap {Legacy, Retired}
         current == /\ todo = {} /\ m.recorded /\ m.bundles = new /\ Market \in m.deps \ Broken
                    /\ Installed({Market}) /\ BundlesResolve(m)
     IN /\ manifest' = m
        /\ proc' = [proc EXCEPT ![p] =
             IF ~ready THEN [@ EXCEPT !.at = "rollback"]
             ELSE [@ EXCEPT !.before = Recorded(m, old), !.new = new, !.todo = todo,
                            !.at = IF current THEN "committed" ELSE "pnpm"]]
  /\ UNCHANGED <<lockOwner, stale, lockfile, modules, crashes>>

\* write_first_party_market_manifest(false) and the validation of the install.
MarketRecord(p) ==
  /\ proc[p].at = "validate" /\ proc[p].op.kind = "market"
  /\ LET m == [Recorded(manifest, proc[p].new) EXCEPT !.deps = @ \cup {Market}]
     IN manifest' = m /\ Goto(p, IF BundlesResolve(m) /\ Market \notin Broken THEN "retire" ELSE "rollback")
  /\ UNCHANGED <<lockOwner, stale, lockfile, modules, crashes>>

\* pnpm remove of a package the market replaces, which may fail half way.
Retire(p) ==
  /\ proc[p].at = "retire"
  /\ \E x \in proc[p].todo :
       LET left == manifest.deps \ {x}
       IN \/ /\ manifest' = [manifest EXCEPT !.deps = left] /\ lockfile' = <<left>> /\ modules' = modules \ {x}
             /\ proc' = [proc EXCEPT ![p].todo = @ \ {x}]
          \/ /\ manifest' \in {manifest, [manifest EXCEPT !.deps = left]} /\ lockfile' \in {lockfile, <<left>>}
             /\ modules' \in {modules, modules \ {x}} /\ Goto(p, "rollback")
  /\ UNCHANGED <<lockOwner, stale, crashes>>

\* write_first_party_market_manifest(true) and the final validation.
MarketDone(p) ==
  /\ proc[p].at = "retire" /\ proc[p].todo = {}
  /\ LET m == Recorded(manifest, proc[p].new)
     IN manifest' = m /\ Goto(p, IF BundlesResolve(m) /\ modules \cap {Legacy, Retired} = {} THEN "committed" ELSE "rollback")
  /\ UNCHANGED <<lockOwner, stale, lockfile, modules, crashes>>

-----------------------------------------------------------------------------
(* Rollback *)

\* restore: both files, each through a temporary and a rename.
RestoreFiles(p) ==
  /\ proc[p].at = "rollback"
  /\ manifest' = proc[p].snap.manifest /\ lockfile' = proc[p].snap.lockfile
  /\ Goto(p, IF proc[p].started THEN "reinstall" ELSE "prove")
  /\ UNCHANGED <<lockOwner, stale, modules, crashes>>

\* Mutant: node_modules is left as pnpm left it.
ReinstallSkipped(p) ==
  /\ proc[p].at = "reinstall" /\ Goto(p, "prove")
  /\ UNCHANGED <<lockOwner, stale, files, crashes>>

\* restore_profile_node_modules, rollback_first_party_market: pnpm install of
\* the restored manifest, or removal where there was none.
Reinstall(p) ==
  /\ proc[p].at = "reinstall"
  /\ modules' = IF manifest.exists THEN manifest.deps
                ELSE IF proc[p].op.kind = "market" THEN modules \ {Market} ELSE {}
  /\ Goto(p, "prove")
  /\ UNCHANGED <<lockOwner, stale, manifest, lockfile, crashes>>

ReinstallFails(p) ==
  /\ proc[p].at = "reinstall" /\ manifest.exists
  /\ modules' \in {modules, modules \cap manifest.deps}
  /\ Goto(p, "unproven")
  /\ UNCHANGED <<lockOwner, stale, manifest, lockfile, crashes>>

\* The second restore, verify, and the proof that the packages are there: every
\* dependency, or for the market what it had found.
Prove(p) ==
  /\ proc[p].at = "prove"
  /\ LET s == proc[p].snap.manifest
         market == proc[p].op.kind = "market"
         needed == IF market THEN proc[p].before.deps \cap {Legacy, Retired} ELSE s.deps
         read == IF market /\ proc[p].before.exists THEN Recorded(s, proc[p].before.bundles) ELSE s
     IN /\ manifest' = s /\ lockfile' = proc[p].snap.lockfile
        /\ Goto(p, IF s.exists => BundlesResolve(read) /\ Installed(needed) THEN "restored" ELSE "unproven")
  /\ UNCHANGED <<lockOwner, stale, modules, crashes>>

RestoreFails(p) ==
  /\ proc[p].at \in {"rollback", "prove"} /\ Goto(p, "unproven")
  /\ UNCHANGED <<lockOwner, stale, files, crashes>>

Next ==
  \E p \in Procs :
    \/ \E op \in Ops : Begin(p, op)
    \/ CreateDir(p) \/ WriteOwner(p) \/ SweepStale(p) \/ ReadOwner(p) \/ RenameStale(p) \/ Unlock(p)
    \/ Crash(p) \/ DropsRun(p) \/ PnpmAstray(p) \/ Capture(p) \/ Load(p) \/ Prepare(p) \/ Discover(p) \/ PrepareFails(p)
    \/ Pnpm(p) \/ PnpmFails(p) \/ SpawnFails(p) \/ Validate(p) \/ Reconcile(p) \/ ReconcileFails(p)
    \/ MarketRecord(p) \/ Retire(p) \/ MarketDone(p)
    \/ RestoreFiles(p) \/ Reinstall(p) \/ ReinstallFails(p) \/ Prove(p) \/ RestoreFails(p)

Spec == Init /\ [][Next]_vars

-----------------------------------------------------------------------------
\* Two processes are inside the profile only if both took the lock of the same
\* dead owner (the rename takes whatever lock is there by then: ProfileLock), or
\* one of them is work left behind by a dropped run or a crash.
LockExcludes ==
  \A p, q \in Procs :
    Holding(p) /\ Holding(q) /\ p # q => proc[p].took \cap proc[q].took # {} \/ Loose(p) \/ Loose(q)

\* Unless work left behind by a dropped run or a crash goes on at the same time,
\* and whatever such work has left in the profile before: a mutation that says
\* the profile was restored has left package.json and the lock file as it found
\* them, every dependency installed and, once pnpm ran, nothing else; one that
\* commits has recorded bundles that are dependencies and installed, once each,
\* the earlier ones in their order (mutate_plugins, install_first_party_market).
MutationIsWhole ==
  \A p \in Procs : ~proc[p].dropped /\ ~proc[p].mixed =>
    /\ proc[p].at = "restored" =>
         /\ manifest = proc[p].snap.manifest /\ lockfile = proc[p].snap.lockfile
         /\ proc[p].op.kind # "market" => Installed(manifest.deps) /\ (proc[p].started => modules = manifest.deps)
    /\ proc[p].at = "committed" =>
         /\ Installed(manifest.deps) /\ BundlesResolve(manifest) /\ IsInjective(manifest.bundles)
         /\ proc[p].op.kind # "market" =>
              LET old == proc[p].before.bundles
                  kept == SelectSeq(manifest.bundles, LAMBDA x : Contains(old, x))
              IN kept = SelectSeq(old, LAMBDA x : Contains(manifest.bundles, x))
=============================================================================
