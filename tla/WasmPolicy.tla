----------------------------- MODULE WasmPolicy -----------------------------
(***************************************************************************)
(* Service permissions of WASM plugins: the product runtime stages the     *)
(* policy of the package it instantiates (legacy.rs), the lifecycle hook   *)
(* installs it for the new instance, and the bridge admits each service    *)
(* call under a lease that keeps the instance from draining (bridge.rs).   *)
(* The WASM runtime that calls the hook is external.                       *)
(***************************************************************************)
EXTENDS Naturals, FiniteSets

CONSTANTS Instances, Callers,
          Packages,      \* packages, each a plugin id with its own policy
          Entries        \* loader entries

VARIABLES gate,          \* instantiate_gate: the instance being built, if any
          staged,        \* staged_policy: the package whose policy waits for the hook
          inst,          \* each instance: where it is, its package and loader entry
          policies,      \* WasmPolicyMaps.policies: the package whose methods an instance may call
          owners,        \* WasmPolicyMaps.owners: loader entry and count of a plugin id
          entry,         \* WasmPolicyEntry of each instance: revoked, active
          lease          \* what each caller's lease is for

vars == <<gate, staged, inst, policies, owners, entry, lease>>

None == "none"
NoOwner == [entry |-> None, instances |-> 0]

Init == /\ gate = None /\ staged = None
        /\ inst = [i \in Instances |-> [at |-> "new", package |-> None, entry |-> None]]
        /\ policies = [i \in Instances |-> None]
        /\ owners = [p \in Packages |-> NoOwner]
        /\ entry = [i \in Instances |-> [revoked |-> FALSE, active |-> 0]]
        /\ lease = [c \in Callers |-> None]

Instantiate(i, p, e) ==
  /\ gate = None /\ inst[i].at = "new"
  /\ gate' = i /\ staged' = p
  /\ inst' = [inst EXCEPT ![i] = [at |-> "building", package |-> p, entry |-> e]]
  /\ UNCHANGED <<policies, owners, entry, lease>>

\* The caller drops the instantiation: the gate opens, the staged policy stays behind.
Abandon(i) ==
  /\ inst[i].at = "building"
  /\ gate' = None
  /\ inst' = [inst EXCEPT ![i].at = "failed"]
  /\ UNCHANGED <<staged, policies, owners, entry, lease>>

Fail(i) ==
  /\ inst[i].at = "building"
  /\ gate' = None /\ staged' = None
  /\ inst' = [inst EXCEPT ![i].at = "failed"]
  /\ UNCHANGED <<policies, owners, entry, lease>>

Refused(i) == owners[staged].entry \notin {None, inst[i].entry}

\* The hook takes the staged policy and installs it, unless the plugin id has another owner.
Install(i) ==
  /\ inst[i].at = "building" /\ staged = inst[i].package /\ ~Refused(i)
  /\ policies' = [policies EXCEPT ![i] = staged]
  /\ owners' = [owners EXCEPT ![staged] = [entry |-> inst[i].entry, instances |-> @.instances + 1]]
  /\ inst' = [inst EXCEPT ![i].at = "live"]
  /\ gate' = None /\ staged' = None
  /\ UNCHANGED <<entry, lease>>

InstallRefused(i) == inst[i].at = "building" /\ (staged # inst[i].package \/ Refused(i)) /\ Fail(i)

Authorize(c, i) ==
  /\ lease[c] = None /\ policies[i] # None /\ ~entry[i].revoked
  /\ lease' = [lease EXCEPT ![c] = i]
  /\ entry' = [entry EXCEPT ![i].active = @ + 1]
  /\ UNCHANGED <<gate, staged, inst, policies, owners>>

DropLease(c) ==
  /\ lease[c] # None
  /\ entry' = [entry EXCEPT ![lease[c]].active = @ - 1]
  /\ lease' = [lease EXCEPT ![c] = None]
  /\ UNCHANGED <<gate, staged, inst, policies, owners>>

Disowned(p) == IF owners[p].instances = 1 THEN NoOwner ELSE [owners[p] EXCEPT !.instances = @ - 1]

Revoke(i) ==
  /\ inst[i].at = "live"
  /\ owners' = [owners EXCEPT ![policies[i]] = Disowned(policies[i])]
  /\ policies' = [policies EXCEPT ![i] = None]
  /\ entry' = [entry EXCEPT ![i].revoked = TRUE]
  /\ inst' = [inst EXCEPT ![i].at = "revoked"]
  /\ UNCHANGED <<gate, staged, lease>>

Drain(i) ==
  /\ inst[i].at = "revoked"
  /\ inst' = [inst EXCEPT ![i].at = IF entry[i].active = 0 THEN "drained" ELSE "undrained"]
  /\ UNCHANGED <<gate, staged, policies, owners, entry, lease>>

Next == \/ \E i \in Instances :
             \/ \E p \in Packages, e \in Entries : Instantiate(i, p, e)
             \/ Abandon(i) \/ Fail(i) \/ Install(i) \/ InstallRefused(i) \/ Revoke(i) \/ Drain(i)
             \/ \E c \in Callers : Authorize(c, i)
        \/ \E c \in Callers : DropLease(c)

Spec == Init /\ [][Next]_vars

\* After a drain that succeeded no call of the instance is in progress or can start; an
\* instance may call what its own package declares, whatever was staged before; and a
\* plugin id with installed instances belongs to one loader entry, which is freed with the
\* last of them (WasmPolicyRegistry, WasmProductRuntime::instantiate).
DrainedIsQuiet ==
  /\ \A i \in Instances :
       /\ inst[i].at = "drained" => policies[i] = None /\ \A c \in Callers : lease[c] # i
       /\ policies[i] # None => policies[i] = inst[i].package
  /\ \A p \in Packages :
       LET installed == {i \in Instances : policies[i] = p}
       IN /\ {inst[i].entry : i \in installed} \subseteq {owners[p].entry}
          /\ owners[p].entry # None => installed # {}
=============================================================================
