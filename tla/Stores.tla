------------------------------- MODULE Stores -------------------------------
(***************************************************************************)
(* Three small durable stores: the credentials file behind the environment *)
(* (src/src/credentials.rs), the key/value domains of a backend            *)
(* (src/src/storage.rs), and the attachment directory with the host's      *)
(* sweep of what no session refers to (src/src/attachments.rs, host.rs).   *)
(* A task stops at every await: a gate, a read, a rename.                  *)
(***************************************************************************)
EXTENDS Integers, Sequences, FiniteSets, SequencesExt

CONSTANTS
  Setters,   \* callers of the credentials service
  Refs, Secrets, \* credential names, values
  MaxEnv,    \* bound: changes of the environment
  Clients,   \* callers of the storage registry
  Units,     \* units of the one table they use
  Savers,    \* tasks that save a message's images
  Prompts,   \* the images of a message: [refs, inline], uploaded before or sent with it
  MaxImages, \* limits.max_images_per_message
  MaxOps,    \* bound: operations of a task
  Faults     \* whether a write may fail

VARIABLES
  cred,   \* [file, env, gate, closed, told, unsynced, truth, envs]
  setter,
  kv,     \* [stored, openGate, domains, current, closed, down]: the backend, the registry, the domains it made
  client,
  att,    \* [files, messages, broken, closing]: the directory, the references in the logs
  saver

vars == <<cred, setter, kv, client, att, saver>>

None == "none"
Absent == "absent"
Idle == "idle"
NoSetter == [at |-> Idle, ops |-> 0, ref |-> CHOOSE r \in Refs : TRUE, value |-> Absent, doc |-> <<>>]
NoClient == [at |-> Idle, ops |-> 0, mine |-> 0, unit |-> CHOOSE u \in Units : TRUE, put |-> TRUE, doc |-> {}]
NoSaver == [at |-> Idle, ops |-> 0, refs |-> {}, batch |-> <<>>, next |-> 1, created |-> {}]

Init ==
  /\ cred = [file |-> <<>>, env |-> {}, gate |-> None, closed |-> FALSE, told |-> {}, unsynced |-> {},
             truth |-> <<>>, envs |-> 0]
  /\ setter = [t \in Setters |-> NoSetter]
  /\ kv = [stored |-> {}, openGate |-> None, domains |-> <<>>, current |-> 0, closed |-> FALSE, down |-> FALSE]
  /\ client = [t \in Clients |-> NoClient]
  /\ att = [files |-> {}, messages |-> {}, broken |-> {}, closing |-> FALSE]
  /\ saver = [t \in Savers |-> NoSaver]

Put(f, k, v) == [x \in DOMAIN f \cup {k} |-> IF x = k THEN v ELSE f[x]]
Drop(f, k) == [x \in DOMAIN f \ {k} |-> f[x]]

-----------------------------------------------------------------------------
(* Credentials *)

SetterIs(t, rec) == setter' = [setter EXCEPT ![t] = rec]
DoneSetting(t) == SetterIs(t, [NoSetter EXCEPT !.ops = setter[t].ops])

\* set and unset (an Absent value) wait for the write gate.
Set(t, ref, value) ==
  /\ setter[t].at = Idle /\ setter[t].ops < MaxOps
  /\ SetterIs(t, [setter[t] EXCEPT !.at = "gate", !.ops = @ + 1, !.ref = ref, !.value = value])
  /\ UNCHANGED cred

\* ensure_open, and a name the environment shadows is refused.
SetGate(t) ==
  /\ setter[t].at = "gate" /\ cred.gate = None
  /\ IF cred.closed \/ setter[t].ref \in cred.env THEN DoneSetting(t) /\ UNCHANGED cred
     ELSE SetterIs(t, [setter[t] EXCEPT !.at = "read"]) /\ cred' = [cred EXCEPT !.gate = t]

\* read_all; an unset of what is not there ends.
ReadAll(t) ==
  /\ setter[t].at = "read"
  /\ LET s == setter[t] IN
       IF s.value = Absent /\ s.ref \notin DOMAIN cred.file
       THEN DoneSetting(t) /\ cred' = [cred EXCEPT !.gate = None]
       ELSE /\ SetterIs(t, [s EXCEPT !.at = "write", !.doc = IF s.value = Absent THEN Drop(cred.file, s.ref)
                                                             ELSE Put(cred.file, s.ref, s.value)])
            /\ UNCHANGED cred

\* write_all up to the rename.
WriteAll(t) ==
  /\ setter[t].at = "write"
  /\ LET s == setter[t] IN
       cred' = [cred EXCEPT !.file = s.doc,
                  !.truth = IF s.value = Absent THEN Drop(@, s.ref) ELSE Put(@, s.ref, s.value)]
  /\ SetterIs(t, [setter[t] EXCEPT !.at = "sync"])
WriteFails(t) ==
  /\ Faults /\ setter[t].at = "write"
  /\ cred' = [cred EXCEPT !.gate = None] /\ DoneSetting(t)

\* The directory is synced, and the event sent.
Announce(t) ==
  /\ setter[t].at = "sync"
  /\ cred' = [cred EXCEPT !.gate = None, !.unsynced = @ \ {setter[t].ref},
                !.told = IF setter[t].value = Absent THEN @ \ {setter[t].ref} ELSE @ \cup {setter[t].ref}]
  /\ DoneSetting(t)
\* A failed directory sync is the call's error: renamed, and nobody told.
SyncFails(t) ==
  /\ Faults /\ setter[t].at = "sync"
  /\ cred' = [cred EXCEPT !.gate = None, !.unsynced = @ \cup {setter[t].ref}]
  /\ DoneSetting(t)

EnvChanges(ref) ==
  /\ Setters # {} /\ cred.envs < MaxEnv
  /\ cred' = [cred EXCEPT !.envs = @ + 1, !.env = IF ref \in @ THEN @ \ {ref} ELSE @ \cup {ref}]
  /\ UNCHANGED setter

\* shutdown returns once the gate is free.
CloseCredentials ==
  /\ Setters # {} /\ ~cred.closed
  /\ cred' = [cred EXCEPT !.closed = TRUE] /\ UNCHANGED setter

\* resolve and describe: the environment, then the file.
Resolve(ref) == IF ref \in cred.env THEN "environment" ELSE IF ref \in DOMAIN cred.file THEN cred.file[ref] ELSE Absent

-----------------------------------------------------------------------------
(* Storage: StorageRegistry and KvDomain *)

ClientIs(t, rec) == client' = [client EXCEPT ![t] = rec]
DoneStoring(t) == ClientIs(t, [NoClient EXCEPT !.ops = client[t].ops, !.mine = client[t].mine])
Domain(t) == kv.domains[client[t].mine]

\* open: closed is checked before and under the open gate.
Open(t) ==
  /\ client[t].at = Idle /\ client[t].ops < MaxOps /\ ~kv.closed
  /\ ClientIs(t, [client[t] EXCEPT !.at = "open", !.ops = @ + 1]) /\ UNCHANGED kv
OpenGate(t) ==
  /\ client[t].at = "open" /\ kv.openGate = None
  /\ IF kv.closed THEN DoneStoring(t) /\ UNCHANGED kv
     ELSE IF kv.current # 0 THEN ClientIs(t, [NoClient EXCEPT !.ops = client[t].ops, !.mine = kv.current]) /\ UNCHANGED kv
     ELSE ClientIs(t, [client[t] EXCEPT !.at = "load"]) /\ kv' = [kv EXCEPT !.openGate = t]
\* backend.load, and the domain is made.
Opened(t) ==
  /\ client[t].at = "load"
  /\ kv' = [kv EXCEPT !.openGate = None, !.current = Len(kv.domains) + 1,
              !.domains = Append(@, [doc |-> kv.stored, rev |-> 0, gate |-> None, accepting |-> TRUE, late |-> kv.closed])]
  /\ ClientIs(t, [NoClient EXCEPT !.ops = client[t].ops, !.mine = Len(kv.domains) + 1])

\* put and remove: accepting is checked before and under the write gate.
Change(t, unit, put) ==
  /\ client[t].at = Idle /\ client[t].ops < MaxOps /\ client[t].mine # 0 /\ Domain(t).accepting
  /\ ClientIs(t, [client[t] EXCEPT !.at = "gate", !.ops = @ + 1, !.unit = unit, !.put = put]) /\ UNCHANGED kv
ChangeGate(t) ==
  /\ client[t].at = "gate" /\ Domain(t).gate = None
  /\ LET d == Domain(t)
         doc == IF client[t].put THEN d.doc \cup {client[t].unit} ELSE d.doc \ {client[t].unit}
     IN IF ~d.accepting \/ doc = d.doc THEN DoneStoring(t) /\ UNCHANGED kv
        ELSE /\ ClientIs(t, [client[t] EXCEPT !.at = "persist", !.doc = doc])
             /\ kv' = [kv EXCEPT !.domains[client[t].mine].gate = t]
Persist(t) ==
  /\ client[t].at = "persist"
  /\ kv' = [kv EXCEPT !.stored = client[t].doc]
  /\ ClientIs(t, [client[t] EXCEPT !.at = "persisted"])
PersistFails(t) ==
  /\ Faults /\ client[t].at = "persist"
  /\ kv' = [kv EXCEPT !.domains[client[t].mine].gate = None] /\ DoneStoring(t)
Stored(t) ==
  /\ client[t].at = "persisted"
  /\ kv' = [kv EXCEPT !.domains[client[t].mine] = [@ EXCEPT !.gate = None, !.doc = client[t].doc, !.rev = @ + 1]]
  /\ DoneStoring(t)

\* shutdown: closed, then the domains it finds are closed one by one.
CloseRegistry ==
  /\ Clients # {} /\ ~kv.closed
  /\ kv' = [kv EXCEPT !.closed = TRUE,
              !.domains = [d \in DOMAIN @ |-> [@[d] EXCEPT !.accepting = FALSE]]]
  /\ UNCHANGED client
RegistryClosed ==
  /\ kv.closed /\ ~kv.down
  /\ \A d \in DOMAIN kv.domains : kv.domains[d].late \/ kv.domains[d].gate = None
  /\ kv' = [kv EXCEPT !.down = TRUE] /\ UNCHANGED client

-----------------------------------------------------------------------------
(* Attachments *)

SaverIs(t, rec) == saver' = [saver EXCEPT ![t] = rec]
DoneSaving(t) == SaverIs(t, [NoSaver EXCEPT !.ops = saver[t].ops])
Image(t) == saver[t].batch[saver[t].next]

\* upload_attachment, or a prompt: normalize_prompt_inner refuses too many images.
Normalize(t, prompt) ==
  /\ saver[t].at = Idle /\ saver[t].ops < MaxOps /\ ~att.closing
  /\ Cardinality(prompt.refs) + Len(prompt.inline) <= MaxImages
  /\ SaverIs(t, [NoSaver EXCEPT !.at = "refs", !.ops = saver[t].ops + 1, !.refs = prompt.refs, !.batch = prompt.inline])
  /\ UNCHANGED att
\* read_ref of each reference; save_batch of the rest follows.
ReadRefs(t) ==
  /\ saver[t].at = "refs"
  /\ IF saver[t].refs \subseteq att.files
     THEN SaverIs(t, [saver[t] EXCEPT !.at = IF saver[t].batch = <<>> THEN "saved" ELSE "inspect"])
     ELSE DoneSaving(t)
  /\ UNCHANGED att

Advance(t, rec) == SaverIs(t, [rec EXCEPT !.next = @ + 1, !.at = IF rec.next = Len(rec.batch) THEN "saved" ELSE "inspect"])
\* persist: an image already there is verified and shared ...
Inspect(t) ==
  /\ saver[t].at = "inspect"
  /\ IF Image(t) \in att.files THEN Advance(t, saver[t]) ELSE SaverIs(t, [saver[t] EXCEPT !.at = "rename"])
  /\ UNCHANGED att
\* ... a new one is renamed into place.
RenameImage(t) ==
  /\ saver[t].at = "rename"
  /\ att' = [att EXCEPT !.files = @ \cup {Image(t)}]
  /\ Advance(t, [saver[t] EXCEPT !.created = @ \cup {Image(t)}])
\* A failure removes what this batch created, whoever shares it by now.
SaveFails(t) ==
  /\ Faults /\ saver[t].at = "rename" /\ SaverIs(t, [saver[t] EXCEPT !.at = "undo"]) /\ UNCHANGED att
RemoveCreated(t) ==
  /\ saver[t].at = "undo"
  /\ LET others == {u \in Savers \ {t} : saver[u].at \in {"inspect", "rename", "saved"}}
         shared == UNION {saver[u].refs \cup {saver[u].batch[i] : i \in 1..(saver[u].next - 1)} : u \in others}
     IN att' = [att EXCEPT !.files = @ \ saver[t].created,
                           !.broken = @ \cup (saver[t].created \cap (shared \cup UNION att.messages))]
  /\ DoneSaving(t)

\* The message with the references is durable.
PostMessage(t) ==
  /\ saver[t].at = "saved"
  /\ att' = [att EXCEPT !.messages = @ \cup {saver[t].refs \cup ToSet(saver[t].batch)}]
  /\ DoneSaving(t)
\* It is never posted: a cancelled prompt, a refused append.
NeverPosted(t) == saver[t].at = "saved" /\ DoneSaving(t) /\ UNCHANGED att

\* shutdown_inner drains every admitted call before the sweep, which removes
\* what no session's log refers to.
CloseAdmission == Savers # {} /\ ~att.closing /\ att' = [att EXCEPT !.closing = TRUE] /\ UNCHANGED saver
Sweep ==
  /\ att.closing /\ \A t \in Savers : saver[t].at = Idle
  /\ att' = [att EXCEPT !.files = @ \cap UNION att.messages, !.closing = FALSE]
  /\ UNCHANGED saver

-----------------------------------------------------------------------------
Credentials ==
  \/ \E t \in Setters :
       \/ \E r \in Refs, v \in Secrets \cup {Absent} : Set(t, r, v)
       \/ SetGate(t) \/ ReadAll(t) \/ WriteAll(t) \/ WriteFails(t) \/ Announce(t) \/ SyncFails(t)
  \/ (\E r \in Refs : EnvChanges(r)) \/ CloseCredentials
Storage ==
  \/ \E t \in Clients :
       \/ Open(t) \/ OpenGate(t) \/ Opened(t) \/ \E u \in Units, p \in BOOLEAN : Change(t, u, p)
       \/ ChangeGate(t) \/ Persist(t) \/ PersistFails(t) \/ Stored(t)
  \/ CloseRegistry \/ RegistryClosed
Attachments ==
  \/ \E t \in Savers :
       \/ \E p \in Prompts : Normalize(t, p)
       \/ ReadRefs(t) \/ Inspect(t) \/ RenameImage(t) \/ SaveFails(t) \/ RemoveCreated(t) \/ PostMessage(t) \/ NeverPosted(t)
  \/ CloseAdmission \/ Sweep

Next ==
  \/ Credentials /\ UNCHANGED <<kv, client, att, saver>>
  \/ Storage /\ UNCHANGED <<cred, setter, att, saver>>
  \/ Attachments /\ UNCHANGED <<cred, setter, kv, client>>

Spec == Init /\ [][Next]_vars

-----------------------------------------------------------------------------
\* The credentials file holds the last write of every name, and whoever follows
\* the events knows which names it configures and that they resolve, unless the
\* sync of the directory failed after the rename (credentials.rs write_all).
CredentialsTold ==
  /\ cred.file = cred.truth
  /\ cred.gate = None => \A r \in Refs \ cred.unsynced : r \in cred.told <=> r \in DOMAIN cred.file
  /\ cred.gate = None => \A r \in cred.told \ cred.unsynced : Resolve(r) # Absent

\* There is one view of a domain, and at rest it is what the backend stored
\* (StorageRegistry: "one in-memory authoritative view").
OneView ==
  /\ Len(kv.domains) <= 1
  /\ \A d \in DOMAIN kv.domains : kv.domains[d].gate = None => kv.domains[d].doc = kv.stored

\* Once the registry's shutdown has returned, no domain accepts or writes,
\* except one whose open was loading when the registry closed.
StorageDown ==
  kv.down => \A d \in DOMAIN kv.domains :
    kv.domains[d].late \/ (~kv.domains[d].accepting /\ kv.domains[d].gate = None)

\* An image a posted message refers to is in the directory, sweeps included,
\* unless the batch that created it failed later on after another had found it
\* there (attachments.rs save_batch).
ReferencedIsKept == UNION att.messages \subseteq att.files \cup att.broken
=============================================================================
