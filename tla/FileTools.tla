------------------------------ MODULE FileTools ------------------------------
(***************************************************************************)
(* The file tools of an agent (builtin_tools.rs, builtin_tools/            *)
(* model_tools.rs) over the confined filesystem capability                 *)
(* (filesystem.rs): the resolution of a requested path, the permission to  *)
(* write, reads, writes and literal edits with their gate, guards and      *)
(* atomic publication, and the pure algorithms of read, grep, glob and the *)
(* diffs of a result.                                                      *)
(*                                                                         *)
(* Calls run at once, as the tool calls of one step do, beside an outsider *)
(* who edits files, a user who changes the sandbox mode or stops the       *)
(* agent, and a workspace whose lease may end.  The tools make a           *)
(* Filesystem for each call (OneFilesystem = FALSE); users of the          *)
(* capability itself share one.  Directories and links stay as they are.   *)
(***************************************************************************)
EXTENDS Naturals, Sequences, FiniteSets, SequencesExt

CONSTANTS Calls,          \* the tool calls of one step
          Jobs,           \* what a call may ask for
          Tree,           \* the files, directories and links there are
          OneFilesystem,  \* whether the calls share the gates of one Filesystem
          Stops,          \* what may happen beside the calls
          MaxOutside,     \* writes and removals of the outsider
          MaxFaults,      \* refused file operations
          Inputs          \* inputs of the pure algorithms

VARIABLES job, tree, mode, leased, cancelled, call, held, temps, outside, faults, input
vars == <<job, tree, mode, leased, cancelled, call, held, temps, outside, faults, input>>
-----------------------------------------------------------------------------
(* Paths.  A path is the sequence of its components from the root of the   *)
(* machine; the workspace is one directory.                                *)

Root == <<"ws">>

File(text) == [kind |-> "file", text |-> text]
Dir == [kind |-> "dir"]
Link(to) == [kind |-> "link", to |-> to]
Absent == [kind |-> "absent"]

Found(path) == [ok |-> TRUE, path |-> path]
Refused(code) == [ok |-> FALSE, code |-> code]

Node(t, p) == IF p = <<>> THEN Dir ELSE IF p \in DOMAIN t THEN t[p] ELSE Absent

\* realpath: every link is followed, `..' is the parent of where one is.
RECURSIVE Walk(_, _, _, _)
Walk(t, at, rest, links) ==
  IF rest = <<>> THEN Found(at)
  ELSE IF Head(rest) = ".." THEN Walk(t, IF at = <<>> THEN at ELSE Front(at), Tail(rest), links)
  ELSE LET next == Append(at, Head(rest))
           node == Node(t, next)
       IN CASE node.kind = "absent" -> Refused("not-found")
            [] node.kind = "link" ->
                 IF links = 0 THEN Refused("io")
                 ELSE Walk(t, <<>>, node.to \o Tail(rest), links - 1)
            [] node.kind = "dir" -> Walk(t, next, Tail(rest), links)
            [] node.kind = "file" -> IF Len(rest) = 1 THEN Found(next) ELSE Refused("io")
Canonical(t, p) == Walk(t, <<>>, p, 3)

\* symlink_metadata: the last component is not followed.
Lstat(t, p) ==
  IF p = <<>> \/ Last(p) = ".." THEN Dir
  ELSE LET parent == Canonical(t, Front(p))
       IN IF parent.ok THEN Node(t, Append(parent.path, Last(p))) ELSE Absent

Inside(p) == IsPrefix(Root, p)
Contained(found) == IF found.ok /\ ~ Inside(found.path) THEN Refused("denied") ELSE found

Candidate(request) == IF request.absolute THEN request.path ELSE Root \o request.path

\* tool_target of a path that exists: a final link is kept as the name it has
\* in its directory when that directory is inside.
ExistingTarget(t, path, resolved) ==
  IF ~ Inside(resolved) THEN Refused("denied")
  ELSE IF Lstat(t, path).kind = "link"
  THEN LET parent == Canonical(t, Front(path))
       IN IF ~ parent.ok THEN parent
          ELSE IF Inside(parent.path) THEN Found(Append(parent.path, Last(path)))
          ELSE Found(resolved)
  ELSE Found(resolved)

\* tool_target of a path that does not resolve: admitted only as a missing
\* name in a directory inside.  The nearest ancestor that resolves decides.
MissingTarget(t, path, error) ==
  LET parents == 0..(Len(path) - 1)
      near == CHOOSE n \in parents :
                /\ Canonical(t, SubSeq(path, 1, n)).ok
                /\ \A k \in parents : k > n => ~ Canonical(t, SubSeq(path, 1, k)).ok
      resolved == Canonical(t, SubSeq(path, 1, near)).path
      name == Append(resolved, Last(path))
  IN IF ~ Inside(resolved) THEN Refused("denied")
     ELSE IF near < Len(path) - 1
     THEN IF \E k \in (near + 1)..(Len(path) - 1) : Lstat(t, SubSeq(path, 1, k)).kind = "link"
          THEN Refused("denied")
          ELSE Canonical(t, Front(path))
     ELSE IF error # "not-found" THEN Refused("io")
     ELSE IF Last(path) = ".." THEN Refused("invalid")
     ELSE IF Node(t, name).kind = "link" THEN Refused("denied")
     ELSE Found(name)

ToolTarget(t, request) ==
  LET path == Candidate(request)
      whole == Canonical(t, path)
  IN IF whole.ok THEN ExistingTarget(t, path, whole.path) ELSE MissingTarget(t, path, whole.code)

Resolve(t, target) == Contained(Canonical(t, target))

WritePath(t, target) ==
  LET whole == Canonical(t, target)
      parent == Contained(Canonical(t, Front(target)))
  IN IF whole.ok THEN Contained(whole)
     ELSE IF whole.code # "not-found" THEN whole
     ELSE IF ~ parent.ok THEN parent
     ELSE Found(Append(parent.path, Last(target)))

\* list: the entries of a directory, not resolved.
Children(t, at) == {p \in DOMAIN t : Len(p) > 0 /\ Front(p) = at}

\* The regular files below a directory; links and the directories of version
\* control are passed over.
RECURSIVE CollectFiles(_, _)
CollectFiles(t, at) ==
  IF \E i \in DOMAIN at : at[i] = ".git" THEN {}
  ELSE CASE Node(t, at).kind = "file" -> {at}
         [] Node(t, at).kind = "dir" ->
              UNION {CollectFiles(t, p) : p \in Children(t, at)}
         [] OTHER -> {}
-----------------------------------------------------------------------------
(* Calls.  A text is a sequence of words and line ends.                    *)

\* normalize_lf: every carriage return, with the line feed after it, is one.
RECURSIVE Normal(_)
Normal(text) ==
  IF text = <<>> THEN <<>>
  ELSE IF Head(text) # "cr" THEN <<Head(text)>> \o Normal(Tail(text))
  ELSE <<"lf">> \o Normal(IF Len(text) > 1 /\ text[2] = "lf" THEN Tail(Tail(text)) ELSE Tail(text))

\* match_indices: matches from the left that do not overlap.
RECURSIVE Matches(_, _)
Matches(text, old) ==
  CASE Len(text) < Len(old) -> 0
    [] IsPrefix(old, text) -> 1 + Matches(SubSeq(text, Len(old) + 1, Len(text)), old)
    [] OTHER -> Matches(Tail(text), old)

RECURSIVE Replace(_, _, _, _)
Replace(text, old, new, count) ==
  CASE count = 0 -> text
    [] IsPrefix(old, text) ->
         new \o Replace(SubSeq(text, Len(old) + 1, Len(text)), old, new, count - 1)
    [] OTHER -> <<Head(text)>> \o Replace(Tail(text), old, new, count)

NoCall == [pc |-> "start", path |-> <<>>, version |-> Absent, before |-> <<>>, after |-> <<>>,
           replaced |-> <<>>, published |-> FALSE, result |-> "none"]

Init ==
  /\ job \in [Calls -> Jobs] /\ tree = Tree /\ mode = "workspace-write"
  /\ leased = TRUE /\ cancelled = FALSE
  /\ call = [c \in Calls |-> NoCall]
  /\ held = {} /\ temps = {} /\ outside = 0 /\ faults = 0
  /\ input \in Inputs

Go(c, pc) == call' = [call EXCEPT ![c].pc = pc]
End(c, result) == call' = [call EXCEPT ![c].pc = "end", ![c].result = result]
Release(c) == held' = {h \in held : h[1] # c}

\* allow_write, up to the approval it may have to ask for.
AllowWrite(j) ==
  IF cancelled THEN "cancelled"
  ELSE IF (j.asks # "nothing") # j.justified THEN "invalid"
  ELSE IF j.asks = "danger-full-access" THEN "unsupported"
  ELSE IF mode = "workspace-write" THEN IF j.asks = "nothing" THEN "allowed" ELSE "invalid"
  ELSE IF j.asks # "workspace-write" THEN "write-denied"
  ELSE "ask"

Start(c) ==
  LET verdict == IF job[c].tool = "read" THEN IF cancelled THEN "cancelled" ELSE "allowed"
                 ELSE AllowWrite(job[c])
  IN /\ call[c].pc = "start"
     /\ IF verdict \in {"allowed", "ask"} THEN Go(c, verdict) ELSE End(c, verdict)
     /\ UNCHANGED <<job, tree, mode, leased, cancelled, held, temps, outside, faults, input>>

\* The approval broker answers; a stop that came meanwhile wins.
Answer(c, approved) ==
  /\ call[c].pc = "ask"
  /\ IF cancelled THEN End(c, "cancelled")
     ELSE IF ~ approved THEN End(c, "not-approved")
     ELSE Go(c, "allowed")
  /\ UNCHANGED <<job, tree, mode, leased, cancelled, held, temps, outside, faults, input>>

\* The lease of the workspace and the target of the call.
Target(c) ==
  LET target == ToolTarget(tree, job[c].request)
  IN /\ call[c].pc = "allowed"
     /\ IF cancelled /\ job[c].tool # "read" THEN End(c, "cancelled")
        ELSE IF ~ leased THEN End(c, "lease")
        ELSE IF ~ target.ok THEN End(c, target.code)
        ELSE call' = [call EXCEPT ![c].pc = IF job[c].tool = "read" THEN "reading" ELSE "prepare",
                                  ![c].path = target.path]
     /\ UNCHANGED <<job, tree, mode, leased, cancelled, held, temps, outside, faults, input>>

\* read_text, and the lease once more before the result.
Read(c) ==
  LET found == Resolve(tree, call[c].path)
      node == Node(tree, found.path)
  IN /\ call[c].pc = "reading"
     /\ IF ~ found.ok THEN End(c, found.code)
        ELSE IF node.kind # "file" THEN End(c, "not-regular")
        ELSE IF ~ leased THEN End(c, "lease")
        ELSE call' = [call EXCEPT ![c].pc = "end", ![c].result = "ok",
                                  ![c].after = Normal(node.text)]
     /\ UNCHANGED <<job, tree, mode, leased, cancelled, held, temps, outside, faults, input>>

\* write_path: the target is resolved once more before the gate.
Prepare(c) ==
  LET found == WritePath(tree, call[c].path)
  IN /\ call[c].pc = "prepare"
     /\ IF found.ok THEN call' = [call EXCEPT ![c].pc = "gate", ![c].path = found.path]
        ELSE End(c, found.code)
     /\ UNCHANGED <<job, tree, mode, leased, cancelled, held, temps, outside, faults, input>>

\* The gate of a path is an entry of one Filesystem's table.
Excluded(c) == OneFilesystem /\ \E h \in held : h[2] = call[c].path

\* No caller in src sets replace_if_version.
Guarded(j, version) ==
  CASE version.kind = "dir" -> "not-regular"
    [] version.kind = "absent" /\ j.tool = "edit" -> "stale"
    [] version.kind = "file" /\ j.create -> "not-observed"
    [] OTHER -> "pass"

\* Under the gate: current_version, then the guards.
Lock(c) ==
  LET version == Node(tree, call[c].path)
      verdict == Guarded(job[c], version)
  IN /\ call[c].pc = "gate" /\ ~ Excluded(c)
     /\ IF verdict = "pass"
        THEN /\ call' = [call EXCEPT ![c].pc = "before", ![c].version = version]
             /\ held' = held \cup {<<c, call[c].path>>}
        ELSE End(c, verdict) /\ UNCHANGED held
     /\ UNCHANGED <<job, tree, mode, leased, cancelled, temps, outside, faults, input>>

\* The text to publish; what it replaces is read under the gate.
Edited(j, before) ==
  LET old == Normal(j.old)
      new == Normal(j.new)
      found == Matches(before, old)
  IN IF old = <<>> THEN Refused("ambiguous")
     ELSE IF found = 0 THEN Refused("edit-not-found")
     ELSE IF found # 1 /\ ~ j.all THEN Refused("ambiguous")
     ELSE Found(Replace(before, old, new, found))

ReadBefore(c) ==
  LET node == Node(tree, call[c].path)
      before == IF node.kind = "file" THEN Normal(node.text) ELSE <<>>
      edited == IF job[c].tool = "edit" THEN Edited(job[c], before) ELSE Found(Normal(job[c].new))
  IN /\ call[c].pc = "before"
     /\ IF call[c].version # Absent /\ node = Absent THEN End(c, "not-found") /\ Release(c)
        ELSE IF ~ edited.ok THEN End(c, edited.code) /\ Release(c)
        ELSE /\ call' = [call EXCEPT ![c].pc = "temp", ![c].after = edited.path,
                                     ![c].before = IF call[c].version = Absent THEN Absent
                                                   ELSE File(before)]
             /\ UNCHANGED held
     /\ UNCHANGED <<job, tree, mode, leased, cancelled, temps, outside, faults, input>>

\* atomic_publish: the temporary file is created beside the target, filled and
\* synced, and renamed or, for a create, linked.
MakeTemp(c) ==
  /\ call[c].pc = "temp"
  /\ temps' = temps \cup {[by |-> c, text |-> <<>>]}
  /\ Go(c, "fill")
  /\ UNCHANGED <<job, tree, mode, leased, cancelled, held, outside, faults, input>>

FillTemp(c) ==
  /\ call[c].pc = "fill"
  /\ temps' = {f \in temps : f.by # c} \cup {[by |-> c, text |-> call[c].after]}
  /\ Go(c, "publish")
  /\ UNCHANGED <<job, tree, mode, leased, cancelled, held, outside, faults, input>>

Publish(c) ==
  LET path == call[c].path
      file == CHOOSE f \in temps : f.by = c
  IN /\ call[c].pc = "publish"
     /\ temps' = temps \ {file}
     /\ IF job[c].create /\ Node(tree, path) # Absent
        THEN End(c, "not-observed") /\ Release(c) /\ UNCHANGED tree
        ELSE /\ tree' = [p \in DOMAIN tree \cup {path} |->
                           IF p = path THEN File(file.text) ELSE tree[p]]
             /\ call' = [call EXCEPT ![c].pc = "observe", ![c].published = TRUE,
                                     ![c].replaced = Node(tree, path)]
             /\ UNCHANGED held
     /\ UNCHANGED <<job, mode, leased, cancelled, outside, faults, input>>

\* observe_path, the end of the gate, and the tool's own last checks.
Observe(c) ==
  /\ call[c].pc = "observe"
  /\ Release(c)
  /\ End(c, IF Node(tree, call[c].path) = Absent THEN "not-found"
            ELSE IF cancelled THEN "cancelled"
            ELSE IF ~ leased THEN "lease"
            ELSE "ok")
  /\ UNCHANGED <<job, tree, mode, leased, cancelled, temps, outside, faults, input>>

\* A refused file operation; the temporary file goes if it can.
Fail(c, swept) ==
  /\ faults < MaxFaults /\ faults' = faults + 1
  /\ call[c].pc \in {"reading", "prepare", "gate", "before", "temp", "fill", "publish", "observe"}
  /\ call[c].pc = "gate" => ~ Excluded(c)
  /\ End(c, "io") /\ Release(c)
  /\ temps' = IF swept THEN {f \in temps : f.by # c} ELSE temps
  /\ UNCHANGED <<job, tree, mode, leased, cancelled, outside, input>>

\* The process dies.
Crash ==
  /\ "crash" \in Stops /\ \E c \in Calls : call[c].pc # "end"
  /\ call' = [c \in Calls |-> IF call[c].pc = "end" THEN call[c]
                              ELSE [call[c] EXCEPT !.pc = "end", !.result = "crash"]]
  /\ held' = {}
  /\ UNCHANGED <<job, tree, mode, leased, cancelled, temps, outside, faults, input>>

Cancel ==
  /\ "cancel" \in Stops /\ ~ cancelled /\ cancelled' = TRUE
  /\ UNCHANGED <<job, tree, mode, leased, call, held, temps, outside, faults, input>>

EndLease ==
  /\ "lease" \in Stops /\ leased /\ leased' = FALSE
  /\ UNCHANGED <<job, tree, mode, cancelled, call, held, temps, outside, faults, input>>

SetMode(m) ==
  /\ "mode" \in Stops /\ m # mode /\ mode' = m
  /\ UNCHANGED <<job, tree, leased, cancelled, call, held, temps, outside, faults, input>>

\* Somebody else writes or removes a file.
Outsider(p, node) ==
  /\ outside < MaxOutside /\ outside' = outside + 1
  /\ p \in DOMAIN tree /\ tree[p].kind = "file" /\ node # tree[p]
  /\ tree' = IF node = Absent THEN [q \in DOMAIN tree \ {p} |-> tree[q]]
             ELSE [tree EXCEPT ![p] = node]
  /\ UNCHANGED <<job, mode, leased, cancelled, call, held, temps, faults, input>>

Done == (\A c \in Calls : call[c].pc = "end") /\ UNCHANGED vars

Next ==
  \/ \E c \in Calls :
       \/ Start(c) \/ Target(c) \/ Read(c) \/ Prepare(c) \/ Lock(c) \/ ReadBefore(c)
       \/ MakeTemp(c) \/ FillTemp(c) \/ Publish(c) \/ Observe(c)
       \/ \E b \in BOOLEAN : Answer(c, b) \/ Fail(c, b)
  \/ Crash \/ Cancel \/ EndLease
  \/ \E m \in {"read-only", "danger-full-access"} : SetMode(m)
  \/ \E p \in DOMAIN tree : \E node \in {Absent, File(<<"out">>)} : Outsider(p, node)
  \/ Done

Spec == Init /\ [][Next]_vars
-----------------------------------------------------------------------------
(* Results.  Texts are abstracted to the lengths of their lines.           *)

Least(m, n) == IF m < n THEN m ELSE n

\* The lines of one read: at most `limit', and with a separator before all but
\* the first at most `left' bytes.
RECURSIVE Taken(_, _, _, _, _)
Taken(lines, from, limit, left, separator) ==
  IF from > Len(lines) \/ limit = 0 \/ lines[from] + separator > left THEN 0
  ELSE 1 + Taken(lines, from + 1, limit - 1, left - lines[from] - separator, 1)

ReadPage(lines, offset, limit, cap) ==
  LET shown == Taken(lines, offset, limit, cap, 0)
      last == offset + shown - 1
  IN [first |-> offset, last |-> last, more |-> last < Len(lines)]

\* The lines by which two texts differ, with `context' lines around them.
DiffHunk(old, new, context) ==
  LET most == Least(Len(old), Len(new))
      prefix == CHOOSE n \in 0..most :
                  /\ \A i \in 1..n : old[i] = new[i]
                  /\ n < most => old[n + 1] # new[n + 1]
      rest == most - prefix
      suffix == CHOOSE n \in 0..rest :
                  /\ \A i \in 0..(n - 1) : old[Len(old) - i] = new[Len(new) - i]
                  /\ n < rest => old[Len(old) - n] # new[Len(new) - n]
      start == IF prefix < context THEN 0 ELSE prefix - context
      Piece(lines) == SubSeq(lines, start + 1, Least(Len(lines) - suffix + context, Len(lines)))
  IN [old |-> Piece(old), new |-> Piece(new)]

\* The matches of a search, per file: at most `most' of them, then whole files
\* are dropped from the end while the result is too large.
RECURSIVE Kept(_, _)
Kept(counts, most) ==
  IF counts = <<>> \/ most = 0 THEN <<>>
  ELSE IF Head(counts) = 0 THEN Kept(Tail(counts), most)
  ELSE IF Head(counts) >= most THEN <<most>>
  ELSE <<Head(counts)>> \o Kept(Tail(counts), most - Head(counts))

Total(counts) == FoldSeq(LAMBDA n, sum : sum + n, 0, counts)

RECURSIVE CapGroups(_, _, _)
CapGroups(groups, size, truncated) ==
  IF Len(groups) <= 1 \/ Total(groups) <= size THEN [groups |-> groups, truncated |-> truncated]
  ELSE CapGroups(Front(groups), size, TRUE)

\* The text of a result, cut to the output's cap once it is put together: a
\* header, one unit for every item and, when `truncated', a notice at the end.
Rendered(header, items, truncated, cap) ==
  LET whole == header + items + (IF truncated THEN 1 ELSE 0)
      length == Least(whole, cap)
  IN [length |-> length, items |-> IF length < header THEN 0 ELSE Least(items, length - header),
      notice |-> truncated /\ length = whole]

\* Files that are too large or no UTF-8 text are passed over, without a word.
Grep(files, most, size, cap) ==
  LET read == SelectSeq(files, LAMBDA f : f.text)
      counts == [i \in DOMAIN read |-> read[i].matches]
      groups == Kept(counts, most)
      capped == CapGroups(groups, size, Total(counts) > Total(groups))
  IN [kept |-> Total(capped.groups), truncated |-> capped.truncated, total |-> Total(counts),
      shown |-> Rendered(1, Total(capped.groups), capped.truncated, cap)]

\* cap_paths: paths are dropped from the end while the result is too large.
Glob(total, most, size, cap) ==
  LET first == Least(total, most)
      kept == IF first <= 1 \/ first <= size THEN first ELSE IF size = 0 THEN 1 ELSE size
      truncated == kept < total
  IN [kept |-> kept, truncated |-> truncated, total |-> total, shown |-> Rendered(0, kept, truncated, cap)]

\* The length of a fetched page as shown, and whether it says it is cut.
FetchOutput(header, body, footer, cap, cut) ==
  LET prefix == header + (IF body > cap THEN cap ELSE body)
      truncated == cut \/ body > cap \/ prefix > cap
  IN [truncated |-> truncated,
      length |-> IF ~ truncated THEN prefix
                 ELSE IF prefix + footer <= cap THEN prefix + footer
                 ELSE cap,
      body |-> IF ~ truncated \/ prefix + footer <= cap THEN prefix - header
               ELSE IF cap < footer THEN IF cap < header THEN 0 ELSE cap - header
               ELSE IF cap - footer < header THEN 0 ELSE cap - footer - header]
-----------------------------------------------------------------------------
(* Properties.                                                             *)

Same(before, node) ==
  IF before = Absent THEN node = Absent ELSE node.kind = "file" /\ before = File(Normal(node.text))

\* The outcome of a write or an edit reports the very text that it replaced
\* (filesystem.rs: "including the exact LF-normalized content that was replaced
\* under the target gate"): what a call read as the text before is what its
\* publication replaced.
OutcomeIsExact ==
  \A c \in Calls : call[c].published => Same(call[c].before, call[c].replaced)

\* A file tool changes files inside the workspace only, never through a link
\* that leads out of it: what lies outside keeps its text unless the outsider
\* writes it.
Confined ==
  \A p \in DOMAIN tree : ~ Inside(p) => p \in DOMAIN Tree /\ (outside = 0 => tree[p] = Tree[p])

\* A file is at every moment one whole text: what was there, what the outsider
\* wrote, or the complete text of one call, whatever fails or crashes half way.
FilesAreWhole ==
  \A p \in DOMAIN tree : tree[p].kind = "file" =>
    \/ p \in DOMAIN Tree /\ tree[p] = Tree[p]
    \/ tree[p] = File(<<"out">>)
    \/ \E c \in Calls : call[c].published /\ call[c].path = p /\ tree[p] = File(call[c].after)

\* A create never replaces a file, even one that appeared after the check.
CreatesReplaceNothing ==
  \A c \in Calls : call[c].published /\ job[c].create => call[c].replaced = Absent

\* A call that reports success has published, and one that was refused before
\* its write left the file alone.
ResultIsTrue ==
  \A c \in Calls : call[c].pc = "end" =>
    /\ call[c].result = "ok" /\ job[c].tool # "read" => call[c].published
    /\ call[c].published =>
         call[c].result \in {"ok", "not-found", "cancelled", "lease", "io", "crash"}

\* A temporary file outlives its call only after a crash or a refused operation.
TempsAreSwept ==
  \A f \in temps : call[f.by].pc = "end" => call[f.by].result \in {"crash", "io"}

Place(t, p) ==
  LET whole == Canonical(t, p)
      parent == Canonical(t, Front(p))
  IN IF whole.ok THEN whole
     ELSE IF parent.ok /\ Last(p) # ".." /\ Node(t, parent.path) = Dir
               /\ Node(t, Append(parent.path, Last(p))) = Absent
     THEN Found(Append(parent.path, Last(p)))
     ELSE Refused("nowhere")

\* A path is admitted if and only if it names a place in the workspace: one
\* that exists once every link is followed, or a missing name in a directory
\* that does.  A write to an admitted target goes to that very place.
TargetsAreConfined ==
  input.study = "path" =>
    LET place == Place(Tree, Candidate(input.request))
        target == ToolTarget(Tree, input.request)
    IN /\ target.ok <=> place.ok /\ Inside(place.path)
       /\ target.ok => WritePath(Tree, target.path) = place

\* A search looks at every regular file below its directory that no version
\* control directory holds, and follows no link.
SearchIsComplete ==
  input.study = "search" =>
    CollectFiles(Tree, input.at) =
      {p \in DOMAIN Tree : /\ Tree[p].kind = "file" /\ IsPrefix(input.at, p)
                           /\ \A i \in DOMAIN p : p[i] # ".git"}

RECURSIVE Pages(_, _, _, _)
Pages(lines, from, limit, cap) ==
  LET page == ReadPage(lines, from, limit, cap)
      shown == [i \in 1..(page.last + 1 - from) |-> from + i - 1]
  IN IF page.more /\ page.last >= from
     THEN shown \o Pages(lines, page.last + 1, limit, cap) ELSE shown

\* Following the offsets that reads suggest shows every line once, in order,
\* and ends, unless one line alone is longer than an output may be.
PagesShowTheFile ==
  input.study = "read" /\ (\A i \in DOMAIN input.lines : input.lines[i] <= input.cap) =>
    Pages(input.lines, 1, input.limit, input.cap) = [i \in DOMAIN input.lines |-> i]

\* Putting the new lines of a diff in the place of its old ones turns the text
\* before into the text after.
DiffApplies ==
  input.study = "diff" =>
    LET hunk == DiffHunk(input.old, input.new, input.context)
    IN \E i \in 0..Len(input.old) :
         /\ SubSeq(input.old, i + 1, i + Len(hunk.old)) = hunk.old
         /\ input.new = SubSeq(input.old, 1, i) \o hunk.new
                        \o SubSeq(input.old, i + Len(hunk.old) + 1, Len(input.old))

\* A search result says it is cut if and only if matches or paths it found are
\* left out of it.  Its text leaves something out that the result has only when
\* the text is as long as an output may be: the last cut, made when `truncated'
\* is settled, is the one nothing tells of, and it takes the notice first.  A
\* fetched page keeps within that limit, and tells.
CutsAreTold ==
  /\ input.study \in {"grep", "glob"} =>
       LET found == IF input.study = "grep" THEN Grep(input.files, input.most, input.size, input.cap)
                    ELSE Glob(input.total, input.most, input.size, input.cap)
       IN /\ found.truncated <=> found.kept < found.total
          /\ found.shown.length <= input.cap
          /\ found.shown.length < input.cap => found.shown.items = found.kept /\ found.shown.notice = found.truncated
          /\ found.shown.notice => found.shown.items = found.kept
  /\ input.study = "fetch" =>
       LET shown == FetchOutput(input.header, input.body, input.footer, input.cap, input.cut)
       IN /\ shown.length <= input.cap
          /\ shown.truncated <=> input.cut \/ shown.body < input.body \/ input.header > input.cap
-----------------------------------------------------------------------------
(* Two edits of one file, under two names.                                 *)

SmallTree ==
  [p \in {<<"ws">>, <<"ws", "f">>, <<"ws", "k">>} |->
     CASE p = <<"ws">> -> Dir
       [] p = <<"ws", "f">> -> File(<<"a", "lf", "b">>)
       [] p = <<"ws", "k">> -> Link(<<"ws", "f">>)]

Edit(path, old) ==
  [tool |-> "edit", request |-> [absolute |-> FALSE, path |-> path], asks |-> "nothing",
   justified |-> FALSE, create |-> FALSE, old |-> old, new |-> <<"c">>, all |-> FALSE]
SmallJobs == {Edit(<<"f">>, <<"a">>), Edit(<<"k">>, <<"b">>)}
=============================================================================
