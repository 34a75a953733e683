--------------------------- MODULE ProviderStream ---------------------------
(***************************************************************************)
(* The streams of the three provider APIs: ResponseState of                *)
(* src/src/openai_responses.rs, ChatState and AnthropicState of            *)
(* src/src/compatible_api.rs, behind cancellable_stream of src/src/llm.rs  *)
(* and read by a BlockAssembler.  The provider sends any events of a small *)
(* alphabet, in any order; the call may be cancelled and the connection    *)
(* may end at any time.  Text is a sequence of pieces.                     *)
(***************************************************************************)
EXTENDS Integers, Sequences, FiniteSets, SequencesExt

CONSTANTS
  Api,        \* "responses", "chat" or "anthropic"
  Keys,       \* output indexes, tool-call indexes or content indexes of the provider
  Types,      \* of {"text", "reasoning", "tool-call", "other"}: block types it sends
  Deltas,     \* pieces of text a delta carries
  Finals,     \* texts a finished item carries
  MaxEvents,  \* bound: events of a stream
  MaxIndex    \* bound: block indexes

VARIABLES
  st,    \* the adapter's state
  asm,   \* the reader's BlockAssembler
  seen,  \* events so far, and what of them is out of the ordinary
  at     \* "open" or "ended"

vars == <<st, asm, seen, at>>

-----------------------------------------------------------------------------
(* BlockAssembler of src/src/llm.rs: the assembly of chunks into one       *)
(* assistant message.  Text, reasoning and arguments are sequences of      *)
(* pieces; a chunk is a record whose field "is" names its kind.  Push      *)
(* returns the assembler after one chunk, or the old one marked as failed. *)

Indexes == 0..MaxIndex

Start(index, type) == [is |-> "start", index |-> index, type |-> type]
Delta(index, type, text, id) ==
  [is |-> "delta", index |-> index, type |-> type, text |-> text, id |-> id]
End(index, type, text, id) ==
  [is |-> "end", index |-> index, type |-> type, text |-> text, id |-> id]
Usage == [is |-> "usage"]
Finish(reason) == [is |-> "finish", reason |-> reason]

\* BlockRecord.  "streamed" is what the deltas carried, "text" what the block
\* is closed with.
NoBlock == [status |-> "none", type |-> "none", id |-> "none", text |-> <<>>, streamed |-> <<>>]

NewAssembler == [blocks |-> [i \in Indexes |-> NoBlock], usage |-> FALSE, finished |-> FALSE,
                 reason |-> "none", failed |-> FALSE]

Fail(was) == [was EXCEPT !.failed = TRUE]

\* A delta must match its block's type and call; after the block is closed it
\* is ignored.
PushDelta(was, c) ==
  LET b == was.blocks[c.index]
  IN CASE b.status = "none" -> Fail(was)
       [] b.status \in {"closed", "omitted"} -> was
       [] b.status = "open" /\ (b.type # c.type \/ (b.id # "none" /\ b.id # c.id)) -> Fail(was)
       [] OTHER -> [was EXCEPT !.blocks[c.index].streamed = @ \o c.text,
                               !.blocks[c.index].id = c.id]

\* close_block
PushEnd(was, c) ==
  LET b == was.blocks[c.index]
  IN IF b.status # "open" \/ b.type # c.type \/ (b.id # "none" /\ b.id # c.id) THEN Fail(was)
     ELSE [was EXCEPT !.blocks[c.index] = [b EXCEPT !.status = "closed", !.text = c.text, !.id = c.id]]

Open(was) == {i \in Indexes : was.blocks[i].status = "open"}

\* finish: open text survives the token limit, open calls never do.
FinishWith(was, reason) ==
  LET keep == reason = "max-tokens"
      Ended(b) == IF b.status # "open" THEN b
                  ELSE IF keep /\ b.type \in {"text", "reasoning"}
                       THEN [b EXCEPT !.status = "closed", !.text = b.streamed]
                       ELSE [b EXCEPT !.status = "omitted"]
  IN IF reason \notin {"max-tokens", "error", "aborted"} /\ Open(was) # {} THEN Fail(was)
     ELSE [was EXCEPT !.blocks = [i \in Indexes |-> Ended(@[i])], !.finished = TRUE,
                      !.reason = reason]

Push(was, c) ==
  CASE was.finished -> Fail(was)
    [] ~was.finished /\ c.is = "start" ->
         IF was.blocks[c.index].status # "none" THEN Fail(was)
         ELSE [was EXCEPT !.blocks[c.index] = [NoBlock EXCEPT !.status = "open", !.type = c.type]]
    [] ~was.finished /\ c.is = "delta" -> PushDelta(was, c)
    [] ~was.finished /\ c.is = "end" -> PushEnd(was, c)
    [] ~was.finished /\ c.is = "usage" -> IF was.usage THEN Fail(was) ELSE [was EXCEPT !.usage = TRUE]
    [] ~was.finished /\ c.is = "finish" -> FinishWith(was, c.reason)

\* The message: its closed blocks, by index.
Content(was) == {i \in Indexes : was.blocks[i].status = "closed"}

-----------------------------------------------------------------------------
(* The adapters' state.                                                    *)

NoEntry == [open |-> FALSE, index |-> 0, type |-> "none", text |-> <<>>, sep |-> FALSE]

Init ==
  /\ st = [blocks |-> [k \in Keys |-> NoEntry], closed |-> {}, next |-> 0, calls |-> FALSE,
           items |-> [k \in Keys |-> <<>>], reason |-> "none", terminal |-> FALSE]
  /\ asm = NewAssembler
  /\ seen = [n |-> 0, usages |-> 0, reopened |-> FALSE]
  /\ at = "open"

\* What accept returns: the state, the chunks to yield and whether it failed.
Ok(s, chunks) == [s |-> s, chunks |-> chunks, err |-> FALSE]
Err(s) == [s |-> s, chunks |-> <<>>, err |-> TRUE]
Then(r, q) == [q EXCEPT !.chunks = r.chunks \o @]
Let(value, Body(_)) == CHOOSE y \in {Body(x) : x \in {value}} : TRUE
IdOf(type) == IF type = "tool-call" THEN "call" ELSE "none"
Put(s, k, b) == [s EXCEPT !.blocks[k] = b]

-----------------------------------------------------------------------------
(* OpenAI Responses *)

AppendArguments(s, k, d) ==
  LET b == s.blocks[k]
  IN IF ~b.open \/ b.type # "tool-call" THEN Err(s)
     ELSE Ok(Put(s, k, [b EXCEPT !.text = @ \o d]), <<Delta(b.index, "tool-call", d, "call")>>)

\* open_item: an item already open, closed or of no interest opens nothing.
OpenItem(s, k, item) ==
  IF s.blocks[k].open \/ k \in s.closed \/ item.type = "other" THEN Ok(s, <<>>)
  ELSE IF item.type = "tool-call" /\ item.id = "none" THEN Err(s)
  ELSE LET b == [NoEntry EXCEPT !.open = TRUE, !.index = s.next, !.type = item.type]
           t == [Put(s, k, b) EXCEPT !.next = @ + 1, !.calls = @ \/ item.type = "tool-call"]
           opened == Ok(t, <<Start(s.next, item.type)>>)
       IN IF item.type = "tool-call" THEN Then(opened, AppendArguments(t, k, item.args)) ELSE opened

\* Mutant: the separator is emitted but not kept.
ExtendEmitted(s, k, d, type) ==
  LET b == s.blocks[k]
      sep == b.sep /\ b.text # <<>> /\ d # <<>>
  IN IF ~b.open \/ b.type # type THEN Err(s)
     ELSE Ok(Put(s, k, [b EXCEPT !.text = @ \o d, !.sep = @ /\ ~sep]),
             <<Delta(b.index, type, (IF sep THEN <<"sep">> ELSE <<>>) \o d, "none")>>)

\* append_text: between reasoning parts a separator is emitted and kept.
Extend(s, k, d, type) ==
  LET b == s.blocks[k]
      sep == b.sep /\ b.text # <<>> /\ d # <<>>
      e == (IF sep THEN <<"sep">> ELSE <<>>) \o d
  IN IF ~b.open \/ b.type # type THEN Err(s)
     ELSE Ok(Put(s, k, [b EXCEPT !.text = @ \o e, !.sep = @ /\ ~sep]),
             <<Delta(b.index, type, e, "none")>>)
AppendText(s, k, d, type) ==
  Let(OpenItem(s, k, [type |-> type, id |-> "none", args |-> <<>>]),
      LAMBDA o : Then(o, Extend(o.s, k, d, type)))

FinishReasoningPart(s, k) ==
  IF ~s.blocks[k].open \/ s.blocks[k].type # "reasoning" THEN Err(s)
  ELSE Ok([s EXCEPT !.blocks[k].sep = TRUE], <<>>)

Rest(final, text) == SubSeq(final, Len(text) + 1, Len(final))
FinishArguments(s, k, final) ==
  LET b == s.blocks[k]
  IN CASE ~b.open \/ b.type # "tool-call" -> Err(s)
       [] b.open /\ b.type = "tool-call" /\ final = b.text -> Ok(s, <<>>)
       [] b.open /\ b.type = "tool-call" /\ final # b.text ->
            IF IsPrefix(b.text, final) THEN AppendArguments(s, k, Rest(final, b.text)) ELSE Err(s)

\* reconcile_text: the final text must extend what was streamed.
ReconcileText(s, k, final) ==
  LET b == s.blocks[k]
  IN CASE final = b.text -> Ok(s, <<>>)
       [] final # b.text /\ IsPrefix(b.text, final) -> AppendText(s, k, Rest(final, b.text), b.type)
       [] OTHER -> Err(s)

Settle(s, k, args) ==
  IF s.blocks[k].type = "tool-call" THEN FinishArguments(s, k, args) ELSE ReconcileText(s, k, args)
Closed(s, k) ==
  LET b == s.blocks[k]
  IN Ok([Put(s, k, NoEntry) EXCEPT !.closed = @ \cup {k}], <<End(b.index, b.type, b.text, IdOf(b.type))>>)
CloseItem(s, k, item) ==
  IF k \in s.closed THEN Ok(s, <<>>)
  ELSE Let(OpenItem([s EXCEPT !.items[k] = IF item.type = "other" THEN @ ELSE <<item>>], k, item),
           LAMBDA o : IF o.err THEN o
                      ELSE IF ~o.s.blocks[k].open THEN [o EXCEPT !.s.closed = @ \cup {k}]
                      ELSE Let(Settle(o.s, k, item.args),
                               LAMBDA f : IF f.err THEN f ELSE Then(o, Then(f, Closed(f.s, k)))))

\* finish_response: items of the final output, or the ones kept, are closed.
CloseAll(s, items) ==
  FoldLeft(LAMBDA r, k : IF r.err \/ k \notin Keys THEN r ELSE Then(r, CloseItem(r.s, k, items[k + 1])),
           Ok(s, <<>>), [n \in 1..Len(items) |-> n - 1])
Complete(s, status, usage) ==
  LET reason == IF status = "incomplete" THEN "max-tokens" ELSE IF s.calls THEN "tool-calls" ELSE "stop"
  IN IF (\E k \in Keys : s.blocks[k].open) \/ status = "failed" THEN Err(s)
     ELSE Ok([s EXCEPT !.terminal = TRUE], (IF usage THEN <<Usage>> ELSE <<>>) \o <<Finish(reason)>>)
FinishResponse(s, output, status, usage) ==
  LET kept == FoldLeft(LAMBDA acc, k : acc \o s.items[k], <<>>, [n \in 1..Cardinality(Keys) |-> n - 1])
  IN IF s.terminal THEN Err(s)
     ELSE Let(CloseAll(s, IF output # <<>> THEN output ELSE kept),
              LAMBDA r : IF r.err THEN r ELSE Then(r, Complete(r.s, status, usage)))

Items == [type : Types, id : {"none", "call"}, args : Finals]
AcceptResponses(s, e) ==
  CASE e.is = "added" -> OpenItem(s, e.key, e.item)
    [] e.is = "text" -> AppendText(s, e.key, e.text, e.type)
    [] e.is = "part" -> FinishReasoningPart(s, e.key)
    [] e.is = "args" -> AppendArguments(s, e.key, e.text)
    [] e.is = "argsdone" -> FinishArguments(s, e.key, e.text)
    [] e.is = "done" -> CloseItem(s, e.key, e.item)
    [] e.is = "completed" -> FinishResponse(s, e.output, e.status, e.usage)
    [] e.is = "failed" -> Err(s)

ResponsesEvents ==
  [is : {"added", "done"}, key : Keys, item : Items]
    \cup [is : {"text"}, key : Keys, text : Deltas, type : Types \cap {"text", "reasoning"}]
    \cup [is : {"part"}, key : IF "reasoning" \in Types THEN Keys ELSE {}]
    \cup [is : {"args"}, key : Keys, text : Deltas]
    \cup [is : {"argsdone"}, key : Keys, text : Finals]
    \cup [is : {"completed"}, output : {<<>>} \cup {<<i>> : i \in Items},
          status : {"completed", "incomplete", "failed"}, usage : BOOLEAN]
    \cup {[is |-> "failed"]}

-----------------------------------------------------------------------------
(* OpenAI chat completions: reasoning, text and tool calls have keys 0, 1 and 2 on *)

ChatText(s, k, d, type) ==
  LET new == ~s.blocks[k].open
      b == IF new THEN [NoEntry EXCEPT !.open = TRUE, !.index = s.next, !.type = type] ELSE s.blocks[k]
      t == IF new THEN [s EXCEPT !.next = @ + 1] ELSE s
  IN IF d = <<>> THEN Ok(s, <<>>)
     ELSE Ok(Put(t, k, [b EXCEPT !.text = @ \o d]),
             (IF new THEN <<Start(b.index, type)>> ELSE <<>>) \o <<Delta(b.index, type, d, "none")>>)

\* append_tool: the first delta must carry the call's id and name.
ChatTool(s, k, d, named) ==
  LET new == ~s.blocks[k].open
      b == IF new THEN [NoEntry EXCEPT !.open = TRUE, !.index = s.next, !.type = "tool-call"]
           ELSE s.blocks[k]
      t == IF new THEN [s EXCEPT !.next = @ + 1] ELSE s
  IN IF new /\ ~named THEN Err(s)
     ELSE Ok(Put(t, k, [b EXCEPT !.text = @ \o d]),
             (IF new THEN <<Start(b.index, "tool-call")>> ELSE <<>>)
               \o <<Delta(b.index, "tool-call", d, "call")>>)

\* finish, at [DONE]: every block is closed, in the order they were opened.
ChatFinish(s) ==
  LET at1(n) == CHOOSE k \in Keys : s.blocks[k].open /\ s.blocks[k].index = n - 1
      ends == [n \in 1..Cardinality({k \in Keys : s.blocks[k].open}) |->
                 LET b == s.blocks[at1(n)] IN End(b.index, b.type, b.text, IdOf(b.type))]
  IN IF s.terminal THEN Ok(s, <<>>)
     ELSE Ok([s EXCEPT !.blocks = [k \in Keys |-> NoEntry], !.terminal = TRUE, !.reason = "none"],
             ends \o <<Finish(IF s.reason = "none" THEN "stop" ELSE s.reason)>>)

AcceptChat(s, e) ==
  CASE e.is = "usage" -> Ok(s, <<Usage>>)
    [] e.is = "text" -> ChatText(s, e.key, e.text, IF e.key = 0 THEN "reasoning" ELSE "text")
    [] e.is = "tool" -> ChatTool(s, e.key, e.text, e.named)
    [] e.is = "finish" -> Ok([s EXCEPT !.reason = e.reason], <<>>)
    [] e.is = "[DONE]" -> ChatFinish(s)
    [] e.is = "error" -> Err(s)

ChatEvents ==
  [is : {"text"}, key : Keys \cap {0, 1}, text : Deltas]
    \cup [is : {"tool"}, key : Keys \ {0, 1}, text : Deltas, named : BOOLEAN]
    \cup [is : {"finish"}, reason : {"stop", "tool-calls", "max-tokens"}]
    \cup {[is |-> "usage"], [is |-> "[DONE]"], [is |-> "error"]}

-----------------------------------------------------------------------------
(* Anthropic messages: the provider's indexes are the blocks' *)

StartBlock(s, k, type, text, named) ==
  LET b == [NoEntry EXCEPT !.open = TRUE, !.index = k, !.type = type,
                           !.text = IF type = "tool-call" THEN <<>> ELSE text]
      first == CASE type = "tool-call" -> <<Delta(k, type, <<>>, "call")>>
                 [] type # "tool-call" /\ text # <<>> -> <<Delta(k, type, text, "none")>>
                 [] OTHER -> <<>>
  IN IF s.blocks[k].open \/ type = "other" THEN Ok(s, <<>>)
     ELSE IF type = "tool-call" /\ ~named THEN Err(s)
     ELSE Ok(Put(s, k, b), <<Start(k, type)>> \o first)

BlockDelta(s, k, type, d) ==
  LET b == s.blocks[k]
  IN CASE ~b.open -> Err(s)
       [] b.open /\ type = "signature" /\ b.type = "reasoning" -> Ok(s, <<>>)
       [] b.open /\ type = b.type ->
            Ok(Put(s, k, [b EXCEPT !.text = @ \o d]), <<Delta(k, type, d, IdOf(type))>>)
       [] OTHER -> Err(s)

StopBlock(s, k) ==
  LET b == s.blocks[k]
  IN IF ~b.open THEN Err(s) ELSE Ok(Put(s, k, NoEntry), <<End(k, b.type, b.text, IdOf(b.type))>>)

MessageStop(s) ==
  IF s.terminal THEN Ok(s, <<>>)
  ELSE IF \E k \in Keys : s.blocks[k].open THEN Err(s)
  ELSE Ok([s EXCEPT !.terminal = TRUE, !.reason = "none"],
          <<Usage, Finish(IF s.reason = "none" THEN "stop" ELSE s.reason)>>)

AcceptAnthropic(s, e) ==
  CASE e.is = "start" -> StartBlock(s, e.key, e.type, e.text, e.named)
    [] e.is = "delta" -> BlockDelta(s, e.key, e.type, e.text)
    [] e.is = "stop" -> StopBlock(s, e.key)
    [] e.is = "reason" -> Ok([s EXCEPT !.reason = e.reason], <<>>)
    [] e.is = "message_stop" -> MessageStop(s)
    [] e.is = "error" -> Err(s)

AnthropicEvents ==
  [is : {"start"}, key : Keys, type : Types, text : Finals, named : BOOLEAN]
    \cup [is : {"delta"}, key : Keys, type : Types \cup {"signature"}, text : Deltas]
    \cup [is : {"stop"}, key : Keys]
    \cup [is : {"reason"}, reason : {"none", "tool-calls", "max-tokens"}]
    \cup {[is |-> "message_stop"], [is |-> "error"]}

-----------------------------------------------------------------------------

Accept(s, e) ==
  CASE Api = "responses" -> AcceptResponses(s, e)
    [] Api = "chat" -> AcceptChat(s, e)
    [] Api = "anthropic" -> AcceptAnthropic(s, e)
Events == CASE Api = "responses" -> ResponsesEvents
            [] Api = "chat" -> ChatEvents
            [] Api = "anthropic" -> AnthropicEvents

\* cancellable_stream yields nothing after a finish; the reader stops at the
\* first chunk its assembler refuses.
Read(a, chunks) ==
  FoldLeft(LAMBDA acc, c : IF acc.finished \/ acc.failed THEN acc ELSE Push(acc, c), a, chunks)
EndWith(a, reason) == Read(a, <<Finish(reason)>>)

\* One event of the provider; an error becomes a terminal failure chunk.
Receive(e) ==
  /\ at = "open" /\ seen.n < MaxEvents
  /\ \E r \in {Accept(st, e)} :
       /\ st' = r.s
       /\ asm' = IF r.err THEN EndWith(asm, "error") ELSE Read(asm, r.chunks)
       /\ at' = IF r.err \/ asm'.finished \/ asm'.failed THEN "ended" ELSE "open"
  /\ seen' = [n |-> seen.n + 1, usages |-> seen.usages + (IF e.is = "usage" THEN 1 ELSE 0),
              reopened |-> seen.reopened \/ (e.is = "start" /\ asm.blocks[e.key].status = "closed")]

\* The connection ends, or the call is cancelled.
Disconnect ==
  /\ at = "open"
  /\ at' = "ended" /\ asm' = EndWith(asm, "error")
  /\ UNCHANGED <<st, seen>>
Cancel ==
  /\ at = "open"
  /\ at' = "ended" /\ asm' = EndWith(asm, "aborted")
  /\ UNCHANGED <<st, seen>>

Next == (\E e \in Events : Receive(e)) \/ Disconnect \/ Cancel
Spec == Init /\ [][Next]_vars

-----------------------------------------------------------------------------

TypeOK ==
  /\ at \in {"open", "ended"} /\ seen.n \in 0..MaxEvents
  /\ \A k \in Keys : st.blocks[k].index \in Indexes
  /\ \A i \in Indexes : asm.blocks[i].status \in {"none", "open", "closed", "omitted"}

\* Whatever a provider sends, the chunks an adapter yields are a well-formed
\* stream: the assembler refuses none of them, and the stream ends with a finish.
\* Two exceptions: a chat provider that reports usage twice, and an Anthropic
\* stream that starts a block under an index it has already stopped.
ChunksWellFormed ==
  /\ asm.failed => seen.usages > 1 \/ seen.reopened
  /\ at = "ended" /\ ~asm.failed => asm.finished

\* A block of the message holds exactly the text that was streamed for it, and a
\* block left open by an error or a cancellation is not in the message; so what a
\* client saw and what the log keeps agree (close_item, ChatState::finish,
\* stop_block, BlockAssembler::finish).
MessageIsStream ==
  /\ \A i \in Content(asm) : asm.blocks[i].text = asm.blocks[i].streamed
  /\ asm.finished => Open(asm) = {}

=============================================================================
