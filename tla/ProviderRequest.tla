-------------------------- MODULE ProviderRequest --------------------------
(***************************************************************************)
(* What a conversation becomes on the wire: the request bodies of          *)
(* src/src/openai_responses.rs (Responses) and src/src/compatible_api.rs   *)
(* (Chat Completions and Anthropic Messages).  A conversation grows        *)
(* message by message, as the agent's context does; the three bodies are   *)
(* functions of it.  Blocks are records; a message keeps the provider's    *)
(* own items for a replay to the same route.                               *)
(***************************************************************************)
EXTENDS Integers, Sequences, FiniteSets, SequencesExt

CONSTANTS
  Tools,        \* tool names offered; a name is <<letters, separator>>
  Replies,      \* assistant messages, as sequences of blocks
  Inputs,       \* blocks of user and system messages
  MaxMessages   \* bound: messages of a conversation

VARIABLES conv  \* the messages

vars == <<conv>>

Text(t) == [type |-> "text", text |-> t]
Call(id, name, args) == [type |-> "call", id |-> id, name |-> name, args |-> args]
Result(id, image) == [type |-> "result", id |-> id, image |-> image]

\* A reply is kept with the provider's own items ("native"), which only count
\* for the route they came from and if every item is complete ("same").
Message(role, blocks, native) == [role |-> role, blocks |-> blocks, native |-> native]

Blocks(type) ==
  UNION {{m} \X {b \in DOMAIN conv[m].blocks : conv[m].blocks[b].type = type} : m \in DOMAIN conv}
Block(p) == conv[p[1]].blocks[p[2]]
CallIds == {Block(p).id : p \in Blocks("call")}
Answered == {Block(p).id : p \in Blocks("result")}

Init == conv = <<>>

AddInput(role, block) ==
  /\ Len(conv) < MaxMessages
  /\ CallIds = Answered
  /\ conv' = Append(conv, Message(role, <<block>>, "none"))

AddReply(blocks, native) ==
  /\ Len(conv) < MaxMessages
  /\ CallIds = Answered
  /\ \A i \in 1..Len(blocks) : blocks[i].type = "call" => blocks[i].id \notin CallIds
  /\ conv' = Append(conv, Message("assistant", blocks, native))

\* Each result is a message of its own, in any order.
AddResult(id, image) ==
  /\ id \in CallIds \ Answered
  /\ conv' = Append(conv, Message("user", <<Result(id, image)>>, "none"))

Next ==
  \/ \E r \in {"system", "user"}, b \in Inputs : AddInput(r, b)
  \/ \E r \in Replies, n \in {"none", "same", "other"} : AddReply(r, n)
  \/ \E id \in CallIds, image \in BOOLEAN : AddResult(id, image)

Spec == Init /\ [][Next]_vars

-----------------------------------------------------------------------------
(* Tool names: a separator the wire does not allow becomes "_". *)

Wire(name) == <<name[1], IF name[2] = "-" THEN "-" ELSE "_">>

\* native_replay_output
Native(m) == m.native = "same"

\* ToolNames::from_request
Named == Tools \cup {Block(p).name : p \in {q \in Blocks("call") : ~Native(conv[q[1]])}}
Collides == \E a, b \in Named : a # b /\ Wire(a) = Wire(b)
Logical(wire) == IF \E a \in Named : Wire(a) = wire THEN CHOOSE a \in Named : Wire(a) = wire ELSE wire

-----------------------------------------------------------------------------
(* Responses: append_message_input flushes the text before a call or a       *)
(* result; a message of this route is replayed as the provider's items.      *)

Flush(r) == IF r.content = <<>> THEN r.input
            ELSE Append(r.input, [is |-> "message", role |-> r.role, content |-> r.content])
ResponsesBlock(r, b) ==
  CASE b.type \in {"text", "image"} -> [r EXCEPT !.content = Append(@, b)]
    [] b.type = "reasoning" -> r
    [] b.type = "call" -> [r EXCEPT !.input = Append(Flush(r), [is |-> "call", id |-> b.id, name |-> Wire(b.name)]),
                                    !.content = <<>>]
    [] b.type = "result" -> [r EXCEPT !.input = Append(Flush(r), [is |-> "output", id |-> b.id,
                                        parts |-> IF b.image THEN {"text", "image"} ELSE {"text"}]),
                                      !.content = <<>>]
WireRole(role) == IF role = "system" THEN "developer" ELSE role
NativeItems(m) ==
  LET Item(b) == CASE b.type = "text" -> [is |-> "message", role |-> "assistant", content |-> <<b>>]
                   [] b.type = "reasoning" -> [is |-> "reasoning"]
                   [] b.type = "call" -> [is |-> "call", id |-> b.id, name |-> Wire(b.name)]
  IN [i \in 1..Len(m.blocks) |-> Item(m.blocks[i])]
ResponsesMessage(input, m) ==
  IF Native(m) THEN input \o NativeItems(m)
  ELSE Flush(FoldLeft(ResponsesBlock, [input |-> input, content |-> <<>>, role |-> WireRole(m.role)], m.blocks))
ResponsesInput == FoldLeft(ResponsesMessage, <<>>, conv)

-----------------------------------------------------------------------------
(* Chat: a message's text and calls together, then its results. *)

Of(m, types) == SelectSeq(m.blocks, LAMBDA b : b.type \in types)
Calls(m) == [i \in 1..Len(Of(m, {"call"})) |-> [id |-> Of(m, {"call"})[i].id, name |-> Wire(Of(m, {"call"})[i].name)]]
ChatMessage(messages, m) ==
  LET content == Of(m, {"text", "image"})
      results == Of(m, {"result"})
  IN messages
     \o (IF content = <<>> /\ Calls(m) = <<>> THEN <<>>
         ELSE <<[role |-> m.role, content |-> content, calls |-> Calls(m), of |-> "none"]>>)
     \o [i \in 1..Len(results) |-> [role |-> "tool", content |-> <<Text("output")>>, calls |-> <<>>,
                                    of |-> results[i].id]]
ChatMessages == FoldLeft(ChatMessage, <<>>, conv)

-----------------------------------------------------------------------------
(* Anthropic: system text is lifted out, arguments must be JSON. *)

AnthropicFails == \E p \in Blocks("call") : Block(p).args # "json"
AnthropicSystem ==
  FoldLeft(LAMBDA s, m : IF m.role = "system" THEN s \o Of(m, {"text"}) ELSE s, <<>>, conv)
AnthropicMessage(messages, m) ==
  LET normal == Of(m, {"text", "image", "call"})
      results == Of(m, {"result"})
  IN IF m.role = "system" THEN messages
     ELSE messages \o (IF normal = <<>> THEN <<>> ELSE <<[role |-> m.role, content |-> normal]>>)
                   \o (IF results = <<>> THEN <<>> ELSE <<[role |-> "user", content |-> results]>>)
AnthropicMessages == FoldLeft(AnthropicMessage, <<>>, conv)

-----------------------------------------------------------------------------
\* The calls and results of a body, in its order.
ResponsesTrace ==
  LET keep == SelectSeq(ResponsesInput, LAMBDA i : i.is \in {"call", "output"})
  IN [k \in 1..Len(keep) |-> <<keep[k].is = "call", keep[k].id>>]
ChatTrace ==
  LET chat == ChatMessages IN
  FlattenSeq([k \in DOMAIN chat |->
    [i \in DOMAIN chat[k].calls |-> <<TRUE, chat[k].calls[i].id>>]
    \o (IF chat[k].role = "tool" THEN <<<<FALSE, chat[k].of>>>> ELSE <<>>)])
AnthropicTrace ==
  LET messages == AnthropicMessages IN
  FlattenSeq([k \in DOMAIN messages |->
    LET c == SelectSeq(messages[k].content, LAMBDA b : b.type \in {"call", "result"})
    IN [i \in 1..Len(c) |-> <<c[i].type = "call", c[i].id>>]])
Trace ==
  FlattenSeq([k \in 1..Len(conv) |->
    LET c == Of(conv[k], {"call", "result"})
    IN [i \in 1..Len(c) |-> <<c[i].type = "call", c[i].id>>]])

\* Every provider sees the calls and results of the conversation, each once
\* and in the same order, so a result always follows its call, and a message
\* replayed as the provider's own items is not sent a second time.
CallsArePaired ==
  /\ ResponsesTrace = Trace
  /\ ChatTrace = Trace
  /\ ~AnthropicFails => AnthropicTrace = Trace

\* No text of the conversation is dropped or reordered, whichever provider
\* is asked: developer, system and user text included.
Texts(bs) == SelectSeq(bs, LAMBDA b : b.type = "text")
ConvTexts(all) == FlattenSeq([k \in 1..Len(conv) |->
                    IF all \/ conv[k].role # "system" THEN Texts(conv[k].blocks) ELSE <<>>])
TextIsKept ==
  LET input == ResponsesInput  chat == ChatMessages  messages == AnthropicMessages IN
  /\ FlattenSeq([k \in DOMAIN input |-> IF input[k].is = "message" THEN Texts(input[k].content) ELSE <<>>])
       = ConvTexts(TRUE)
  /\ FlattenSeq([k \in DOMAIN chat |-> IF chat[k].role = "tool" THEN <<>> ELSE Texts(chat[k].content)])
       = ConvTexts(TRUE)
  /\ FlattenSeq([k \in DOMAIN messages |-> Texts(messages[k].content)]) = ConvTexts(FALSE)
  /\ Len(AnthropicSystem) + Len(ConvTexts(FALSE)) = Len(ConvTexts(TRUE))

\* A tool the model calls by its wire name is the tool that was offered under
\* it; names that the wire cannot tell apart are refused instead.
NamesResolve == ~Collides => \A t \in Tools : Logical(Wire(t)) = t

=============================================================================
