------------------------------ MODULE Framing ------------------------------
(***************************************************************************)
(* The decoders that cut a byte stream into messages: SseDecoder of        *)
(* src/src/openai_responses.rs, PersistentShellFrameParser of              *)
(* src/src/subprocess.rs, and the base64 coders of src/src/attachments.rs, *)
(* src/src/bridge.rs, src/src/openai_responses.rs and                      *)
(* src/src/subprocess.rs.  The input is any sequence over a small          *)
(* alphabet; it arrives in pieces of any size.  A two-byte prefix stands   *)
(* for the shell's longer one, a one-byte suffix for its two bytes.        *)
(***************************************************************************)
EXTENDS Integers, Sequences, FiniteSets, SequencesExt

CONSTANTS
  Codec,     \* "sse", "shell" or "base64"
  Alphabet,  \* the bytes of the input
  Length,    \* bound: bytes of the input
  Limit      \* MAX_SSE_EVENT_BYTES, MAX_PERSISTENT_SHELL_FRAME_BYTES

VARIABLES
  input,   \* the whole stream
  at,      \* bytes that have arrived
  buffer,  \* bytes not decoded yet
  out,     \* what was decoded
  err,     \* the decoder failed
  ended    \* the stream ended and finish was called

vars == <<input, at, buffer, out, err, ended>>

Init ==
  /\ input \in UNION {[1..n -> Alphabet] : n \in 0..Length}
  /\ at = 0
  /\ buffer = <<>>
  /\ out = <<>>
  /\ err = FALSE
  /\ ended = FALSE

From(s, i) == SubSeq(s, i, Len(s))
To(s, i) == SubSeq(s, 1, i)
Matches(s, i, word) == SubSeq(s, i, i + Len(word) - 1) = word
Places(s, word) == {i \in 1..(Len(s) - Len(word) + 1) : Matches(s, i, word)}
Least(S) == CHOOSE i \in S : \A j \in S : i <= j

-----------------------------------------------------------------------------
(* Server-sent events: "n" ends a line, "r" may come before it, "d" is the   *)
(* field name "data:" and every other byte is text.                          *)

\* event_boundary: the first empty line, and the bytes that make it.
Boundaries(s) == Places(s, <<"n", "n">>) \cup Places(s, <<"r", "n", "r", "n">>)
Delimiter(s, i) == IF Matches(s, i, <<"n", "n">>) THEN 2 ELSE 4

\* event_data: the text of the data lines of a frame, without a trailing "r".
NoReturn(line) == IF line # <<>> /\ Last(line) = "r" THEN Front(line) ELSE line
LineAt(frame, i) ==
  LET ends == {j \in i..Len(frame) : frame[j] = "n"}
  IN NoReturn(SubSeq(frame, i, IF ends = {} THEN Len(frame) ELSE Least(ends) - 1))
DataLines(frame) ==
  LET starts == {i \in 1..Len(frame) : frame[i] = "d" /\ (i = 1 \/ frame[i - 1] = "n")}
  IN [k \in 1..Cardinality(starts) |->
       LET i == CHOOSE x \in starts : Cardinality({y \in starts : y < x}) = k - 1
       IN Tail(LineAt(frame, i))]

\* push: [s, events, err] after every event in the buffer was taken.
SseStep(d) ==
  LET b == Least(Boundaries(d.s))
      lines == DataLines(To(d.s, b - 1))
  IN IF b - 1 > Limit THEN [d EXCEPT !.err = TRUE]
     ELSE [d EXCEPT !.s = From(d.s, b + Delimiter(d.s, b)),
                    !.out = IF lines = <<>> THEN @ ELSE Append(@, lines)]
SseAgain(d, i) == IF d.err \/ Boundaries(d.s) = {} THEN d ELSE SseStep(d)
SsePush(bytes) ==
  LET d == FoldLeft(SseAgain, [s |-> bytes, out |-> <<>>, err |-> FALSE], [i \in 1..Len(bytes) |-> i])
  IN [d EXCEPT !.err = @ \/ Len(d.s) > Limit]

SseFinishes(s) == \A i \in 1..Len(s) : s[i] \in {"n", "r"}

-----------------------------------------------------------------------------
(* Shell frames: "p" "q" begin a marker and "s" ends it; with anything in    *)
(* between it is none.                                                       *)

Prefix == <<"p", "q">>
Marker == <<"p", "q", "s">>
Data(s) == [is |-> "data", bytes |-> s]

\* The reader appends neighbouring data to one text.
Put(ts, t) == IF ts # <<>> /\ t.is = "data" /\ Last(ts).is = "data"
              THEN Append(Front(ts), Data(Last(ts).bytes \o t.bytes)) ELSE Append(ts, t)

\* drain_data
Drain(d, n) == IF n = 0 THEN d
               ELSE [d EXCEPT !.s = From(d.s, n + 1), !.out = Put(@, Data(To(d.s, n)))]

\* feed, one turn of its loop.  The bytes kept back may be the start of a
\* prefix (prefix_suffix_len).
Kept(s) == IF s # <<>> /\ Last(s) = "p" THEN 1 ELSE 0
Stop(d) == [d EXCEPT !.stop = TRUE]
NoPrefix(d) == Stop(Drain(d, Len(d.s) - Kept(d.s)))
AtPrefix(d) ==
  LET ends == {i \in 3..Len(d.s) : d.s[i] = "s"}
      end == Least(ends)
  IN IF ends = {} THEN Stop(Drain(d, IF Len(d.s) > Limit THEN Len(d.s) - Limit ELSE 0))
     ELSE IF end > Limit THEN Drain(d, 1)
     ELSE [d EXCEPT !.s = From(d.s, end + 1),
                    !.out = Put(@, IF To(d.s, end) = Marker THEN [is |-> "marker", bytes |-> Marker]
                                                            ELSE Data(To(d.s, end)))]
FeedStep(d, i) ==
  LET starts == Places(d.s, Prefix)
  IN IF d.stop THEN d
     ELSE IF starts = {} THEN NoPrefix(d)
     ELSE IF Least(starts) # 1 THEN Drain(d, Least(starts) - 1)
     ELSE AtPrefix(d)
Feed(bytes) == FoldLeft(FeedStep, [s |-> bytes, out |-> out, stop |-> FALSE],
                        [i \in 1..(2 * Len(bytes) + 1) |-> i])

-----------------------------------------------------------------------------
(* Base64: a digit is its value 0..63, 64 the pad and 65 any other byte.     *)

Pad == 64
\* base64_encode of one chunk of at most three bytes
EncodeChunk(c) ==
  LET second == IF Len(c) > 1 THEN c[2] ELSE 0
      third == IF Len(c) > 2 THEN c[3] ELSE 0
  IN <<c[1] \div 4, (c[1] % 4) * 16 + (second \div 16),
       IF Len(c) > 1 THEN (second % 16) * 4 + (third \div 64) ELSE Pad,
       IF Len(c) > 2 THEN third % 64 ELSE Pad>>
Pieces(s, size) == [k \in 1..((Len(s) + size - 1) \div size) |->
                      SubSeq(s, (k - 1) * size + 1, IF k * size < Len(s) THEN k * size ELSE Len(s))]
Encode(bytes) == FlattenSeq([k \in 1..Len(Pieces(bytes, 3)) |-> EncodeChunk(Pieces(bytes, 3)[k])])

\* base64_encode of subprocess.rs: the chunk as one 24-bit number
EncodeBits(c) ==
  LET bits == c[1] * 65536 + (IF Len(c) > 1 THEN c[2] ELSE 0) * 256 + (IF Len(c) > 2 THEN c[3] ELSE 0)
  IN <<bits \div 262144, (bits \div 4096) % 64,
       IF Len(c) > 1 THEN (bits \div 64) % 64 ELSE Pad, IF Len(c) > 2 THEN bits % 64 ELSE Pad>>

Digit(d) == IF d = Pad THEN 0 ELSE d
Bytes(c, n) == To(<<((Digit(c[1]) * 4) % 256) + (Digit(c[2]) \div 16),
                    ((Digit(c[2]) * 16) % 256) + (Digit(c[3]) \div 4),
                    ((Digit(c[3]) * 64) % 256) + Digit(c[4])>>, n)

\* decode_base64 of attachments.rs
Quartet(c, last) ==
  /\ \A i \in 1..4 : c[i] <= Pad
  /\ \A i \in 1..4 : c[i] = Pad => last /\ i > 2 /\ \A j \in i..4 : c[j] = Pad
Pads(c) == Len(SelectSeq(c, LAMBDA d : d = Pad))
DecodeAttachment(s) ==
  LET q == Pieces(s, 4)
  IN IF s = <<>> \/ Len(s) % 4 # 0 \/ \E k \in 1..Len(q) : ~Quartet(q[k], k = Len(q))
     THEN [ok |-> FALSE, bytes |-> <<>>]
     ELSE [ok |-> TRUE, bytes |-> FlattenSeq([k \in 1..Len(q) |-> Bytes(q[k], 3 - Pads(q[k]))])]

\* base64_decoded_len and decode_base64 of bridge.rs: padding is read off the end
Padding(s) == CASE Len(s) > 1 /\ Matches(s, Len(s) - 1, <<Pad, Pad>>) -> 2
                [] s # <<>> /\ Last(s) = Pad /\ ~(Len(s) > 1 /\ Matches(s, Len(s) - 1, <<Pad, Pad>>)) -> 1
                [] OTHER -> 0
DecodedLen(s) == (Len(s) \div 4) * 3 - Padding(s)
DecodeBody(s) ==
  IF \/ Len(s) % 4 # 0 \/ DecodedLen(s) > Limit
     \/ \E i \in 1..Len(s) : s[i] > Pad \/ (s[i] = Pad /\ i <= Len(s) - Padding(s))
  THEN [ok |-> FALSE, bytes |-> <<>>]
  ELSE LET q == Pieces(s, 4)
       IN [ok |-> TRUE,
           bytes |-> FlattenSeq([k \in 1..Len(q) |-> Bytes(q[k], 3 - Pads(q[k]))])]

-----------------------------------------------------------------------------
\* A piece of the stream arrives and is decoded as far as it can be.
Receive(n) ==
  LET bytes == buffer \o SubSeq(input, at + 1, at + n)
  IN /\ at + n <= Len(input)
     /\ ~err
     /\ at' = at + n
     /\ CASE Codec = "sse" -> \E d \in {SsePush(bytes)} :
                                buffer' = d.s /\ out' = out \o d.out /\ err' = d.err
          [] Codec = "shell" -> \E d \in {Feed(bytes)} :
                                buffer' = d.s /\ out' = d.out /\ err' = err
          [] Codec = "base64" -> /\ n = Len(input)
                                 /\ \E d \in {DecodeAttachment(bytes)} :
                                      out' = <<d.bytes>> /\ err' = ~d.ok
                                 /\ buffer' = <<>>
     /\ UNCHANGED <<input, ended>>

\* finish: what is left over is data to the shell, an error to the events.
End ==
  /\ at = Len(input)
  /\ ~err
  /\ ~ended
  /\ ended' = TRUE
  /\ buffer' = <<>>
  /\ out' = IF Codec = "shell" /\ buffer # <<>> THEN Put(out, Data(buffer)) ELSE out
  /\ err' = (Codec = "sse" /\ ~SseFinishes(buffer))
  /\ UNCHANGED <<input, at>>

Next == (\E n \in 1..Length : Receive(n)) \/ End

Spec == Init /\ [][Next]_vars

-----------------------------------------------------------------------------
\* The frames of a complete event stream, cut at every boundary.
Whole == SsePush(input)
Short(limit) == Len(Whole.s) <= limit /\ \A i \in 1..Len(input) : i + limit >= Len(input) \/
                  \E j \in Boundaries(input) : i <= j /\ j <= i + limit

\* Events do not depend on how the connection cut the stream: unless an event
\* comes within a delimiter of the limit, the decoder yields what it yields
\* for the whole stream, and it fails at the end exactly if the stream stops
\* inside an event.
EventsWhole ==
  Codec = "sse" /\ Short(Limit - 3) =>
    /\ IsPrefix(out, Whole.out)
    /\ err => ended
    /\ ended => out = Whole.out /\ err = ~SseFinishes(Whole.s)

\* The shell's output is neither lost nor changed: data, markers and the bytes
\* held back make up what arrived.  A marker is found however it was cut,
\* unless a stray prefix shortly before it swallows it.
Joined(ts) == FlattenSeq([i \in 1..Len(ts) |-> ts[i].bytes])
Clean(i) == \A j \in Places(input, Prefix) : j < i => j + Limit <= i
MarkersFound ==
  Codec = "shell" =>
    /\ Joined(out) \o buffer = To(input, at)
    /\ \A i \in Places(input, Marker) : Clean(i) /\ i + 2 <= at =>
         \E k \in 1..Len(out) : /\ out[k].is = "marker"
                                /\ Len(Joined(To(out, k - 1))) = i - 1
    /\ \A k \in 1..Len(out) : out[k].is = "marker" => out[k].bytes = Marker

\* Both decoders read the same bytes from the same text, of the length
\* announced, and read back what any of the encoders wrote.
Base64Agrees ==
  Codec = "base64" =>
    /\ input # <<>> /\ DecodedLen(input) <= Limit => DecodeBody(input) = DecodeAttachment(input)
    /\ DecodeBody(input).ok => Len(DecodeBody(input).bytes) = DecodedLen(input)
    /\ input # <<>> =>
         /\ DecodeAttachment(Encode(input)) = [ok |-> TRUE, bytes |-> input]
         /\ Len(input) <= 3 => EncodeBits(input) = Encode(input)

=============================================================================
