-------------------------- MODULE AnthropicEvents --------------------------
(***************************************************************************)
(* eventToStreamEvents of anthropic and minimax: what one event of an      *)
(* Anthropic message stream becomes.                                       *)
(***************************************************************************)
EXTENDS Responses

BlockKinds == {"text", "tool_use", "thinking"}
WireStops == {"end_turn", "stop_sequence", "max_tokens", "tool_use", "other"}

MessageStart(in, out) == [type |-> "message_start", in |-> in, out |-> out]
MessageDelta(stop, in, out) ==
  [type |-> "message_delta", stop |-> stop, in |-> in, out |-> out]
BlockStart(i, kind, call) ==
  [type |-> "content_block_start", index |-> i, kind |-> kind, call |-> call]
BlockDelta(i, kind, t) ==
  [type |-> "content_block_delta", index |-> i, kind |-> kind, text |-> t]
BlockStop(i) == [type |-> "content_block_stop", index |-> i]
MessageStop == [type |-> "message_stop"]

AnthropicChunk ==
  {MessageStart(i, o) : i, o \in Tokens}
    \cup {MessageDelta(s, i, o) : s \in WireStops, i, o \in Tokens}
    \cup {BlockStart(i, k, c) : i \in Indexes, k \in BlockKinds \cup {"other"},
                                c \in Calls \cup {NoCall}}
    \cup {BlockDelta(i, k, t) : i \in Indexes, t \in Texts \cup {NoText},
                                k \in {"text", "input_json", "thinking", "other"}}
    \cup {BlockStop(i) : i \in Indexes}
    \cup {MessageStop}

\* The reader's fields blockKinds, blockMeta, usage and finish; NoBlock and NoCall
\* are map entries that are not there.
NoBlock == ""
AnthropicState ==
  [blockKinds : [Indexes -> BlockKinds \cup {NoBlock}],
   blockMeta  : [Indexes -> Calls \cup {NoCall}],
   usage      : {NoUsage} \cup {Reported(i, o, i + o) : i, o \in Tokens},
   finish     : {NoFinish, "stop", "length", "tool_calls", "unknown"}]

AnthropicInit ==
  [blockKinds |-> [i \in Indexes |-> NoBlock],
   blockMeta  |-> [i \in Indexes |-> NoCall],
   usage      |-> NoUsage,
   finish     |-> NoFinish]

MapAnthropicStopReason(s) ==
  CASE s \in {"end_turn", "stop_sequence"} -> "stop"
    [] s = "max_tokens" -> "length"
    [] s = "tool_use" -> "tool_calls"
    [] OTHER -> "unknown"

\* The events of e: three kinds of event yield one each, the others none.
AnthropicTranslate(st, e) ==
  CASE e.type = "content_block_start" /\ e.kind = "tool_use" ->
         <<ToolStart(e.index, e.call)>>
    [] e.type = "content_block_delta" /\ e.kind = "text" -> <<TextDelta(e.text)>>
    [] e.type = "content_block_delta" /\ e.kind = "input_json" ->
         <<ToolArgs(e.index, st.blockMeta[e.index], e.text)>>
    [] e.type = "content_block_delta" /\ e.kind = "thinking" -> <<ThinkingDelta(e.text)>>
    [] e.type = "content_block_stop" /\ st.blockKinds[e.index] = "tool_use" ->
         <<ToolEnd(e.index, st.blockMeta[e.index])>>
    [] e.type = "message_stop" -> <<Done(st.usage, st.finish)>>
    [] OTHER -> <<>>

AnthropicAfterNoStop(st, e) ==
  CASE e.type \in {"message_start", "message_delta"} ->
         [st EXCEPT !.usage = Reported(e.in, e.out, e.in + e.out)]
    [] e.type = "content_block_start" /\ e.kind = "tool_use" ->
         [st EXCEPT !.blockKinds[e.index] = "tool_use", !.blockMeta[e.index] = e.call]
    [] OTHER -> st

\* What e leaves in the fields.
AnthropicAfter(st, e) ==
  CASE e.type = "message_start" -> [st EXCEPT !.usage = Reported(e.in, e.out, e.in + e.out)]
    [] e.type = "message_delta" ->
         [st EXCEPT !.finish = MapAnthropicStopReason(e.stop),
                    !.usage = Reported(e.in, e.out, e.in + e.out)]
    [] e.type = "content_block_start" /\ e.kind = "tool_use" ->
         [st EXCEPT !.blockKinds[e.index] = "tool_use",
                    !.blockMeta[e.index] = e.call]
    [] e.type = "content_block_start" /\ e.kind \in {"text", "thinking"} ->
         [st EXCEPT !.blockKinds[e.index] = e.kind]
    [] OTHER -> st

-----------------------------------------------------------------------------
(* What a server of this format streams for one answer.                    *)

StartsBlock(e, i) == e.type = "content_block_start" /\ e.index = i
StopsBlock(e, i) == e.type = "content_block_stop" /\ e.index = i

\* The tool_use blocks that the first p events start, and the blocks they stop.
ToolBlocks(body, p) ==
  {i \in Indexes : \E k \in 1..p : StartsBlock(body[k], i) /\ body[k].kind = "tool_use"}
StoppedBlocks(body, p) == {i \in Indexes : \E k \in 1..p : StopsBlock(body[k], i)}

\* Event k has its place behind the k - 1 before it.
InPlace(body, k) ==
  LET e == body[k] IN
  /\ e.type = "content_block_start" =>
       /\ \A j \in 1..(k - 1) : ~StartsBlock(body[j], e.index)
       /\ e.kind = "tool_use" => e.call # NoCall
  /\ e.type = "content_block_delta" =>
       /\ e.kind \in {"text", "thinking"} => e.text # NoText
       /\ e.kind = "input_json" =>
            e.index \in ToolBlocks(body, k - 1) \ StoppedBlocks(body, k - 1)
  /\ e.type = "content_block_stop" =>
       /\ \E j \in 1..(k - 1) : StartsBlock(body[j], e.index)
       /\ e.index \notin StoppedBlocks(body, k - 1)
  /\ e.type = "message_stop" =>
       /\ k = Len(body)
       /\ \E j \in 1..(k - 1) : body[j].type = "message_delta"
       /\ ToolBlocks(body, k - 1) \subseteq StoppedBlocks(body, k - 1)

\* Blocks start once and stop once, deltas come between, and message_stop at the
\* end, behind a message_delta and the stops of all tools.
CompleteMessage(body) == \A k \in DOMAIN body : InPlace(body, k)

\* Blocks of text come one after the other, each with its deltas before the next
\* block starts, and message_start comes first.
BlockByBlock(body) ==
  \A k \in DOMAIN body :
    /\ body[k].type = "content_block_delta" /\ body[k].kind = "text" =>
         \E j \in 1..(k - 1) :
           /\ StartsBlock(body[j], body[k].index) /\ body[j].kind = "text"
           /\ \A l \in (j + 1)..(k - 1) : body[l].type # "content_block_start"
    /\ body[k].type = "message_start" => k = 1

-----------------------------------------------------------------------------
(* Generate, on the answer that the upstream would have streamed as body:  *)
(* its blocks, each with its deltas joined.                                *)

\* The deltas that fill a block of a kind.
DeltaKind(kind) == CASE kind = "tool_use" -> "input_json" [] OTHER -> kind
DeltasOf(body, start) ==
  Where(body, LAMBDA e : /\ e.type = "content_block_delta"
                         /\ e.index = start.index /\ e.kind = DeltaKind(start.kind))
BlockOf(body, start) ==
  [kind |-> start.kind, call |-> start.call, text |-> Mapped(LAMBDA e : e.text, DeltasOf(body, start))]
BlocksOf(body) ==
  Mapped(LAMBDA e : BlockOf(body, e), Where(body, LAMBDA e : e.type = "content_block_start"))
FirstOf(body, type) == Head(Where(body, LAMBDA e : e.type = type))
LastDelta(body) == Last(Where(body, LAMBDA e : e.type = "message_delta"))
Message(body) ==
  [content |-> BlocksOf(body), stop |-> LastDelta(body).stop,
   in |-> FirstOf(body, "message_start").in, out |-> LastDelta(body).out]

\* Text blocks are joined, tool_use blocks are calls, all others are left out.
TextBlocks(m) == Where(m.content, LAMBDA b : b.kind = "text")
BlockTexts(m) == FlattenSeq(Mapped(LAMBDA b : b.text, TextBlocks(m)))
AnthropicResponse(m) ==
  Response(BlockTexts(m),
           {ToolCall(b.call, b.text) : b \in {c \in ToSet(m.content) : c.kind = "tool_use"}},
           MapAnthropicStopReason(m.stop), Reported(m.in, m.out, m.in + m.out))
=============================================================================
