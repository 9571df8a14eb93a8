------------------------------- MODULE MCSSE -------------------------------
(***************************************************************************)
(* The SSE reader with its five adapters.  The bodies of each one follow   *)
(* the fixtures of internal/contract/testdata: text, parallel tool         *)
(* calls split over chunks, a completion with no content, one cut by the   *)
(* token limit in the middle of a call, one with no usage chunk and a call *)
(* of another type, one whose message_delta does not repeat the input      *)
(* tokens of message_start.                                                *)
(***************************************************************************)
EXTENDS SSEContract

MCTexts == {"a", "b"}
MCCalls == {"calc", "search"}
MCIndexes == {0, 1}
MCTokens == {0, 2}

Choice(text, tools, finish) == [text |-> text, tools |-> tools, finish |-> finish]
TD(i, call, args) ==
  [index |-> i, call |-> call, args |-> args, type |-> IF call = NoCall THEN NoType ELSE "function"]
Typed(delta, type) == [delta EXCEPT !.type = type]
OAData(text, tools, finish) ==
  [choices |-> <<Choice(text, tools, finish)>>, usage |-> NoUsage]
OAUsage == [choices |-> <<>>, usage |-> Reported(2, 2, 4)]

OABodies ==
  [openai |-> {
     <<OAData(NoText, <<>>, ""), OAData("a", <<>>, ""), OAData("b", <<>>, "stop"), OAUsage>>,
     <<OAData(NoText, <<TD(0, "calc", "a"), TD(1, "search", "a")>>, ""),
       OAData(NoText, <<TD(0, "", "b"), TD(1, "", "b")>>, "tool_calls"), OAUsage>>,
     <<OAData("a", <<Typed(TD(0, "calc", "a"), "other"), TD(1, "search", "b")>>, ""),
       OAData(NoText, <<>>, "stop")>>},
   deepseek |-> {
     <<OAData(NoText, <<TD(1, "search", NoText)>>, ""), OAData(NoText, <<TD(1, "", "b")>>, ""),
       OAData(NoText, <<TD(0, "calc", "a")>>, ""), OAData(NoText, <<>>, "tool_calls"), OAUsage>>,
     <<OAData("a", <<>>, "other"), OAUsage>>},
   kimi |-> {
     <<OAData(NoText, <<>>, "content_filter"), OAUsage>>,
     <<OAData("a", <<Typed(TD(0, "calc", "a"), NoType)>>, ""), OAData(NoText, <<>>, "length"), OAUsage>>}]

AnBodies ==
  [anthropic |-> {
     <<MessageStart(2, 0), BlockStart(0, "text", ""), BlockDelta(0, "text", "a"),
       BlockStop(0), BlockStart(1, "text", ""), BlockDelta(1, "text", "b"), BlockStop(1),
       MessageDelta("end_turn", 2, 2), MessageStop>>,
     <<MessageStart(2, 0), BlockStart(0, "thinking", ""), BlockDelta(0, "thinking", "a"),
       BlockStop(0), BlockStart(1, "tool_use", "calc"),
       BlockDelta(1, "input_json", "a"), BlockDelta(1, "input_json", "b"),
       MessageDelta("tool_use", 2, 2), BlockStop(1), MessageStop>>},
   minimax |-> {
     <<MessageStart(2, 0), BlockStart(0, "tool_use", "search"),
       BlockDelta(0, "input_json", "a"), BlockStop(0),
       BlockStart(1, "tool_use", "calc"), BlockStop(1),
       MessageDelta("tool_use", 2, 2), MessageStop>>,
     <<MessageStart(2, 0), MessageDelta("max_tokens", 0, 2), MessageStop>>}]

MCDialects == ChunkAdapters \cup MessageAdapters
MCScripts(d) == IF d \in ChunkAdapters THEN OABodies[d] ELSE AnBodies[d]
MCChunk(d) == IF d \in ChunkAdapters THEN UNION {ToSet(b) : b \in OABodies[d]}
              ELSE AnthropicChunk
=============================================================================
