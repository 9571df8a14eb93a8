---------------------------- MODULE SSEAdapters ----------------------------
(***************************************************************************)
(* The five adapters whose reader is the loop of SSELoop, and what each    *)
(* plugs into it.  openai, deepseek and kimi read OpenAI chunks, anthropic *)
(* and minimax read Anthropic events; the code is repeated in each package *)
(* and the definitions below say which translator each copy is.            *)
(***************************************************************************)
EXTENDS OpenAIChunks, AnthropicEvents

ChunkAdapters == {"openai", "deepseek", "kimi"}
MessageAdapters == {"anthropic", "minimax"}

\* What a translator does with one upstream chunk: the events appended to the
\* queue and the fields of the reader it leaves behind.
OpenAIStep(st, c) == OATranslate(st, c)
DeepSeekStep(st, c) == OATranslate(st, c)
KimiStep(st, c) == OATranslate(st, c)
AnthropicStep(st, c) == [evs |-> AnthropicTranslate(st, c), st |-> AnthropicAfter(st, c)]
MiniMaxStep(st, c) == [evs |-> AnthropicTranslate(st, c), st |-> AnthropicAfter(st, c)]

Step(d, st, c) ==
  CASE d = "openai" -> OpenAIStep(st, c)
    [] d = "deepseek" -> DeepSeekStep(st, c)
    [] d = "kimi" -> KimiStep(st, c)
    [] d = "anthropic" -> AnthropicStep(st, c)
    [] d = "minimax" -> MiniMaxStep(st, c)

AdapterEvents(d, st, c) == Step(d, st, c).evs
AdapterAfter(d, st, c) == Step(d, st, c).st

AdapterChunk(d) == IF d \in ChunkAdapters THEN OAChunk ELSE AnthropicChunk
AdapterState(d) == IF d \in ChunkAdapters THEN OAState ELSE AnthropicState

\* fromSDKResponse of each, on the answer streamed as body.
OpenAIGenerate(body) == OAResponse(ChatCompletion(body))
DeepSeekGenerate(body) == OAResponse(ChatCompletion(body))
KimiGenerate(body) == OAResponse(ChatCompletion(body))
AnthropicGenerate(body) == AnthropicResponse(Message(body))
MiniMaxGenerate(body) == AnthropicResponse(Message(body))

Generate(d, body) ==
  CASE d = "openai" -> OpenAIGenerate(body)
    [] d = "deepseek" -> DeepSeekGenerate(body)
    [] d = "kimi" -> KimiGenerate(body)
    [] d = "anthropic" -> AnthropicGenerate(body)
    [] d = "minimax" -> MiniMaxGenerate(body)

\* The response as a stream knows it: an OpenAI stream has the calls of every
\* type, an Anthropic stream the input tokens of the last message_delta in place
\* of those of message_start.
StreamKnows(d, body, response) ==
  IF d \in ChunkAdapters THEN WithOtherCalls(body, response)
  ELSE [response EXCEPT !.usage = Reported(LastDelta(body).in, @.out, LastDelta(body).in + @.out)]

\* A whole answer in the format of d; usage has a chunk of its own.
CompleteFor(d, body) ==
  IF d \in ChunkAdapters
  THEN /\ CompleteAnswer(body)
       /\ \A k \in DOMAIN body : body[k].usage # NoUsage => body[k].choices = <<>>
  ELSE CompleteMessage(body)

\* A whole answer whose deltas belong to one call or block each.
OrderedFor(d, body) == IF d \in ChunkAdapters THEN OneCallEach(body) ELSE BlockByBlock(body)

\* Whether the upstream sends what the Done is made from.
AnnouncesEnd(d, body) ==
  \E k \in DOMAIN body : IF d \in ChunkAdapters THEN body[k].usage.source = "reported"
                         ELSE body[k].type = "message_stop"

\* The reader Stream returns: openai's has no maps, the two of the Anthropic
\* format start with empty ones.
AdapterInit(d) == IF d \in ChunkAdapters THEN OAInit ELSE AnthropicInit
=============================================================================
