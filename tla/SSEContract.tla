---------------------------- MODULE SSEContract ----------------------------
(***************************************************************************)
(* The SSE reader implements the stream contract: refinement mapping, and  *)
(* the conformance of what a whole drained stream delivered.               *)
(***************************************************************************)
EXTENDS SSELoop, SSEAdapters

\* The reader on the adapters' own translators, and what the answers they stream
\* consist of.  Usage has a chunk of its own, because what else a chunk with
\* usage has is dropped.
ASSUME AdapterAssumption ==
  /\ Event = K1Event /\ Dialects \subseteq ChunkAdapters \cup MessageAdapters
  /\ \A ev \in Event : IsDone(ev) <=> IsDoneEvent(ev)
  /\ \A d \in Dialects :
       /\ Chunk(d) \subseteq AdapterChunk(d)
       /\ TrState(d) = AdapterState(d) /\ TrInit(d) = AdapterInit(d)
       /\ \A st \in TrState(d), c \in Chunk(d) :
            /\ ChunkEvents(d, st, c) = AdapterEvents(d, st, c)
            /\ ChunkState(d, st, c) = AdapterAfter(d, st, c)
ASSUME AnswerAssumption ==
  \A d \in Dialects : \A body \in Scripts(d) : CompleteFor(d, body)
ASSUME OrderAssumption ==
  \A d \in Dialects : \A body \in Scripts(d) : OrderedFor(d, body)

\* A sequence of events up to its first Done: what counts for the contract.
Completion(evs) ==
  LET dones == {i \in DOMAIN evs : IsDone(evs[i])}
  IN  IF dones = {} THEN evs ELSE SubSeq(evs, 1, Min(dones))

\* What the first k chunks of a body become, for each k, read in state st.
Start(st) == [evs |-> <<>>, st |-> st]
Extended(d, acc, c) ==
  [evs |-> acc.evs \o ChunkEvents(d, acc.st, c), st |-> ChunkState(d, acc.st, c)]
Run(d, st, body) ==
  LET acc[k \in 0..Len(body)] == IF k = 0 THEN Start(st) ELSE Extended(d, acc[k - 1], body[k])
  IN  acc

Completed(d, st, body) == Completion(Run(d, st, body)[Len(body)].evs)

\* States in which an answer may start: that of a new reader, or what was read
\* of a failed answer before its first event.
Silent(d, body) == {k \in 0..Len(body) : Run(d, TrInit(d), body)[k].evs = <<>>}
Starts(d) == UNION {{Run(d, TrInit(d), body)[k].st : k \in Silent(d, body)} : body \in Scripts(d)}

\* The retry of Next keeps lastFinish, usage and the like.  What a failed answer
\* left of them does not show if the next answer brings its own finish reason and
\* usage, which a server that ends its answers does.
ASSUME FreshStartAssumption ==
  \A d \in Dialects : \A st \in Starts(d), body \in Scripts(d) :
    Completed(d, st, body) = Completed(d, TrInit(d), body)

\* What each body becomes when a new reader translates it.
Translation == [d \in Dialects |-> [body \in Scripts(d) |-> Completed(d, TrInit(d), body)]]

AllCompletions == UNION {{Translation[d][body] : body \in Scripts(d)} : d \in Dialects}

Events == [i \in DOMAIN delivered |-> delivered[i].ev]

\* A consumer that calls Next after the end is outside of the contract and maps
\* to a stutter.
Log == IF Disciplined THEN Completion(Events) ELSE <<>>

Source == IF Log = <<>> THEN <<>> ELSE Translation[dialect][served[delivered[1].req]]

Status == CASE Disciplined /\ outcome = "eof" -> "ended"
            [] Disciplined /\ outcome # "eof" /\ (outcome = "error" \/ closed) -> "cut"
            [] OTHER -> "running"

Contract == INSTANCE StreamContract WITH
              Completions <- AllCompletions, log <- Log, src <- Source, status <- Status

\* The events up to the first Done are those of one completion, translated as
\* by a new reader (nothing of a failed first attempt shows), in order and
\* whole when io.EOF is returned: Next and chunkEvents implement the contract
\* for a consumer that stops at the end of the stream.
ImplementsContract == Contract!Spec

Drained ==
  Status = "ended" /\ Disciplined /\ \A i \in DOMAIN delivered : delivered[i].req = Len(served)

\* The answer the consumer drained.
Answer == served[Len(served)]

\* A Done that says "tool_calls" comes after the End of every call started:
\* the caller has the whole argument text of each parallel call.
ToolCallsClosed ==
  \A k \in DOMAIN delivered :
    IsDone(delivered[k].ev) /\ delivered[k].ev.finish = "tool_calls" /\ Disciplined
      => CallsClosed(SubSeq(Events, 1, k - 1))

\* A stream drained to io.EOF satisfies the rules of AssertStreamToolCalls:
\* Start before arguments before End on each index, no index used again after
\* its End, Done last with usage and a finish reason.  There is a Done exactly
\* if the upstream sent what it is made from: without the usage chunk of an
\* OpenAI stream, or the message_stop of an Anthropic one, io.EOF is all that
\* the consumer gets.
DrainedConforms ==
  /\ ToolCallsClosed
  /\ Drained => /\ K1Conforms(Events)
                /\ AnnouncesEnd(dialect, Answer) <=> \E k \in DOMAIN Events : IsDone(Events[k])

Generated ==
  [d \in Dialects |-> [body \in Scripts(d) |-> StreamKnows(d, body, Generate(d, body))]]

\* A stream drained to io.EOF adds up to what Generate returns for the same
\* answer: no delta is lost, doubled or booked on another call, whichever copy of
\* the two translations an adapter has.  Two differences are the code's: a call
\* whose type is not "function" is streamed but not returned by Generate, and the
\* usage of an Anthropic stream is that of its last message_delta, which overwrites
\* the input tokens message_start reported even if it has none itself.
GenerateAgrees ==
  Drained => Agrees(Accumulated(Log), Generated[dialect][Answer])
=============================================================================
