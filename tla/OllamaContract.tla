--------------------------- MODULE OllamaContract ---------------------------
(***************************************************************************)
(* The Ollama stream implements the stream contract, and what it delivers  *)
(* conforms to the rules of the event sequence.                            *)
(***************************************************************************)
EXTENDS OllamaStream, OllamaFrames

\* The translation of b by a new reader, frame after frame.
Extended(run, step) == Append(run, [evs |-> Last(run).evs \o step.evs, st |-> step.st])
Steps(m, b) ==
  FoldLeft(LAMBDA run, f : Extended(run, IngestFrame(m, Last(run).st, f)),
           <<[evs |-> <<>>, st |-> OllamaInit]>>, b)
Translated(m, b) == [k \in 0..Len(b) |-> Steps(m, b)[k + 1]]

\* The translator is ingest: what a new reader has, what a frame holds, and what
\* becomes of it.  Ollama names the function of a native call, a call in the text
\* has no id, and a Done frame reports its usage.
ASSUME IngestAssumption ==
  \A m \in Modes : \A b \in Bodies(m) :
    /\ Run(m, b)[0].st = OllamaInit
    /\ \A k \in DOMAIN b :
         LET prev == Run(m, b)[k - 1].st
             f == b[k]
         IN  /\ f.content \in Seq(Piece) /\ f.calls \in Seq(Calls)
             /\ ToSet(f.content) \cap Calls \subseteq Anonymous
             /\ f.usage \in Usage /\ IsLast(f) = f.done /\ (f.done => f.usage.source # "nil")
             /\ FrameEvents(m, prev, f) = IngestFrame(m, prev, f).evs
             /\ FrameAfter(m, prev, f) = IngestFrame(m, prev, f).st

\* Texts, Calls and Indexes have all that the events of these answers say.
ASSUME EventAssumption == Event \subseteq K1Event

Whole(m, b) == Run(m, b)[Len(b)].evs

AllCompletions == UNION {{Whole(m, b) : b \in Bodies(m)} : m \in Modes}

\* "ended" from the moment Next has decided to return io.EOF; a consumer that
\* keeps calling after the end is outside of the contract and maps to a stutter.
HasEnded == npc = "mark" \/ outcome = "eof"
IsCut == outcome = "error" \/ closed
Status == CASE Disciplined /\ HasEnded -> "ended"
            [] Disciplined /\ ~HasEnded /\ IsCut -> "cut"
            [] OTHER -> "running"

Log == IF Disciplined THEN delivered ELSE <<>>

Source == IF Log = <<>> THEN <<>> ELSE Whole(mode, body)

Contract == INSTANCE StreamContract WITH
              Completions <- AllCompletions,
              log <- Log,
              src <- Source,
              status <- Status

\* Producer, channels, Next and ingest together implement the contract for a
\* consumer that stops at the end: a gapless prefix of one translated answer,
\* the end only after all of it, nothing after the end, an error or Close.
ImplementsContract == Contract!Spec

\* The Done agrees with the calls before it: all are ended, "tool_calls" is only
\* said after a call, and a turn with calls is never reported as a plain stop.
DoneAgrees(before, end) ==
  LET called == \E k \in DOMAIN before : before[k].kind = "tool_start"
  IN  /\ CallsClosed(before)
      /\ end.finish = "tool_calls" => called
      /\ called => end.finish \notin {"stop", "unknown"}

\* Every JSON object the model wrote into the text has a "name".
ObjectsNamed(b) == \A k \in DOMAIN b : \A j \in DOMAIN b[k].content : b[k].content[j] # NoCall

\* An answer drained to io.EOF satisfies the rules of AssertStreamToolCalls,
\* with tool calls that came natively or were parsed out of the text, and its
\* Done, if the body had one, was decided after the last call was found.  An
\* object without a "name" is no call, but decodeFallbackToolCall takes it for
\* one, and the stream then starts a call without a name.
DrainedConforms ==
  outcome = "eof" /\ Disciplined /\ ObjectsNamed(body) =>
    /\ K1Conforms(delivered)
    /\ \A k \in DOMAIN delivered :
         delivered[k].kind = "done" => DoneAgrees(SubSeq(delivered, 1, k - 1), delivered[k])

\* Texts and arguments of deltas are sequences of pieces here.
Flat(response) ==
  [response EXCEPT !.text = FlattenSeq(@),
                   !.calls = {ToolCall(c.call, FlattenSeq(c.args)) : c \in @}]

\* The calls Generate returns for a message, with the ids the stream gives them.
AsStreamed(message, calls) ==
  IF message.calls = <<>> THEN calls ELSE {ToolCall(Identified[c.call], c.args) : c \in calls}

\* With tools bound, an answer streamed to its Done adds up to what Generate
\* returns for it, although one parses frames as they come, with the text held
\* back, and the other the whole message.  Three differences are the code's: a turn
\* with calls ends as "tool_calls" only in the stream, of markup that does not
\* parse Generate keeps what precedes it or nothing, the stream all, and a native
\* call without an id has its name for an id only in the stream, while a call in
\* the text has none in either.
GenerateAgrees ==
  outcome = "eof" /\ Disciplined /\ mode.hasTools /\ body # <<>> /\ Last(body).done =>
    LET streamed == Flat(Accumulated(delivered))
        generated == OllamaGenerate(mode, body)
    IN  /\ streamed.calls = AsStreamed(MessageOf(body), generated.calls)
        /\ streamed.usage = generated.usage
        /\ streamed.calls # {} => streamed.text = generated.text
        /\ streamed.finish = FinishOf(Cardinality(streamed.calls), generated.finish)

\* "Final event before EOF: EventDone" (CONVENTIONS.md).
EofAfterDone ==
  outcome = "eof" => delivered # <<>> /\ delivered[Len(delivered)].kind = "done"
=============================================================================
