------------------------- MODULE VolcengineContract -------------------------
(***************************************************************************)
(* The volcengine reader implements the stream contract.                   *)
(***************************************************************************)
EXTENDS VolcengineStream, VolcengineChunks

\* The reader on the adapter's own translator, and what a chat completion that
\* is streamed consists of.
ASSUME AdapterAssumption ==
  /\ Event = K1Event /\ Chunk \subseteq OAChunk
  /\ \A ev \in Event : IsDone(ev) <=> IsDoneEvent(ev)
  /\ TrState = ArkState /\ TrInit = ArkInit
  /\ \A st \in TrState :
       /\ EndEvent(st) = ArkDone(st)
       /\ \A c \in Chunk : /\ ChunkEvents(st, c) = ArkEvents(st, c)
                           /\ ChunkAfter(st, c) = ArkAfter(st, c)
ASSUME AnswerAssumption == \A body \in Bodies : CompleteAnswer(body)
ASSUME CallAssumption == \A body \in Bodies : OneCallEach(body)

\* What the first k chunks of a body become, for each k, read in state st.
Start(st) == [evs |-> <<>>, st |-> st]
Extended(acc, c) == [evs |-> acc.evs \o ChunkEvents(acc.st, c), st |-> ChunkAfter(acc.st, c)]
Run(st, body) ==
  LET acc[k \in 0..Len(body)] == IF k = 0 THEN Start(st) ELSE Extended(acc[k - 1], body[k])
  IN  acc

\* With the Done of its end.
Completed(acc) == Append(acc.evs, EndEvent(acc.st))

\* States in which an answer may start: that of a new reader, or what was read
\* of a failed answer before its first event.
Silent(body) == {k \in 0..Len(body) : Run(TrInit, body)[k].evs = <<>>}
Starts == UNION {{Run(TrInit, body)[k].st : k \in Silent(body)} : body \in Bodies}

Translation ==
  [st \in Starts |-> [body \in Bodies |-> Completed(Run(st, body)[Len(body)])]]

Log == IF Disciplined THEN [k \in DOMAIN delivered |-> delivered[k].ev] ELSE <<>>

Source == IF Log = <<>> \/ start \notin Starts THEN <<>>
          ELSE Translation[start][served[delivered[1].req]]

Status == CASE Disciplined /\ outcome = "eof" -> "ended"
            [] Disciplined /\ outcome # "eof" /\ (outcome = "error" \/ closed) -> "cut"
            [] OTHER -> "running"

Contract == INSTANCE StreamContract WITH
              Completions <- {Translation[st][body] : st \in Starts, body \in Bodies},
              log <- Log,
              src <- Source,
              status <- Status

\* A consumer that stops at the end gets the events of one answer, with its
\* Done last.  Of a failed first attempt no event shows; the usage and finish
\* reason it had reported do, if the second answer reports none, because the
\* retry keeps r.usage and r.lastFinish.
ImplementsContract == Contract!Spec

\* What a stream drained to io.EOF delivered satisfies the rules of
\* AssertStreamToolCalls, and its Done has the usage the answer reported,
\* whether in a chunk of its own or with the last choice.
DrainedConforms ==
  Status = "ended" =>
    /\ K1Conforms(Log)
    /\ \A c \in ToSet(Body) : c.usage # NoUsage => Log[Len(Log)].usage = c.usage

Generated == [body \in Bodies |-> WithOtherCalls(body, ArkResponse(ChatCompletion(body)))]
UsageReported(body) == \E c \in ToSet(body) : c.usage # NoUsage

\* A drained stream adds up to what Generate returns for the same answer, and to
\* the calls that Generate leaves out because their type is not "function".  The
\* usage of an answer that reports none is not compared.
GenerateAgrees ==
  Status = "ended" =>
    LET streamed == Accumulated(Log) IN
    Agrees(IF UsageReported(Body) THEN streamed ELSE [streamed EXCEPT !.usage = NoUsage],
           Generated[Body])
=============================================================================
