--------------------------- MODULE GoogleContract ---------------------------
(***************************************************************************)
(* The google reader implements the stream contract.                       *)
(***************************************************************************)
EXTENDS GoogleStream, GoogleChunks

\* The reader on the adapter's own translator.
ASSUME AdapterAssumption ==
  /\ Event = K1Event /\ Chunk \subseteq GoogleChunk
  /\ TrState = GoogleState /\ TrInit = GoogleInit
  /\ \A st \in TrState :
       /\ EndEvent(st) = GoogleDone(st)
       /\ \A c \in Chunk : /\ ChunkEvents(st, c) = GoogleEvents(st, c)
                           /\ ChunkAfter(st, c) = GoogleAfter(st, c)

\* What the first k chunks of an answer become, for each k.
Start == [evs |-> <<>>, st |-> TrInit]
Extended(acc, c) == [evs |-> acc.evs \o ChunkEvents(acc.st, c), st |-> ChunkAfter(acc.st, c)]
Run(answer) ==
  LET acc[k \in 0..Len(answer)] == IF k = 0 THEN Start ELSE Extended(acc[k - 1], answer[k])
  IN  acc

\* With the Done of its end.
Completed(acc) == Append(acc.evs, EndEvent(acc.st))
Translation == [answer \in Bodies |-> Completed(Run(answer)[Len(answer)])]

Status == CASE ending \in {"failed", "closed"} -> "cut"
            [] ending = "done" /\ eof -> "ended"
            [] OTHER -> "running"

Source == IF delivered = <<>> THEN <<>> ELSE Translation[body]

Contract == INSTANCE StreamContract WITH
              Completions <- {Translation[answer] : answer \in Bodies},
              log <- delivered,
              src <- Source,
              status <- Status

\* Next and chunkEvents implement the contract for every consumer, one that
\* calls Next after the end included: the answer's events in order, its Done,
\* then io.EOF for good.
ImplementsContract == Contract!Spec

\* The events of calls, whatever their indexes, and those a whole call is told by:
\* its Start, all of its arguments at once, its End.
ToolEvents == {e \in K1Event : e.kind \in {"tool_start", "tool_args", "tool_end"}}
CallsStreamed(evs) == Mapped(LAMBDA e : [e EXCEPT !.index = -1], Kept(evs, ToolEvents))
WholeCall(c) == <<ToolStart(-1, c.call), ToolArgs(-1, NoCall, c.args), ToolEnd(-1, NoCall)>>

\* The last usage came in a chunk that has a candidate.
UsageWithCandidate(answer) ==
  \E k \in DOMAIN answer :
    /\ answer[k].candidate /\ answer[k].usage # NoUsage
    /\ \A l \in (k + 1)..Len(answer) : answer[l].usage = NoUsage

\* A stream drained to its end tells what Generate returns for the answer: the
\* same texts and the same calls with the same arguments, in order; its finish
\* reason, if the answer had one; its usage, if a chunk with a candidate brought
\* it, and otherwise none.  A blocked prompt, an error of Generate, can only be
\* told by the finish reason its lone Done lacks.
GenerateAgrees ==
  Status = "ended" =>
    LET resp == WholeAnswer(body)
        told == FromResponse(resp)
        done == Last(delivered)
    IN  /\ BlockedPrompt(resp) => Len(delivered) = 1 /\ done.finish = NoFinish
        /\ Joined(delivered, TextEvents) = told.text
        /\ CallsStreamed(delivered) = FlattenSeq(Mapped(WholeCall, told.calls))
        /\ IF resp.finish = NoFinish THEN done.finish = NoFinish ELSE done.finish = told.finish
        /\ UsageWithCandidate(body) => done.usage = told.usage
        /\ (\A c \in ToSet(body) : c.candidate => c.usage = NoUsage) => done.usage = UnknownUsage

\* AssertStreamToolCalls: "After End for an Index, that Index must not be
\* reused for a later Start".
IndexesUnique ==
  \A j, k \in DOMAIN delivered :
    j < k /\ delivered[j].kind = "tool_end" /\ delivered[k].kind = "tool_start"
      => delivered[j].index # delivered[k].index
=============================================================================
