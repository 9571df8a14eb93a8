---------------------------- MODULE GoogleChunks ----------------------------
(***************************************************************************)
(* chunkEvents of the google reader, and Generate on the same answer.  A   *)
(* chunk has at most one candidate that counts; its calls are complete, so *)
(* each part becomes all three events of its call, on the index of the     *)
(* part in this chunk.                                                     *)
(***************************************************************************)
EXTENDS Responses

CONSTANT EmptyArgs  \* "{}"

\* A part that is no call has none; args is NoText for nil arguments.  Parts and
\* finish reason of a chunk are those of its candidate.
Part == [text : Texts \cup {NoText}, call : Calls \cup {NoCall}, args : Texts \cup {NoText}]
GWireFinish == {NoFinish, "STOP", "MAX_TOKENS", "SAFETY", "RECITATION", "OTHER"}
AnyGoogleChunk ==
  [candidate : BOOLEAN, parts : Seq(Part), finish : GWireFinish,
   usage : {NoUsage} \cup {Reported(i, o, i + o) : i, o \in Tokens}, blocked : BOOLEAN]
GoogleChunk ==
  {c \in AnyGoogleChunk : ~c.candidate => c.parts = <<>> /\ c.finish = NoFinish}

GoogleState == [lastFinish : FinishReasons \cup {NoFinish}, lastUsage : Usage]
GoogleInit == [lastFinish |-> NoFinish, lastUsage |-> NoUsage]

GMapFinishReason(f) ==
  CASE f = "STOP" -> "stop"
    [] f = "MAX_TOKENS" -> "length"
    [] f \in {"SAFETY", "RECITATION"} -> "content_filter"
    [] OTHER -> "unknown"

Marshalled(args) == IF args = NoText THEN EmptyArgs ELSE args

PartEventsRaw(i, part) ==
  (IF part.text # NoText THEN <<TextDelta(part.text)>> ELSE <<>>)
    \o (IF part.call = NoCall THEN <<>>
        ELSE <<ToolStart(i, part.call), ToolArgs(i, NoCall, part.args), ToolEnd(i, NoCall)>>)
PartEvents(i, part) ==
  (IF part.text # NoText THEN <<TextDelta(part.text)>> ELSE <<>>)
    \o (IF part.call = NoCall THEN <<>>
        ELSE <<ToolStart(i, part.call),
               ToolArgs(i, NoCall, Marshalled(part.args)),
               ToolEnd(i, NoCall)>>)

GoogleEvents(st, chunk) ==
  FlattenSeq([k \in DOMAIN chunk.parts |-> PartEvents(k - 1, chunk.parts[k])])

\* A chunk without candidates is skipped whole, its usage too.
GoogleAfter(st, chunk) ==
  IF ~chunk.candidate THEN st
  ELSE [lastFinish |-> IF chunk.finish = NoFinish THEN st.lastFinish ELSE GMapFinishReason(chunk.finish),
        lastUsage  |-> IF chunk.usage = NoUsage THEN st.lastUsage ELSE chunk.usage]

GoogleDone(st) ==
  Done(IF st.lastUsage = NoUsage THEN UnknownUsage ELSE st.lastUsage, st.lastFinish)

-----------------------------------------------------------------------------
(* Generate.                                                               *)

\* The answer of a request without streaming whose chunks would be body: one
\* candidate with all the parts, the last usage, the reason of a block.
WholeAnswer(body) ==
  [candidate |-> \E c \in ToSet(body) : c.candidate,
   parts     |-> FlattenSeq([k \in DOMAIN body |-> body[k].parts]),
   finish    |-> LastOr(FieldOf(body, LAMBDA c : c.finish, NoFinish), NoFinish),
   usage     |-> LastOr(FieldOf(body, LAMBDA c : c.usage, NoUsage), NoUsage),
   blocked   |-> \E c \in ToSet(body) : c.blocked]

\* resp.Text() and resp.FunctionCalls(), in the order of the parts.
TextsOf(resp) ==
  Mapped(LAMBDA part : part.text, Where(resp.parts, LAMBDA part : part.text # NoText))
ToToolCalls(resp) ==
  Mapped(LAMBDA part : ToolCall(part.call, Marshalled(part.args)),
         Where(resp.parts, LAMBDA part : part.call # NoCall))

\* An answer without candidates and with a block reason is an error.
BlockedPrompt(resp) == ~resp.candidate /\ resp.blocked

FromResponse(resp) ==
  Response(TextsOf(resp), ToToolCalls(resp),
           IF resp.candidate THEN GMapFinishReason(resp.finish) ELSE "unknown", resp.usage)
=============================================================================
