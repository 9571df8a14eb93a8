---------------------------- MODULE OllamaFrames ----------------------------
(***************************************************************************)
(* ingest of the Ollama reader: what one frame of an Ollama chat stream    *)
(* becomes, with the tool calls some models write inside the text.         *)
(*                                                                         *)
(* A text is a sequence of pieces: plain text, one of the markers below    *)
(* (<|python_tag|>, <tool_call>, its closing tag, a Markdown fence), or a  *)
(* JSON object: a member of Calls stands for the object of that call, and  *)
(* NoCall for one that has no "name".  A call in the text has no id, one   *)
(* that comes natively may have one or not.                                *)
(***************************************************************************)
EXTENDS Responses

CONSTANTS
  PlainPieces,  \* pieces that are neither a marker nor a JSON object
  Anonymous,    \* calls without an id
  NameAsId      \* what such a call is with its name for an id

\* Text is empty if it has no piece; a call has a name.
ASSUME PieceAssumption == NoText = <<>> /\ NoCall \notin Calls
ASSUME IdAssumption == Anonymous \subseteq Calls /\ NameAsId \in [Anonymous -> Calls \ Anonymous]

Markers == {"python_tag", "open_tag", "close_tag", "fence"}
Objects == Calls \cup {NoCall}
Piece == PlainPieces \cup Markers \cup Objects

\* The parser the model's name selects and whether tools were bound.
ParserKinds == {"", "python_tag", "qwen_json_or_xml"}
BufferContent(mode) == mode.hasTools /\ mode.parserKind # ""

\* What a text is parsed to: the calls found and the text left over.
NoCalls(text) == [calls |-> <<>>, text |-> text]
\* decodeFallbackToolCall succeeds, "name" or not.
OneCall(raw) == Len(raw) = 1 /\ raw[1] \in Objects

\* The text after the first tag must be one JSON object.
SplitAtTag(text, idx) ==
  [calls |-> IF OneCall(SubSeq(text, idx + 1, Len(text)))
             THEN SubSeq(text, idx + 1, Len(text)) ELSE <<>>,
   text  |-> SubSeq(text, 1, idx - 1)]
ParsePythonTag(text) ==
  IF Contains(text, "python_tag")
  THEN SplitAtTag(text, SelectInSeq(text, LAMBDA p : p = "python_tag"))
  ELSE NoCalls(text)

\* Where qwenToolCallRe can match: from <tool_call> and a JSON object to the
\* nearest </tool_call> after a JSON object.
QwenSpans(text) ==
  {s \in (1..Len(text)) \X (1..Len(text)) :
     /\ s[1] + 2 <= s[2]
     /\ text[s[1]] = "open_tag" /\ text[s[1] + 1] \in Objects
     /\ text[s[2]] = "close_tag" /\ text[s[2] - 1] \in Objects
     /\ \A j \in (s[1] + 2)..(s[2] - 1) : ~(text[j] = "close_tag" /\ text[j - 1] \in Objects)}

\* Leftmost matches that do not overlap, as FindAll returns them.
QwenMatches(text) ==
  LET spans == QwenSpans(text)
  IN  {s \in spans : \A t \in spans : t[1] < s[1] => t[2] < s[1]}

\* The pieces of a text at some places, in order.
PiecesAt(text, places) ==
  LET found[k \in 0..Len(text)] ==
        IF k = 0 THEN <<>>
        ELSE IF k \in places THEN Append(found[k - 1], text[k]) ELSE found[k - 1]
  IN  found[Len(text)]

\* The calls in the matches, and the text outside of them.
Matched(text, spans) == PiecesAt(text, {s[1] + 1 : s \in spans})
Stripped(text, spans) ==
  PiecesAt(text, {k \in DOMAIN text : \A s \in spans : k < s[1] \/ k > s[2]})

\* A Markdown fence around the text, with or without its closing line.
Fences(text) == {k \in DOMAIN text : text[k] = "fence"}
BeforeLastFence(text) ==
  IF Fences(text) = {} THEN text ELSE SubSeq(text, 1, Max(Fences(text)) - 1)
StripCodeFence(text) ==
  IF text # <<>> /\ Head(text) = "fence" THEN BeforeLastFence(Tail(text)) ELSE text

\* One match that does not decode discards everything.
DecodeMatches(text, spans) ==
  IF \E s \in spans : s[2] # s[1] + 2 THEN NoCalls(<<>>)
  ELSE [calls |-> Matched(text, spans), text |-> Stripped(text, spans)]
\* Without matches the whole text may be one JSON object.
DecodeBare(text, bare) ==
  IF OneCall(bare) THEN [calls |-> bare, text |-> <<>>] ELSE NoCalls(text)
ParseQwen(text) ==
  IF QwenSpans(text) # {} THEN DecodeMatches(text, QwenMatches(text))
  ELSE DecodeBare(text, StripCodeFence(text))

Parse(mode, text) ==
  IF mode.parserKind = "python_tag" THEN ParsePythonTag(text) ELSE ParseQwen(text)

-----------------------------------------------------------------------------

\* r.contentBuf and r.nextIdx.
OllamaInit == [contentBuf |-> <<>>, nextIdx |-> 0]

MapOllamaDoneReason(r) ==
  CASE r \in {"stop", "load"} -> "stop"
    [] r = "length" -> "length"
    [] OTHER -> "unknown"

Text(pieces) == IF pieces = <<>> THEN <<>> ELSE <<TextDelta(pieces)>>

\* The stream gives a native call without an id its name for one.
Identified == [c \in Objects |-> IF c \in Anonymous THEN NameAsId[c] ELSE c]
WithIds(calls) == Mapped(LAMBDA c : Identified[c], calls)

\* The arguments of a call, which say nothing of its id.
Arguments(c) == <<Identified[c]>>

\* The synthesized index of the k-th of some calls, idx calls having come before.
IndexPerFrame(idx, k) == k - 1
CallIndex(idx, k) == idx + k - 1

\* Start, arguments and End of each call.
CallEvents(calls, idx) ==
  FlattenSeq([k \in DOMAIN calls |->
    <<ToolStart(CallIndex(idx, k), calls[k]),
      ToolArgs(CallIndex(idx, k), NoCall, Arguments(calls[k])),
      ToolEnd(CallIndex(idx, k), NoCall)>>])

\* The content of a frame is withheld for the parser until a call came natively.
Withheld(mode, st, f) == BufferContent(mode) /\ f.calls = <<>> /\ st.nextIdx = 0

\* Calls that come natively first push out the text withheld so far.
NeverFlushed(st, f) == <<>>
Flushed(st, f) == IF f.calls # <<>> THEN Text(st.contentBuf) ELSE <<>>

\* The body of ingest before its "if !resp.Done" return.
IngestContent(mode, st, f) ==
  [evs |-> Flushed(st, f)
             \o (IF Withheld(mode, st, f) THEN <<>> ELSE Text(f.content))
             \o CallEvents(WithIds(f.calls), st.nextIdx),
   st  |-> [contentBuf |-> (IF f.calls # <<>> THEN <<>> ELSE st.contentBuf)
                             \o (IF Withheld(mode, st, f) THEN f.content ELSE <<>>),
            nextIdx    |-> st.nextIdx + Len(f.calls)]]

\* A turn with calls ends as "tool_calls", whatever Ollama says of its end.
FinishAsSaid(n, finish) == finish
FinishOf(n, finish) ==
  IF n > 0 /\ finish \in {"stop", "unknown"} THEN "tool_calls" ELSE finish

\* The Done frame drains the buffer, through the parser if no call came natively.
Drained(mode, st) ==
  IF BufferContent(mode) /\ st.nextIdx = 0 THEN Parse(mode, st.contentBuf)
  ELSE NoCalls(st.contentBuf)
IngestDone(mid, parsed, f) ==
  [evs |-> mid.evs
             \o (IF parsed.calls = <<>> THEN Text(mid.st.contentBuf)
                 ELSE Text(parsed.text) \o CallEvents(parsed.calls, mid.st.nextIdx))
             \o <<Done(f.usage, FinishOf(mid.st.nextIdx + Len(parsed.calls),
                                         MapOllamaDoneReason(f.reason)))>>,
   st  |-> [contentBuf |-> <<>>, nextIdx |-> mid.st.nextIdx + Len(parsed.calls)]]

Ending(mode, mid, f) == IF f.done THEN IngestDone(mid, Drained(mode, mid.st), f) ELSE mid
IngestFrame(mode, st, f) == Ending(mode, IngestContent(mode, st, f), f)

-----------------------------------------------------------------------------
(* Generate: the same answer in one message.                               *)

MessageOf(body) ==
  [content |-> FlattenSeq([k \in DOMAIN body |-> body[k].content]),
   calls   |-> FlattenSeq([k \in DOMAIN body |-> body[k].calls]),
   reason  |-> Last(body).reason,
   usage   |-> Last(body).usage]

\* Native calls first, with the ids they came with, then those in the text, bound
\* tools or not.
ParseResponse(mode, m) ==
  IF m.calls # <<>> THEN [calls |-> m.calls, text |-> m.content]
  ELSE IF mode.parserKind = "" THEN NoCalls(m.content)
  ELSE Parse(mode, m.content)

OllamaResponse(m, parsed) ==
  Response(parsed.text, {ToolCall(c, Arguments(c)) : c \in ToSet(parsed.calls)},
           MapOllamaDoneReason(m.reason), m.usage)
OllamaGenerate(mode, body) == OllamaResponse(MessageOf(body), ParseResponse(mode, MessageOf(body)))
=============================================================================
