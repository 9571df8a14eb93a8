---------------------------- MODULE OpenAIChunks ----------------------------
(***************************************************************************)
(* chunkEvents of openai, deepseek and kimi: what one chunk of an OpenAI   *)
(* chat-completion stream becomes.  The adapters never ask for more than   *)
(* one choice, but the code handles any number of them.                    *)
(***************************************************************************)
EXTENDS Responses

OAWireFinish == FinishReasons \cup {NoFinish, "other"}

\* A delta with neither id nor name has no call; its type is absent, the one the
\* adapters know, or another.
NoType == ""
CallTypes == {NoType, "function", "other"}
ToolDelta ==
  [index : Indexes, call : Calls \cup {NoCall}, args : Texts \cup {NoText}, type : CallTypes]

OAWireChoice == [text : Texts \cup {NoText}, tools : Seq(ToolDelta), finish : OAWireFinish]
OAChunk == [choices : Seq(OAWireChoice), usage : {NoUsage} \cup {Reported(i, o, i + o) : i, o \in Tokens}]

\* r.lastFinish and r.toolIndexes (a nil map is the empty set).
OAState == [lastFinish : FinishReasons \cup {NoFinish}, toolIndexes : SUBSET Indexes]
OAInit == [lastFinish |-> NoFinish, toolIndexes |-> {}]

OAMapFinishReason(f) == IF f \in FinishReasons THEN f ELSE "unknown"

OAStartOrArgs(t) ==
  IF t.call # NoCall THEN <<ToolStart(t.index, t.call)>> ELSE <<ToolArgs(t.index, t.call, t.args)>>
OAToolEvents(t) ==
  (IF t.call # NoCall THEN <<ToolStart(t.index, t.call)>> ELSE <<>>)
    \o (IF t.args # NoText THEN <<ToolArgs(t.index, t.call, t.args)>> ELSE <<>>)

\* sort.Ints of the keys of the map.
Ascending(s) == \A j, k \in DOMAIN s : j < k => s[j] < s[k]
Sorted(indexes) == CHOOSE s \in [1..Cardinality(indexes) -> indexes] : Ascending(s)
OAEndEvents(indexes) ==
  [k \in DOMAIN Sorted(indexes) |-> ToolEnd(Sorted(indexes)[k], NoCall)]

OANeverEnds(st, ch) == FALSE
OAEndsCalls(st, ch) == ch.finish = "tool_calls" /\ st.toolIndexes # {}

\* One choice, after the events and the state of the choices before it.
OAChoice(acc, ch) ==
  LET seen == [acc.st EXCEPT !.toolIndexes = @ \cup {t.index : t \in ToSet(ch.tools)}]
      ends == OAEndsCalls(seen, ch)
  IN  [evs |-> acc.evs
                 \o (IF ch.text # NoText THEN <<TextDelta(ch.text)>> ELSE <<>>)
                 \o FlattenSeq([k \in DOMAIN ch.tools |-> OAToolEvents(ch.tools[k])])
                 \o (IF ends THEN OAEndEvents(seen.toolIndexes) ELSE <<>>),
       st  |-> [lastFinish  |-> IF ch.finish = NoFinish THEN seen.lastFinish
                                ELSE OAMapFinishReason(ch.finish),
                toolIndexes |-> IF ends THEN {} ELSE seen.toolIndexes]]

\* A chunk with usage is only the Done; any other is the sum of its choices.
OATranslate(st, chunk) ==
  IF chunk.usage.source = "reported"
  THEN [evs |-> <<Done(chunk.usage, st.lastFinish)>>, st |-> st]
  ELSE FoldLeft(OAChoice, [evs |-> <<>>, st |-> st], chunk.choices)

-----------------------------------------------------------------------------
(* What a server of this format streams for one answer.                    *)

Tools(chunk) == IF chunk.choices = <<>> THEN <<>> ELSE chunk.choices[1].tools
Finishes(chunk) == chunk.choices # <<>> /\ chunk.choices[1].finish # NoFinish
Names(delta, i) == delta.index = i /\ delta.call # NoCall

\* Delta m of chunk k belongs to a call that it, or a delta before it, gave the
\* id and name of.
NamedBy(body, k, m) ==
  LET i == Tools(body[k])[m].index
  IN  \/ \E j \in 1..(k - 1) : \E l \in DOMAIN Tools(body[j]) : Names(Tools(body[j])[l], i)
      \/ \E l \in 1..m : Names(Tools(body[k])[l], i)

\* One choice, which ends with its finish reason; usage only at the end.
CompleteAnswer(body) ==
  /\ \A k \in DOMAIN body : /\ Len(body[k].choices) <= 1
                            /\ \A m \in DOMAIN Tools(body[k]) : NamedBy(body, k, m)
                            /\ body[k].usage # NoUsage => k = Len(body)
  /\ \E f \in DOMAIN body : /\ Finishes(body[f])
                            /\ \A k \in 1..(f - 1) : ~Finishes(body[k])
                            /\ \A k \in (f + 1)..Len(body) : body[k].choices = <<>>

-----------------------------------------------------------------------------
(* Generate, on the answer that the upstream would have streamed as body:  *)
(* the deltas of its choice joined.                                        *)

Deltas(body) == FlattenSeq([k \in DOMAIN body |-> body[k].choices])
ToolDeltas(body) == FlattenSeq([k \in DOMAIN Deltas(body) |-> Deltas(body)[k].tools])

\* An index stands for one call: each id and name that comes with it is the same.
OneCallEach(body) ==
  \A t, u \in ToSet(ToolDeltas(body)) :
    t.index = u.index /\ t.call # NoCall /\ u.call # NoCall => t.call = u.call

CallType(deltas) == LastOr(FieldOf(deltas, LAMBDA t : t.type, NoType), NoType)
CompletionCall(deltas) ==
  ToolCall(LastOr(FieldOf(deltas, LAMBDA t : t.call, NoCall), NoCall),
           FieldOf(deltas, LAMBDA t : t.args, NoText))
ChatCompletion(body) ==
  [text   |-> FieldOf(Deltas(body), LAMBDA ch : ch.text, NoText),
   calls  |-> [i \in {t.index : t \in ToSet(ToolDeltas(body))} |->
                 CompletionCall(Where(ToolDeltas(body), LAMBDA t : t.index = i))],
   types  |-> [i \in {t.index : t \in ToSet(ToolDeltas(body))} |->
                 CallType(Where(ToolDeltas(body), LAMBDA t : t.index = i))],
   finish |-> LastOr(FieldOf(Deltas(body), LAMBDA ch : ch.finish, NoFinish), NoFinish),
   usage  |-> LastOr(FieldOf(body, LAMBDA c : c.usage, NoUsage), Reported(0, 0, 0))]

\* Only calls of functions are returned.
OAToolCalls(c) == {c.calls[i] : i \in {j \in DOMAIN c.calls : c.types[j] = "function"}}
OAResponse(c) == Response(c.text, OAToolCalls(c), OAMapFinishReason(c.finish), c.usage)

\* The response as a stream knows it: chunkEvents does not read the type, and
\* calls of another type or of none are handed on with the rest.
OtherCalls(c) == {c.calls[i] : i \in {j \in DOMAIN c.calls : c.types[j] # "function"}}
WithOtherCalls(body, response) ==
  [response EXCEPT !.calls = @ \cup OtherCalls(ChatCompletion(body))]
=============================================================================
