----------------------------- MODULE Responses -----------------------------
(***************************************************************************)
(* llm.Response, what Generate returns, and what a consumer accumulates    *)
(* from a whole stream, as the conformance helper does: arguments are      *)
(* joined by index, and finish reason and usage are those of the Done.     *)
(***************************************************************************)
EXTENDS K1Events, Selections

\* Texts and arguments are sequences of what the upstream sent at once; calls is
\* a set, because the order of interleaved calls is not what is compared.  <<>> is
\* also the "{}" that Generate has for a call streamed without argument text.
Response(text, calls, finish, usage) ==
  [text |-> text, calls |-> calls, finish |-> finish, usage |-> usage]
ToolCall(call, args) == [call |-> call, args |-> args]

\* The texts of the wanted events, joined.
Joined(evs, wanted) == Mapped(LAMBDA e : e.text, Kept(evs, wanted))

TextEvents == {e \in K1Event : e.kind = "text"}
ArgsEvents(i) == {e \in K1Event : e.kind = "tool_args" /\ e.index = i}
ArgsByIndex(evs, i) == Joined(evs, ArgsEvents(i))
StartsOf(evs) == {e \in ToSet(evs) : e.kind = "tool_start"}
DoneOf(evs) == {e \in ToSet(evs) : e.kind = "done"}

\* Without a Done there is neither finish reason nor usage.
Accumulated(evs) ==
  Response(Joined(evs, TextEvents),
           {ToolCall(e.call, ArgsByIndex(evs, e.index)) : e \in StartsOf(evs)},
           IF DoneOf(evs) = {} THEN NoFinish ELSE (CHOOSE e \in DoneOf(evs) : TRUE).finish,
           IF DoneOf(evs) = {} THEN NoUsage ELSE (CHOOSE e \in DoneOf(evs) : TRUE).usage)

\* What a field of some deltas holds at the end: its values joined, or its last.
NotEmpty(seq, empty) == Where(seq, LAMBDA x : x # empty)
FieldOf(deltas, Field(_), empty) == NotEmpty(Mapped(Field, deltas), empty)
LastOr(seq, default) == IF seq = <<>> THEN default ELSE Last(seq)

\* One answer streamed and not: the same text and calls, and the same finish
\* reason and usage if there was a Done.
Agrees(streamed, generated) ==
  /\ streamed.text = generated.text
  /\ streamed.calls = generated.calls
  /\ streamed.finish \in {NoFinish, generated.finish}
  /\ streamed.usage \in {NoUsage, generated.usage}
=============================================================================
