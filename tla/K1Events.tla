------------------------------ MODULE K1Events ------------------------------
(***************************************************************************)
(* The events of a stream (llm.StreamEvent, an external package) and what  *)
(* the conformance helper internal/contract/contract.go asks of a whole    *)
(* sequence of them.  Texts and calls are members of small sets; a         *)
(* call stands for its id and its name, "" for neither.                    *)
(***************************************************************************)
EXTENDS Integers, Sequences, FiniteSetsExt

CONSTANTS
  Texts,    \* texts of deltas and argument fragments, the empty one not among them
  Calls,    \* tool calls, each standing for its id and its name
  Indexes,  \* upstream indexes of tool calls and content blocks
  Tokens,   \* token counts
  NoText    \* the empty text

\* The upstreams count calls and blocks from 0 on.
ASSUME IndexAssumption == Indexes \subseteq Nat

FinishReasons == {"stop", "length", "content_filter", "tool_calls", "function_call", "unknown"}

\* An event without a call, or without a finish reason.
NoCall == ""
NoFinish == ""

\* llm.Usage; "nil" stands for a nil pointer and for the zero value.
NoUsage == [source |-> "nil", in |-> 0, out |-> 0, total |-> 0]
UnknownUsage == [NoUsage EXCEPT !.source = "unknown"]
Reported(in, out, total) == [source |-> "reported", in |-> in, out |-> out, total |-> total]
Usage == {NoUsage, UnknownUsage} \cup {Reported(i, o, i + o) : i, o \in Tokens}

K1Event ==
  [kind : {"text", "thinking", "tool_start", "tool_args", "tool_end", "done"},
   text : Texts \cup {NoText}, index : Indexes \cup {-1}, call : Calls \cup {NoCall},
   usage : Usage, finish : FinishReasons \cup {NoFinish}]

Blank(kind) ==
  [kind |-> kind, text |-> NoText, index |-> -1, call |-> NoCall, usage |-> NoUsage, finish |-> NoFinish]

TextDelta(t) == [Blank("text") EXCEPT !.text = t]
ThinkingDelta(t) == [Blank("thinking") EXCEPT !.text = t]
ToolStart(i, call) == [Blank("tool_start") EXCEPT !.index = i, !.call = call]
ToolArgs(i, call, t) == [Blank("tool_args") EXCEPT !.index = i, !.call = call, !.text = t]
ToolEnd(i, call) == [Blank("tool_end") EXCEPT !.index = i, !.call = call]
Done(u, f) == [Blank("done") EXCEPT !.usage = u, !.finish = f]

IsDoneEvent(ev) == ev.kind = "done"

\* What the helper has in seenIndices[i] before event k is what the last Start or
\* End of i left there: it was one of this kind.
IsMark(e, i) == e.kind \in {"tool_start", "tool_end"} /\ e.index = i
SeenIndex(evs, k, i, kind) ==
  \E j \in 1..(k - 1) : /\ evs[j].kind = kind /\ evs[j].index = i
                        /\ \A l \in (j + 1)..(k - 1) : ~IsMark(evs[l], i)

\* Event k breaks no rule of the helper.
ConformsAt(evs, k) ==
  LET e == evs[k] IN
  /\ e.kind \in {"text", "thinking"} => e.text # NoText
  /\ e.kind = "tool_start" =>
       e.index >= 0 /\ e.call # NoCall /\ ~SeenIndex(evs, k, e.index, "tool_end")
  /\ e.kind \in {"tool_args", "tool_end"} => SeenIndex(evs, k, e.index, "tool_start")
  /\ e.kind = "done" => k = Len(evs) /\ e.usage.source # "nil" /\ e.finish # NoFinish

K1Conforms(evs) == \A k \in DOMAIN evs : ConformsAt(evs, k)

\* Every call that was started was ended.
CallsClosed(evs) ==
  \A k \in DOMAIN evs :
    evs[k].kind = "tool_start" => SeenIndex(evs, Len(evs) + 1, evs[k].index, "tool_end")
=============================================================================
