-------------------------- MODULE VolcengineChunks --------------------------
(***************************************************************************)
(* chunkEvents and doneEvent of the volcengine reader.  Its chunks have    *)
(* the shape of OpenAI's and its choices are translated like theirs; usage *)
(* is remembered instead of reported at once, and the Done is made from it *)
(* at the end of the body.                                                 *)
(***************************************************************************)
EXTENDS OpenAIChunks

\* OAState with r.usage, nil until a chunk has usage.
ArkState == [lastFinish : FinishReasons \cup {NoFinish}, toolIndexes : SUBSET Indexes, usage : Usage]
ArkInit == [lastFinish |-> NoFinish, toolIndexes |-> {}, usage |-> NoUsage]

\* Usage first, whatever else the chunk has, then its choices.
ArkDropsUsage(st, chunk) == st.usage
ArkUsage(st, chunk) == IF chunk.usage.source = "nil" THEN st.usage ELSE chunk.usage

ArkChoices(st, chunk) ==
  FoldLeft(OAChoice,
           [evs |-> <<>>, st |-> [lastFinish |-> st.lastFinish, toolIndexes |-> st.toolIndexes]],
           chunk.choices)
ArkEvents(st, chunk) == ArkChoices(st, chunk).evs
ArkAfter(st, chunk) ==
  [lastFinish  |-> ArkChoices(st, chunk).st.lastFinish,
   toolIndexes |-> ArkChoices(st, chunk).st.toolIndexes,
   usage       |-> ArkUsage(st, chunk)]

\* Generate, on the answer that would have been streamed as body.
ArkResponse(c) == Response(c.text, OAToolCalls(c), OAMapFinishReason(c.finish), c.usage)

\* The Done synthesized at the end of the body.
ArkDone(st) == Done(IF st.usage = NoUsage THEN UnknownUsage ELSE st.usage, st.lastFinish)
=============================================================================
