---------------------------- MODULE MCVolcengine ----------------------------
(***************************************************************************)
(* The volcengine reader on the answers of volcengine/volcengine_test.go: text *)
(* with a usage chunk at the end, parallel tool calls, no usage at all.    *)
(***************************************************************************)
EXTENDS VolcengineContract

MCTexts == {"a", "b"}
MCCalls == {"calc", "search"}
MCIndexes == {0, 1}
MCTokens == {0, 2}

Choice(text, tools, finish) == [text |-> text, tools |-> tools, finish |-> finish]
TD(i, call, args) ==
  [index |-> i, call |-> call, args |-> args, type |-> IF call = NoCall THEN NoType ELSE "function"]
Typed(delta, type) == [delta EXCEPT !.type = type]
Data(text, tools, finish) == [choices |-> <<Choice(text, tools, finish)>>, usage |-> NoUsage]
OnlyUsage == [choices |-> <<>>, usage |-> Reported(2, 2, 4)]
LastWithUsage(finish) ==
  [choices |-> <<Choice(NoText, <<>>, finish)>>, usage |-> Reported(0, 2, 2)]

MCBodies == {
  <<Data(NoText, <<>>, ""), Data("a", <<>>, ""), Data("b", <<>>, "stop"), OnlyUsage>>,
  <<Data(NoText, <<TD(0, "calc", "a"), Typed(TD(1, "search", NoText), NoType)>>, ""),
    Data(NoText, <<TD(1, "", "b")>>, ""), LastWithUsage("tool_calls")>>,
  <<Data("a", <<>>, "length")>>,
  <<LastWithUsage("content_filter")>>}
MCChunk == UNION {ToSet(b) : b \in MCBodies}
=============================================================================
