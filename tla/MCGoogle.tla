------------------------------ MODULE MCGoogle ------------------------------
(***************************************************************************)
(* The google reader on the answers of google/google_test.go and what      *)
(* chunkEvents has branches for: text, two calls in one chunk, calls in    *)
(* two chunks, a chunk of usage alone, a blocked prompt, no finish reason. *)
(***************************************************************************)
EXTENDS GoogleContract

MCTexts == {"a", "b", "{}"}
MCCalls == {"calc", "search"}
MCIndexes == {0, 1}
MCTokens == {0, 2}

Words(text) == [text |-> text, call |-> "", args |-> NoText]
FunctionCall(call, args) == [text |-> NoText, call |-> call, args |-> args]
Candidate(parts, finish, usage) ==
  [candidate |-> TRUE, parts |-> parts, finish |-> finish, usage |-> usage, blocked |-> FALSE]
NoCandidate(usage, blocked) ==
  [candidate |-> FALSE, parts |-> <<>>, finish |-> "", usage |-> usage, blocked |-> blocked]

MCBodies == {
  <<Candidate(<<Words("a")>>, "", NoUsage), Candidate(<<Words("b")>>, "STOP", Reported(2, 2, 4))>>,
  <<Candidate(<<FunctionCall("calc", "a"), FunctionCall("search", NoText)>>, "STOP",
              Reported(2, 0, 2))>>,
  <<Candidate(<<FunctionCall("calc", "a")>>, "", NoUsage),
    Candidate(<<FunctionCall("search", "b")>>, "MAX_TOKENS", NoUsage),
    NoCandidate(Reported(2, 2, 4), FALSE)>>,
  <<NoCandidate(Reported(2, 0, 2), TRUE)>>,
  <<Candidate(<<Words("a"), FunctionCall("calc", NoText)>>, "", Reported(2, 0, 2))>>,
  <<Candidate(<<>>, "SAFETY", NoUsage)>>}
MCChunk == UNION {ToSet(b) : b \in MCBodies}
=============================================================================
