------------------------------ MODULE MCOllama ------------------------------
(***************************************************************************)
(* The Ollama stream on small answers: those of internal/contract/testdata *)
(* and ollama_test.go, an answer whose body stops before its Done frame,   *)
(* malformed markup, and a JSON object that is not a call.                 *)
(***************************************************************************)
EXTENDS OllamaContract

MCPlain == {"a", "b"}
MCNoText == <<>>
MCAnonymous == {"calc", "search"}
MCNameAsId == ("calc" :> "calc_by_name") @@ ("search" :> "search_by_name")
MCCalls == MCAnonymous \cup Range(MCNameAsId) \cup {"call_1"}
MCIndexes == 0..2
MCTokens == {0, 2}
MCTexts == UNION {[1..n -> Piece] : n \in 1..5}

Mode(tools, kind) == [hasTools |-> tools, parserKind |-> kind]
Plain == Mode(FALSE, "qwen_json_or_xml")
PythonTag == Mode(TRUE, "python_tag")
Qwen == Mode(TRUE, "qwen_json_or_xml")
NativeOnly == Mode(TRUE, "")
MCModes == {Plain, PythonTag, Qwen, NativeOnly}

More(content, calls) ==
  [content |-> content, calls |-> calls, done |-> FALSE, reason |-> "", usage |-> NoUsage]
Final(content, calls, reason) ==
  [content |-> content, calls |-> calls, done |-> TRUE, reason |-> reason,
   usage |-> Reported(2, 2, 4)]

PlainBodies == {
  <<More(<<"a">>, <<>>), More(<<"b">>, <<>>), Final(<<>>, <<>>, "stop")>>,
  <<More(<<"a">>, <<>>)>>}
PythonTagBodies == {
  <<More(<<"a">>, <<>>), Final(<<>>, <<"calc">>, "stop")>>,
  <<More(<<"a", "python_tag">>, <<>>), Final(<<"calc">>, <<>>, "other")>>,
  <<More(<<>>, <<"calc">>), More(<<"b">>, <<>>), Final(<<>>, <<"call_1">>, "length")>>,
  <<Final(<<"python_tag", "a">>, <<>>, "stop")>>}
QwenBodies == {
  <<More(<<"a", "open_tag">>, <<>>), More(<<"calc">>, <<>>), Final(<<"close_tag">>, <<>>, "stop")>>,
  <<More(<<"open_tag", "calc", "close_tag">>, <<>>),
    Final(<<"b", "open_tag", "search", "close_tag">>, <<>>, "stop")>>,
  <<Final(<<"fence", "calc", "fence">>, <<>>, "load")>>,
  <<More(<<NoCall>>, <<>>), Final(<<>>, <<>>, "stop")>>,
  <<Final(<<"open_tag", "calc", "b", "calc", "close_tag">>, <<>>, "stop")>>,
  <<More(<<"a">>, <<>>), More(<<"calc">>, <<>>)>>}

NativeBodies == {
  <<More(<<"a">>, <<"calc", "call_1">>), More(<<"python_tag", "calc">>, <<>>),
    Final(<<>>, <<"search">>, "stop")>>,
  <<More(<<"open_tag", "calc", "close_tag">>, <<>>), Final(<<"b">>, <<>>, "stop")>>}

MCBodies(m) == CASE m = Plain -> PlainBodies
                 [] m = NativeOnly -> NativeBodies
                 [] m = PythonTag -> PythonTagBodies
                 [] m = Qwen -> QwenBodies

MCFrame == UNION {UNION {ToSet(b) : b \in MCBodies(m)} : m \in MCModes}
MCIsLast(f) == f.done
MCTrState == [contentBuf : Seq(Piece), nextIdx : Nat]

\* A function as a table, computed once.
Table(S, Op(_)) == FoldSet(LAMBDA x, t : (x :> Op(x)) @@ t, <<>>, S)

MCRuns == Table(MCModes, LAMBDA m : Table(MCBodies(m), LAMBDA b : Translated(m, b)))
MCRun(m, b) == MCRuns[m][b]

\* Every frame in the states it is met in, ingested.
MCMet(m) == UNION {{<<MCRun(m, b)[k - 1].st, b[k]>> : k \in DOMAIN b} : b \in MCBodies(m)}
MCIngested ==
  Table(MCModes, LAMBDA m : Table(MCMet(m), LAMBDA met : IngestFrame(m, met[1], met[2])))
MCFrameEvents(m, st, f) == MCIngested[m][<<st, f>>].evs
MCFrameAfter(m, st, f) == MCIngested[m][<<st, f>>].st

\* K1Event, but for the texts, which are any pieces.
MCEvent ==
  UNION {UNION {ToSet(MCRun(m, b)[Len(b)].evs) : b \in MCBodies(m)} : m \in MCModes}
=============================================================================
