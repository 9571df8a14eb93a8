# Verification of llm-agent-providers

TLA+ models of the adapters of `llm-agent-providers`: TLC checks them on
small instances, TLAPS proves their safety for every value of the constants.
There are two subjects. The *stream*: `Stream` returns an `llm.StreamReader`, and
what a consumer gets from `Next`, one event at a time, while the upstream fails, a
retry happens, the context is cancelled or another goroutine calls `Close`. And
the *call*: what becomes of a request between `New` and the result of `Generate`,
`Embed` or `GenerateImage`, while the caller reuses its data, timers run, and the
vendor answers, fails or stays silent.

## 1. Inventory

The library turns eight vendor APIs into the interfaces of the external package
`llm-agent-contract/llm`. Adapters share no state with each other; everything
that is hard happens between one adapter, its HTTP upstream, the goroutine that
reads the stream and the goroutines that close or cancel it.

| part | state it keeps | operations | talks to |
|---|---|---|---|
| stream reader of openai, deepseek, kimi | mutex; `stream`, `queue`, `retried`, `deliveredByte`, `closed`, `lastFinish`, `toolIndexes` | `Stream`, `Next`, `Close`, `chunkEvents` | SSE body of OpenAI chunks, consumer, closers, context |
| stream reader of anthropic, minimax | the same loop; `blockKinds`, `blockMeta`, `finish`, `usage` | `Stream`, `Next`, `Close`, `eventToStreamEvents` | SSE body of Anthropic events |
| stream reader of ollama | mutex; `respCh`, `errCh`, `closed`, `done`, `pending`, `contentBuf`, `nextIdx`; a producer goroutine | `Stream`, `Next`, `ingest`, `Close` | `api.Client.Chat` with a callback, the context it owns |
| tool call parsers of ollama | none | `parsePythonTagToolCalls`, `parseQwenToolCalls`, ... | `ingest`, `Generate` |
| ollama status capture | `lastStatus`, `lastRetryAfter`, shared by all calls of the adapter | `RoundTrip`, `wrapErr` | the HTTP transport, every concurrent call |
| stream reader of volcengine | the loop with a failing `open`; `doneEmitted`, `usage` | `Next`, `Close`, `doneEvent`, `chunkEvents` | SDK stream |
| stream reader of google | `next`/`stop` of a pull iterator, `closed`, `lastUsage` | `Next`, `Close`, `chunkEvents` | iterator of the SDK |
| error mapping (`internal/compat`, per-adapter `errors.go`) | none | `wrapErr`: classification by context error, status, connection failure | every call |
| request mapping (`map.go`) | none | `toSDKRequest`, `toTools` and their helpers | the caller's turns and tools |
| options, constructors, `WithTools` | `timeout`, the tools, the header map, the capabilities | `New`, `DefaultTimeout`, `withTimeout`, `WithTools` | every call |
| embeddings, images | none | `Embed`, `GenerateImage` with their gates | one request, one answer |
| raw HTTP client of minimax | none | `postJSON`, `baseResp` | the caller's or the default `http.Client` |
| contract helper (`internal/contract`) | none | `AssertStreamToolCalls`, ... | tests of all adapters |

What is hard in it: a retry hidden inside `Next`; a mutex held during a blocking
read; `Close` from another goroutine; a producer goroutine with two channels and
a `select`; a lock that is given up between a check and the use of what was
checked; a body that stops in the middle; translators with state that a retry
does not reset; data shared with the caller and read later; timers that are set in
eight ways; an answer, a timer and a cancellation that race, and eight copies of
the code that tells the caller what to do about it. `PROJECT.json` lists each hazard at its line, with the
properties aimed at it.

What makes the parts correct:

* a stream reader delivers a prefix, without gaps or repetitions, of the
  translation of *one* upstream answer; all of it before `io.EOF`; nothing after
  the end, an error or `Close`; it leaks neither HTTP body nor goroutine;
* `Close` and `Next` come back once the context is cancelled;
* what a drained stream delivered satisfies the rules of
  `internal/contract/contract.go`;
* errors are classified by what happened to *this* request, so that a caller that
  tries again on transient errors and gives up on invalid requests does right;
* what is sent to the vendor is what the caller asked for when it asked;
* a call returns though the vendor is silent, with its context or a timer.

## 2. Modules

| module | models |
|---|---|
| `StreamContract` | the abstract stream: a log that grows along one of the possible completions, then ended or cut |
| `K1Events` | `llm.StreamEvent` and the rules of `AssertStreamToolCalls` (`K1Conforms`) |
| `Responses` | `llm.Response`, and what a consumer accumulates from a whole stream |
| `Selections` | the elements of a sequence that are in a set, and a function of each: what requests and whole answers are built with |
| `OpenAIChunks` | `chunkEvents` and `fromSDKResponse` of openai, deepseek and kimi, and `mapFinishReason` |
| `AnthropicEvents` | `eventToStreamEvents` and `fromSDKResponse` of anthropic and minimax, and the stop reasons |
| `SSEAdapters` | which adapter plugs which translator into the loop |
| `SSELoop` | `Next`, `Close` and the fields of the five readers, over any translator |
| `SSEContract` | the loop with the translators: refinement of `StreamContract`, conformance, agreement with `Generate` |
| `MCSSE` | small instance of `SSEContract` |
| `SSELoopProofs` | theorems of `SSELoop`, its refinement, conformance and agreement with `Generate` in `SSEContract` |
| `TranslationTheorems` | lemmas the stream proofs share: folds over a body, prefixes of a translation |
| `ConformanceTheorems` | when a sequence of events keeps the helper's rules, that the translators of both formats keep them, and that their events add up to the answer |
| `VolcengineChunks` | `chunkEvents`, `doneEvent` and `fromSDKResponse` of volcengine |
| `VolcengineStream` | `Next` with its blocking `open`, and `Close`, of volcengine |
| `VolcengineContract` | the two together: refinement of `StreamContract`, conformance |
| `MCVolcengine` | small instance of `VolcengineContract` |
| `VolcengineStreamProofs` | theorems of `VolcengineStream`, its refinement, conformance and agreement with `Generate` in `VolcengineContract` |
| `GoogleChunks` | `chunkEvents`, the Done, and the `Generate` of google |
| `GoogleStream` | `Next`, `Close`, the pull iterator and the deadline of google, over any translator |
| `GoogleContract` | the two together: refinement of `StreamContract`, agreement with `Generate` |
| `MCGoogle` | small instance of `GoogleContract` |
| `GoogleStreamProofs` | theorems of `GoogleStream`, its refinement and the agreement with `Generate` in `GoogleContract` |
| `OllamaFrames` | `ingest`, the tool call parsers and the `Generate` of ollama |
| `OllamaStream` | producer goroutine, channels, `Next` and `Close` of ollama, over any translator |
| `OllamaContract` | the two together: refinement of `StreamContract`, conformance |
| `MCOllama` | small instance of `OllamaContract` |
| `OllamaStreamProofs` | theorems of `OllamaStream`, its refinement, conformance and agreement with `Generate` in `OllamaContract` |
| `OllamaStatus` | `RoundTrip` and `wrapErr` of ollama, for concurrent calls of one adapter |
| `MCOllamaStatus` | small instance of `OllamaStatus` |
| `OllamaStatusProofs` | inductive invariant and theorems of `OllamaStatus` |
| `Requests` | `toSDKRequest` of the eight adapters: dialog, images, system texts, tools, limit |
| `ErrorMap` | the routing tables of `wrapErr`, `postJSON` and `baseResp` |
| `Calls` | one call: `New`, `WithTools`, `Generate`, `Embed`, `GenerateImage`, `Stream` up to its request |
| `MCCalls` | small instance of `Calls`, with all eight adapters |
| `CallsProofs` | what the classification promises for every status, what every request sends, inductive invariant and theorems of `Calls` |

### How state and actions correspond to the code

`SSELoop`. The variables of `reader` are the fields of `openaiStreamReader`
(`tr` stands for the translator's), those of `server` describe the upstream: the
body it answers each request with, how far it was read, which streams are open.
`mu` is `r.mu`. One call of `Next` is the sequence
`NextCall` (the call), `NextLock` (the mutex is taken), then, as often as the
loop goes round, `NextClosed`, `NextPop` or `NextRead` (the test at the top of
the loop), and after `NextRead` the blocking `r.stream.Next()`, which ends as
`RecvChunk`, `RecvEnd` or `RecvError`; whatever returns gives the mutex back
(`Return`, the deferred `Unlock`). A failed, ended or retried stream is dropped
in the step that sees the error, as in the code. `CloseCall` and `CloseRun` are
`Close` before and after it has the mutex. A cancelled context makes the read
fail. Queue entries carry, besides the event, the number of the request they
came from (`Tagged`), so that a splice of two answers is visible; the code does
not see it.

`OllamaStream`. `ppc` is the line the producer goroutine is at: `read` in the
SDK, `send` in the callback's `select`, `report` before `sr.errCh <- err`,
`close` before the deferred `close(respCh)`, `exited`. `npc` is the line of
`Next`: the first locked section (`check`), `r.ctx.Err()` (`ctx`), the `select`,
`ingest` with the received frame in `resp`, the read of `errCh` (`err`), the
second look at the context (`ctx2`) and `r.done = true` (`mark`). The mutex is
never held across anything that blocks, so a locked section is one action and
the interleavings with `Close` fall between them, as they do in the code. A
channel is a sequence of at most one element and a closed flag; a receive from a
closed channel first drains it. The callback's `select` with both cases ready
takes either. When the context is cancelled during a read, `Chat` may return its
error or none: the comment and the second test of the context in `Next` are
written for that.

`OllamaFrames`. A text is a sequence of pieces: plain text, a marker
(`<|python_tag|>`, `<tool_call>`, its closing tag, a fence) or a JSON object, that of
a call or one without a `"name"` (`NoCall`), which `decodeFallbackToolCall` takes for
a call as well. The model keeps where the parsers look, what they cut off and when they
give up; white space and JSON syntax are abstracted. A call is one value with its name,
id and arguments; those without an id are `Anonymous`. `ollama/ollama.go:252` gives a
native one of them its name for an id (`Identified`), in the stream only; calls in the text have no
id and get none. `NameAsId` is the call that comes of it, with the same `Arguments`.

`VolcengineStream` has the actions of `SSELoop` with two differences of the
code: `NextOpen` sends the request and waits for the response with the mutex held
(`OpenSucceeds`, `OpenFails`; in the other readers a failed request shows in the
first read), and `RecvFirstEof` queues the Done at the first `io.EOF` and goes
round the loop, `RecvEof` drops the stream at the second. `RetryOrFail` is the
test that both failures share. The history variable `start` remembers the
translator's fields when the current stream was opened.

`GoogleStream` has no retry and no stream that could be opened a second time:
`iter` is the pair `r.next`, `r.stop`. `NextPull` creates it when there is none
and blocks in it, with the mutex held, until `PullChunk`, `PullExhausted` or
`PullError`. `End` is what all three ways out do: stop the iterator, call the
`cancel` of `withTimeout` and set `closed`. `released` says that `cancel` was
called; until then the timer of a reader with a timeout may `Expire`.

`OllamaStatus` has no stream: a call goes from `trip` (in the inner transport)
to `store` (status stored, Retry-After not yet), `body` (response returned to
the SDK), `wrap` (in `wrapErr`) and `limit` (a 429 was read, `lastRetryAfter` not
yet). The two atomic stores and the two atomic loads are the only steps that
touch shared fields, so each is an action. `own` remembers the response of the
call itself, `disturbed` that another one was stored over it.

`OpenAIChunks`, `AnthropicEvents`, `VolcengineChunks`, `GoogleChunks`. A chunk or event is a record with the fields
the translators read; texts and calls are members of small sets. Choices and calls that
are nil, which volcengine skips in both translations, are left out, and an index that is
nil is 0, as in the code. A delta of a call has the `type` the vendor gave it, or none: no `chunkEvents`
reads it, but `OAToolCalls` returns a call only if it came to be `"function"`.

Each of these modules also has `Generate` (`FromResponse` and `BlockedPrompt` in google): the answer is what the vendor would have
sent at once, the deltas of a body joined (external), and `fromSDKResponse` turns it
into a `Response`. `Accumulated` is the consumer's side: texts joined, arguments
joined by index, as `internal/contract/contract.go` does it. Two things a stream knows
otherwise than `Generate` (`StreamKnows`): the calls of another type or of none, which
it hands on with the rest (`OtherCalls`), and the input tokens of
an Anthropic answer, which are those of its last `message_delta`, whatever
`message_start` reported.

`Requests` has one operator per adapter (`OpenAIRequest`, ..., `OllamaRequest`) and
one per helper that decides something: which roles are sent, where system turns
go, what becomes of an image without data or with a broken data URI, which
keywords of a tool's schema survive. A text, an image or a keyword is a member of a
small set. `LiftedSystem` is the one text anthropic and minimax make of all system texts, as the
sequence of its paragraphs: `Paragraph` adds one behind a blank line, but where nothing stands yet
the text takes the place of the prompt, and an empty one leaves no trace. `Int32` is the
conversion of google's limit, which wraps at `HalfWord`, 2^31 in the code. `SaidIn` and `SaidOn`, `SystemIn` and `SystemOn`, `UserImagesIn` and
`UserImagesOn` read the same thing out of the caller's and the vendor's request; they
belong to the properties and model no code.

`ErrorMap` writes each `wrapErr` as a table (`OpenAIRouting`, `AnthropicRouting`,
`ArkRouting`, `GoogleRouting`, `OllamaRouting`) under one order of tests: context
first, then the status, then the network. The order matters because the failures overlap:
what an HTTP client reports of an ended context is a `net.Error` as well (`NetErrors`). A `Failure` is what the SDK reports,
which is external: a context error, a status, a failed connection, an answer it
cannot read, a refusal in an answer of status 200.

`Calls` follows one call from `idle` to `returned`; in between it is `sent` (the
request is out), `reading` (the response is there, its body not), or, for `Stream`,
`opened` (a reader exists, nothing is sent) and `streaming`, where the stream modules
begin. A method that is gated returns in one step (`Unsupported`). `built` is what
goes to the vendor: for `Stream` it is built in `Stream` itself or, in the two
adapters that translate late (`TranslatesLate`), in `OpenStream`. `Edit` is the caller
writing into the tools, the header map or the turns it had handed over;
`OwnTools`, `OwnHeaders` and `OwnRequest` are those things as they are now, and what the
adapter reads of them is what the code reads. `Timed` says whether any timer runs
over the request: New's timeout or the `Timeout` of the caller's `http.Client`,
depending on the adapter and the method. `CallerEnds` and `TimerFires` end the
context; the answer may come first all the same.

The consumer's `habit` says when it stops calling `Next`: at the first Done
(`until_done`), at the first `io.EOF` or error (`until_eof`, a drain loop), or not
at all (`past_end`), which nothing in the code excludes. The first two are called
disciplined.

## 3. Runs

| run | cfg | result |
|---|---|---|
| `sse` | `MCSSE.cfg` | all properties hold |
| `sse_done_last` | `MCSSEDone.cfg` | `DoneIsLast` is violated |
| `sse_close_wins` | `MCSSEClose.cfg` | `CloseWins` is violated |
| `volcengine` | `MCVolcengine.cfg` | all properties hold |
| `google` | `MCGoogle.cfg` | all properties hold |
| `google_index` | `MCGoogleIndex.cfg` | `IndexesUnique` is violated |
| `ollama` | `MCOllama.cfg` | all properties hold |
| `ollama_eof_done` | `MCOllamaDone.cfg` | `EofAfterDone` is violated |
| `ollama_status` | `MCOllamaStatus.cfg` | all properties hold |
| `ollama_status_bleed` | `MCOllamaStatusBleed.cfg` | `RetryAfterIsOwn` is violated |
| `calls` | `MCCalls.cfg` | all properties hold |
| `calls_unbounded` | `MCCallsUnbounded.cfg` | `NeverHangs` is violated |

**`sse`**: the five adapters, each with bodies of its own: text, parallel tool
calls split over chunks, two blocks of text, a content filter, an answer cut by the token
limit in the middle of a call, one with no usage chunk; an upstream that may fail before or
after any chunk of any request; two closers; a context that may be cancelled; a
consumer that stops at the Done or at the end.

* `TypeOK`: types, and the mutex is held exactly by a running `Next`.
* `SingleSource`, `AtMostOneRetry`: a disciplined consumer is given content of
  one request only, and causes at most two.
* `NoStreamLeak`: every stream opened and not closed is the one the reader holds.
* `QuietAfterClose`: after `Close` took effect nothing is delivered, read or
  requested.
* `ImplementsContract`: the loop refines `StreamContract`: the log is a prefix of
  the translation of one answer *by a fresh reader*, so state left by a failed
  first attempt would show.
* `DrainedConforms`: a drained stream satisfies the rules of the contract helper;
  it has a Done exactly if the answer announces its end in the chunk the adapter
  looks at; and an answer that finishes with `tool_calls` has ended every call it
  started, in the same chunk.
* `GenerateAgrees`: what a drained stream adds up to is the response `Generate`
  returns for the same answer, with the two differences noted above. Calls whose
  type is not `"function"` are in the stream, those and no others: `openai/map.go:154`,
  `deepseek/map.go:119` and `kimi/map.go:155` skip them, `chunkEvents` does not. The
  property cannot say which account of Anthropic's input tokens is right, and is not
  meant to.
* `CallsReturnOnceCancelled`: once the context is cancelled, a started `Next` returns
  and a waiting `Close` gets through.

The two violated properties are what documents of the repository say: that no
retry follows a delivered event and Done is the last one, and that a concurrent
`Close` wins. The counterexamples are: a body that breaks *after its Done* and before
any content (a Done does not set `deliveredByte`) is requested again, and so is
the whole answer by a `Next` after `io.EOF`, which finds `r.stream == nil`; `Close`
waits for the mutex of a `Next` that waits for a silent server.

**`volcengine`**: answers with a usage chunk at the end, with usage in the last
choice, without usage, and with no content; every open and every read may fail;
two closers, a cancelled context, a consumer that stops at the end or reads on.

* `TypeOK`, `NoStreamLeak`, `NextReturnsOnceCancelled` as in the `sse` run; the mutex is also
  held while the response is awaited.
* `AtMostOneRetry`: failed opens and failed reads share the one retry.
* `OneDone`: the Done that `Next` makes comes once, last, before `io.EOF`; a consumer
  that reads on is sent a second answer, which gets no Done of its own.
* `DrainedConforms`: the rules of the helper, and the Done has the usage of the
  answer, wherever it was reported.
* `GenerateAgrees`, as in the `sse` run: here it is `volcengine/map.go:109` that skips calls
  of another type or of none. Usage is compared where the answer reports it.
* `ImplementsContract`: the refinement, with one concession that the code needs.
  The retry keeps `r.usage` and `r.lastFinish`, so the Done of a second answer
  that reports no usage carries what a failed first one had reported. An answer
  may therefore start from the state of a new reader or from that of a failed
  attempt that had no event yet (`Starts`).

**`google`**: answers with text, two calls in one chunk, calls in two chunks, a
chunk of usage alone, a blocked prompt; with and without a timeout; two closers;
a consumer that calls `Next` as often as it likes.

* `TypeOK`: types, and the mutex is held exactly by a running `Next`.
* `Released`: a stream that ended, whichever way, has stopped its iterator and
  released its timer, and one that goes on has done neither.
* `EndIsFinal`: nothing is delivered or pulled after the Done, an error or `Close`.
* `ImplementsContract`: the refinement, with no concession and for every consumer.
* `GenerateAgrees`: what a drained stream adds up to is what `Generate` makes of the
  whole answer: text, calls in order, finish reason. Usage is compared where a chunk
  with a candidate carries it; where none does the Done says unknown, and a blocked
  prompt, an error in `Generate`, is an ordinary Done without a finish reason.
* `CallsReturn`: with a timeout, or once cancelled, a started `Next` and a
  waiting `Close` return. Without a timeout and a cancellation neither does when
  the server is silent.

`google_index`: `chunkEvents` numbers the calls of each chunk from 0, so an answer
with calls in two chunks uses an index again after its End, which
`internal/contract/contract.go` forbids. For this reason google has no
`DrainedConforms`.

**`ollama`**: no tools, tools bound to `python_tag` and `qwen_json_or_xml` models and to
one without a parser; answers with text, native calls with an id and without, calls in the text (split over frames, mixed with native
ones, malformed, fenced), an object that is no call, one that stops before its Done
frame; failure of the request at any point; two closers; cancellation by the parent at any time.

* `EofIsComplete`: `io.EOF` to a disciplined consumer comes after every event of
  the whole answer. This is the race the comment in `Next` describes.
* `FailureSurfaces`: an error of `Chat` is not taken for the end.
* `QuietAfterClose`, `EndIsFinal`: no event after `Close`, an error or the end,
  even from a consumer that goes on, and even though a frame may be in respCh or
  in the hand of `Next` at that time.
* `ImplementsContract`: refinement of `StreamContract`.
* `DrainedConforms`: the rules of the helper, and a finish reason that agrees with the
  calls, for answers whose JSON objects have a `"name"`. A model with tools bound that
  answers with any other object (`{"answer": 42}`) gets it taken for a call
  (`ollama/tool_strategy.go:177`), and the stream starts a call without a name, which
  `internal/contract/contract.go:238` forbids. The hypothesis `ObjectsNamed` is there
  for that reason: TLC finds the property violated without it.
* `GenerateAgrees`: with tools bound, `Generate` finds the same calls and text in
  the whole message as the stream found frame by frame. Three differences are the
  code's and are written into the property: only the stream reports
  `tool_calls` for a turn with calls; markup that does not parse is kept whole
  by the stream, but not by `Generate`; and a native call that came without an id has
  its name for one in the stream and none in `Generate` (`AsStreamed`).
* `ProducerExits`: after `Close` or cancellation the goroutine ends, although
  nobody reads `respCh`.
* `CloseUnblocksNext`: `Close` alone releases a `Next` waiting for the server.

`EofAfterDone` is what `.planning/codebase/CONVENTIONS.md` says; an answer
without a Done frame ends as a plain `io.EOF`, and text withheld for the tool
parser is lost.

**`ollama_status`**: two callers, two calls each, a response of every class of
status with or without Retry-After, every kind of error at every place.

* `TypeOK`: types; a Retry-After that is lifted is never nil, though the status
  beside it may be another call's.
* `UndisturbedIsOwn`: a call whose response nobody stored over is classified by
  that response, and has its Retry-After, an absent one too.
* `SelfEvidentSurvives`: cancellation, deadline and authorization errors are
  reported as such whatever else is stored.

`ollama_status_bleed` needs one caller only: 429 with a Retry-After, then a
request that gets no response. Nothing is stored for it, and `wrapErr` reports a
rate limit with the Retry-After of the first. The comments in `wrapErr` and
`RoundTrip` exclude this.

**`calls`**: all eight adapters with every kind of model they have, timeouts negative,
unset and set, a client with a `Timeout` of its own; a one-turn request with a negative limit, one with
every role and every kind of image, and one with empty system texts before, between and
after others and a limit that 32 bits cannot hold; answers of status 401, 404, 429, 500 and 529, of
status 200 with a base_resp failure, a blocked prompt, and images that are whole,
empty, undecodable or nil; a connection that fails before or in the body, an
answer that does not parse.

* `TypeOK`: types; a timeout of 0 is only left to an ollama client with its own.
* `SentAsMeant`: whatever the caller does to its tools, headers and turns after handing
  them over, every adapter sends what was meant: each turn of user and model once and
  in order, the system texts, the images where the adapter takes them, the tools as
  they were when `WithTools` was called, the limit, the headers given to `New`. The
  property names what the code does otherwise: google drops system turns and keeps the
  system prompt, and cuts the limit to 32 bits (`google/map.go:109`), so that it is kept only below
  2^31; anthropic and minimax join the system texts, in order, and may lose an
  empty one but no other; google and ollama translate a stream's request late and send what the
  turns have become, ollama sends no limit and no `additionalProperties`, volcengine
  takes an unknown role for the user, and ollama and the raw methods of minimax read
  the header map with each request.
* `ReturnedSound`: however the answer, a timer and the caller's cancellation raced, the
  result is right about what happened. Transient and rate-limit errors are failures
  that may pass, authorization and invalid-request errors are ones that last, a call
  is only reported cancelled if its context was, a Retry-After is the response's; an
  unsupported method has sent nothing; a failure told in an answer of status 200 is no
  success; and the images of an answer are handed on in order, all of them. Named
  exceptions: raw minimax calls every status from 400 on transient and gives other
  failures no class, google calls an answer its SDK cannot read an invalid request,
  statuses above 500 outside the list pass unclassified in all but google and ollama,
  and volcengine, google and raw minimax drop Retry-After.
* `CallsReturn`: once its context ended a call returns, and if the caller did not ask
  for no timeout it returns though the vendor never sends anything. Named exceptions:
  raw minimax without a timed client, and ollama with one, whose `Timeout` the code
  does not take over.

`calls_unbounded` restricts the instance to minimax's raw methods: `Embed` and
`GenerateImage` send with `http.DefaultClient` and never read the 60 seconds that
`minimax/options.go:92-93` promises against hangs.

Some sentences of the documents are contradicted by the exceptions above, without
a run of their own: `.planning/codebase/CONVENTIONS.md:110` says that routing is
identical across providers and `:113` that 529 is transient for anthropic and minimax
(`internal/compat` makes it a rate limit); `volcengine/errors.go:14` says that its
routing is that of the others; `openai/image.go:56` says that `GenerateImage` mirrors a
gate of `Embed`, which openai's `Embed` does not have; `internal/compat/timeout.go:5`
promises the default unless the duration is positive, but a negative one is kept.

### Bounds, and why they are enough

* Bodies have at most a handful of chunks or frames, chosen so that each branch
  of the translators is taken and a failure can fall before, between and after
  events of each kind. Neither the loop nor the channels count beyond one.
* Two closers: `Close` is idempotent, so a second one can only find the work of
  the first done, or race it. A third meets the same states.
* `MaxOpens` stops a `past_end` consumer of `SSELoop` and `VolcengineStream` from calling `Next` once so
  many requests were sent (the guard of `NextCall`); it bounds nothing else, and
  a disciplined consumer causes at most two requests, which is proved.
* Nothing bounds the consumer of google: its `Next` after the end changes nothing.
* `MaxCalls = 2` and two callers: the shared fields remember the last response
  only, so one earlier call and one concurrent one produce every mixture of old
  and new status and Retry-After.
* One call, one edit of the caller's data, two requests in `Calls`: adapters keep
  nothing from one call to the next (the status capture of ollama, which does, has a
  module of its own), and an edit is either before or after the adapter reads. The
  answers have one status for each row of the routing tables; `CallsProofs` covers
  all statuses. Timeouts are negative, 0 or 30 because the code only asks for the sign.
* Model values for texts and calls: the translators only pass them on.
* `HalfWord = 16` stands for the 2^31 of `int32`; a limit of 20 is above it and wraps to
  a negative one.
* A finished system stutters in `Finished`; any other state without a successor
  is a deadlock, and TLC finds none.

### Fairness

In the `sse` run: a goroutine that can run does (weak fairness of the steps of a
started `Next`), a `Close` waiting for the mutex gets it in the end however often
`Next` takes it in between (strong fairness: Go's mutex hands itself to a waiter
it starved for a millisecond), and a read whose context is cancelled fails. In the `volcengine` run: the same
for `Next`, and an open or read whose context is cancelled ends. In the `google` run: the same for `Next` and `Close`, and a timer that is
not released expires. In the `ollama` run:
weak fairness for the callback, the reporting and closing steps of the producer,
the steps of `Next`, and a cancelled read. In the `ollama_status` run nothing is fair: its properties
are safety. In the `calls` run a timer that was set fires, and a request or a read
whose context has ended returns; nothing else is fair. Nothing assumes that the server sends
anything, that the consumer calls `Next`, or that anybody closes or cancels.

## 4. Proofs

The theorems about the streams hold for every translator, every set of bodies, every
number of closers and every habit of the consumer. The translator enters as constant
operators with the assumptions stated in the modules (`TranslatorAssumption`;
`BodyAssumption` and `RunAssumption`): types, for ollama that a server sends nothing
after a frame with Done, and that `Run` is the translation of a body frame by
frame. TLC evaluates the assumptions for the real translators in every run.
The two conformance theorems of the SSE readers and of volcengine are about the
adapters' own translators, and about answers the vendors complete; what that adds
is said below. The theorems that compare streams with `Generate` are about the adapters'
own translators as well: google's needs no assumption about the answer, volcengine's that
an index stands for one call (`CallAssumption`), that of the SSE readers the same for
OpenAI chunks and, for Anthropic events, that blocks of text come one after the other
(`OrderAssumption`). None assumes anything of the type of a call. Ollama's assumes nothing
of the answer but that the sets of texts, calls and indexes have what its events say
(`EventAssumption`), and that a call in the text has no id (`IngestAssumption`), since
`decodeFallbackToolCall` reads none; `IdAssumption` says what `NameAsId` is.

`SSELoopProofs`: `TypeCorrect`, `SingleSourceHolds`, `AtMostOneRetryHolds`,
`NoStreamLeakHolds`, `QuietAfterCloseHolds`. None of the properties is inductive:
that content has one source depends on what is in the queue (chunks of a failed
attempt must be gone before the next request) and on `deliveredByte` being set
for every content event delivered. `IInv` adds that an upstream stream is read
only with an empty queue and that no stream but the reader's is open
(`StreamInv`), how many requests were sent in terms of `retried` (`RequestInv`),
and that what is queued, and all content delivered, is of the latest request
(`SourceInv`).

`OllamaStreamProofs`: `TypeCorrect`, `EofIsCompleteHolds`,
`FailureSurfacesHolds`, `QuietAfterCloseHolds`, `EndIsFinalHolds`. The argument
for the end of the stream is in four parts. `FlowInv`: the frames read by the SDK
are those ingested, in the hand of `Next`, in `respCh` and in the callback, in
order, unless a cancelled callback dropped one. `NothingLost`: what was delivered
and what is pending is the translation of the frames ingested. `ProducerInv`:
`errCh` has the error before `respCh` is closed. `ConsumerInv`: past the `select`
`respCh` is closed and drained, so every frame was ingested, and the error and
the context are read before the end is believed. `FinalInv` is what a consumer
that goes on calling finds: the reader closed, or the queue empty and each check
still as it was. TLC checked the parts before they were proved.

`GoogleStreamProofs`: `TypeCorrect`, `ReleasedHolds`, `EndIsFinalHolds`, for every
translator, answer and number of closers. `Released` alone does not say that a
pull only happens in a reader that is not closed; `EndInv` adds that `ending`,
`closed` and a pull in progress agree, from which both the invariant and the
action property follow.

`OllamaStatusProofs`: `TypeCorrect`, `UndisturbedIsOwnHolds`,
`SelfEvidentSurvivesHolds`, for every number of callers and calls and every set of
statuses and headers (`StatusAssumption`). `StageInv` says what each place in a
call implies of its response, its error and its result. `OwnInv` says that the shared fields hold the response of every call that is
past its stores and undisturbed; it is what makes the result right.

`VolcengineStreamProofs`: `TypeCorrect`, `AtMostOneRetryHolds`, `NoStreamLeakHolds`,
`OneDoneHolds`. That the Done comes once does not follow from the flag alone: `DoneInv`
ties `doneEmitted` to a Done in the queue or among the delivered events, never in both
and never two in either. For a consumer that stops at the end `LastInv` adds that once
the Done is made nothing else is queued and the body is at its end, so that no
chunk can follow. `StreamInv` and `RequestInv` are those of the other loop, with the
failed open counted like the failed read.

The classification, in `CallsProofs`: `ContextErrorsKept`, `RetryOnlyFleeting`,
`BlameOnlyLasting`, for every vendor and every failure with any HTTP status. They are lemmas about the routing
tables (`Sound`: limits and faults are disjoint, of statuses that may pass; what is
left is below 500) and give the part of `ReturnedSound` that speaks of `wrapErr`.

**Refinement.** `Refinement` in the four stream modules is `Spec => ImplementsContract`:
what a consumer that stops at the end has got is at each moment a prefix of the
translation of one answer, the end comes only after all of it, and nothing after the
end, an error or `Close`. `TranslationTheorems` has what the four proofs share: the fold
over a body as a function of the number of chunks (`RunExists`, by the least
counterexample, since there is no induction rule to instantiate), that the translation
of some chunks is the beginning of the translation of more, and what taking one event
off a queue does to both. The invariant of each (`TranslationInv`, in
`OllamaStreamProofs` `NothingLost`) is that delivered and queued events together are the
translation of the chunks read so far. Each action is then a step of the abstract stream
or leaves its variables alone. What had to be found out:

* `Source`, `Log` and `Status` map a consumer that goes on after the end to a state that
  does not change: the contract says nothing of it (`EndIsFinal` and `QuietAfterClose`
  do, and are proved on their own).
* In the loop of the SSE readers an answer ends with its first Done, and a retry starts
  the second answer with what the failed one left in the translator
  (`openai/openai.go:105`: `lastFinish` and `usage` are not reset). That this does not
  show is not a fact of the loop: `FreshStartAssumption` in `SSEContract` says that an
  answer brings its own finish reason and usage. TLC evaluates it for every body of
  `MCSSE`.
* For volcengine, the Done is made by the reader; `Waiting` and `Reading` say what the
  translator holds between two attempts and during one.

**Conformance of ollama.** `DrainedConformsHolds`: for bodies of any number of frames,
content of any pieces and any calls. `Sound(evs, n)` is the invariant over the frames of
a body: no event so far breaks a rule, every call that was started has ended, all indexes
are below `n`, the next one to give out. Text keeps it (`TextSound`), the events of one
call move it to `n + 1` (`CallSound`), those of a frame or of a parsed text to the number
of calls behind it (`CallsSound`), and the Done of a sound answer agrees with its calls
(`DoneSound`). The parsers enter by `ParseType` alone: whatever they cut out of a text
without nameless objects is calls and a text. `IngestAssumption` says that the
translator is `ingest`, and what a frame holds. The helper's rules do not depend on what
follows (`PrefixConforms`), so the property is about the whole answer, which a drained
consumer has by `EndedWhole`.

**Conformance of the SSE readers and of volcengine.** `DrainedConformsHolds` in
`SSELoopProofs` and in `VolcengineStreamProofs`: for answers of any length with any
number of parallel calls and blocks. Here the rules of the helper depend on what the
vendor sends, so the theorem needs to say what a complete answer is, and no more:

* `CompleteAnswer` (OpenAI chunks): one choice; each delta of a call is of a call that
  got its id and name; nothing of the choice follows its finish reason; usage comes
  last. Without the second the stream has arguments of a call that never started, which
  `internal/contract/contract.go` forbids; without the third a call is started again
  after its End.
* `CompleteMessage` (Anthropic events): each block starts once and is stopped after
  that, deltas of a tool's input come in between, `message_stop` is last and behind a
  `message_delta` and the stops of all tools; a text is not empty (`anthropic/anthropic.go:162`
  passes an empty delta on, which the helper rejects; the other format's readers skip it).
* `AdapterAssumption`: the translators plugged into the loop are those of the
  adapters, and in the SSE readers usage has a chunk of its own: `chunkEvents` drops
  what else such a chunk has.
* `IndexAssumption`: calls and blocks are counted from 0 on.

Any prefix of such an answer may be what the reader gets, since a read fails at any chunk,
and a `CompleteMessage` without its `message_stop` is one as well (`AnnouncesEnd` is false
for it). TLC evaluates the assumptions for all answers of the runs.

`ConformanceTheorems` takes the rules apart so that they can be kept one event at a
time. `AllowedAt(evs, k)` is what can be told of event `k` from those before it;
`Keeps(evs, opened, ended)` says that all events keep it and which calls are started
and not ended, and which were ended; one lemma for each kind of event moves the two
sets (`StartKeeps`, `ArgsKeeps`, `EndKeeps`, ...). What remains is that nothing follows
the Done. `Follows` ties the events of the first `p` chunks of an answer to the
reader's fields: before the finish reason `toolIndexes` is the set of calls that are
open and nothing has ended, behind it `lastFinish` is set and, if it is `tool_calls`,
nothing is open any more. The Ends are in the order of `sort.Ints`; `SortedExists` is
that a finite set of indexes has such an order. `MsgFollows` does the same for messages:
`blockKinds` has `tool_use` for exactly the tool blocks that were started, those
stopped so far were ended once, and `finish` and `usage` are set once a `message_delta`
was read.

`ConformanceInv` carries this through the loop. What was told (delivered and queued) is
lawful at all times; between two requests it is at rest (`Resting`: no call open for
the consumer, nor in the fields a retry keeps), because a retry is only made when at
most Dones were delivered; during a read it `TellsOf` the chunks read so far; and if all of it is of
the latest request, a Done among it is its last and is there exactly when the end was
announced (`EndTold`). That a body breaks after its Done and a second answer
follows (the `sse_done_last` run) does not contradict it: such a stream is not
`Drained`. `ToolCallsClosed`, which holds for those streams too, is a part of lawfulness.
For volcengine the same lemmas are applied to the whole answer, which a drained
consumer has by `EndInv`, from any state in `Starts`.

**What a stream adds up to.** `GenerateAgreesHolds` in `GoogleStreamProofs`: for every
answer, in whatever chunks it comes. `Generate` sees the whole answer and the stream one
chunk at a time, so both sides are sums over the same pieces and the proof is that each
chunk adds the same to both: its texts to the text (`Joined` of the events, `TextsOf` of
the parts), and for each of its calls the Start, the whole arguments and the End
(`CallsStreamed` and `WholeCall`). `Picked` is the operator both are brought to: a
function of each element that is in a set. `SameSums` compares the two sums, and `Flattened` gives the sum
after each chunk. Finish reason and usage are not sums but the last that was set: `LastSets`
says what a field holds at the end that some elements set, and `Stays` that what no later
chunk sets is kept. `AdapterAssumption` ties the reader to `chunkEvents` of google.

`GenerateAgreesHolds` in `VolcengineStreamProofs`: here the deltas of several calls are
interleaved and belong together by their index, so that no chunk has a whole call. `Adds`
says what is summed instead, for some events, the choices they were made of and their tool
deltas: the texts; the Starts; and on *each* index by itself the arguments. All three are
sums, so they add up over the chunks in any interleaving (`AddsBoth`; `DeltaAdds` for one
delta, `ChoiceAdds`, `ChunkAdds`, `SumsAdd` for the whole answer). `CallsAgree` reads the
calls off the two sums: an index has a Start if it has a delta (`EveryIndexNamed`, from
`CompleteAnswer`), its arguments are the same sequence (`ArgsOnIndex`), and so is its id
and name (`CallOnIndex`), which `Generate` takes from the last delta that has one and the
stream tells with every one. There the two would differ if a vendor gave one index two
calls: `OneCallEach` is the assumption that it does not, and TLC evaluates it for the
bodies of the run. The sums have every call; `OAToolCalls` and `OtherCalls` part them by
type, and the stream has both. The Done has the finish reason of the one choice that has any
(`FinishAdds`) and the usage of the last chunk (`UsageKnown`). `DrainedIsAnswer` is
that all this is what the consumer has, after a failed first attempt too.

`GenerateAgreesHolds` in `SSELoopProofs` has three parts.

* OpenAI chunks (`AnswerReadAgrees`): the sums of volcengine, up to the chunk with the
  usage. The Done is made of that chunk and of `lastFinish`, which by then is the finish
  reason of the only choice that has one.
* Anthropic events (`MessageReadAgrees`): `Generate` sees a list of blocks, the stream
  sees starts and deltas. The arguments of a call are summed by index, as above
  (`MsgAddsUp`), and the calls read off in `MessageAgrees`. The text is different: the
  events have no index for it, so the text of the stream is all text deltas in the order
  in which they came, and that of the answer is the text of one block after the other.
  They agree because blocks do not overlap. `BlockByBlock` says so of what a server
  sends; without it TLC has the two orders differ, and the theorem would be false of the
  code. Only text needs it: the input of parallel tools may interleave. The usage is
  that of the last `message_delta` in both, but for the input tokens.
* The loop (`DrainedInv`): if all that a consumer was given before `io.EOF` is of the latest
  request, it is the *whole* of that answer. That the answer ends with its first Done,
  and that the fields a retry keeps do not matter, come from `RunEnds` and
  `FreshStartAssumption`.

`GenerateAgreesHolds` in `OllamaStreamProofs`: both sides run the same parser, the stream
on the text it held back, `Generate` on the content of the message. `Told(evs, text,
calls)` says what events sum up to (`Sums`): their texts are `text`, their Starts are
those of `calls` on the indexes from 0 on, and the arguments on each index are those of
its one call. Text and calls may follow (`TextTold`, `CallsTold`). `Tells` is the invariant over the
frames, with the content and the native calls of all frames so far: as long as no call
came and there is a parser (`Holding`), the buffer has *all* the content and the events
have none of it; afterwards the buffer is empty and the events have all of it.
`FrameTold` is that a frame keeps it: the frame with the first call pushes the buffer out
before its own content, so no text is out of order. At the Done (`DoneTold`) either
the parser gets the whole content, as in `Generate`, or both sides have the native calls,
or neither side parses: with tools bound, no parser for the stream means none for
`Generate`. Without tools bound that last step is false of the code (`ParseResponse` parses the text
of a message, bound tools or not), which is why the property asks for them.
What is told of native calls is told of `WithIds` of them (`ToldOf`), so the two sides
have different ids: `NativeOrParsed` is that the calls `Generate` returns are all native
or all from the text, and `SameCalls` that the stream has the first under the ids it
gives them (their arguments do not change, `ArgumentsType`) and the second as they are.
`AccumulatedIs` is what a consumer makes of such events and the Done; the number of
calls in its finish reason is only compared with 0, since a response keeps a set of
calls.

**Calls.** `CallsProofs`: `TypeCorrect`, `SentAsMeantHolds`, `ReturnedSoundHolds`, and
`RequestSound` about the eight request translators for dialogs, image lists and tool
lists of any length. The model builds requests from two operators, `Kept` (the elements
in a set) and `Each` (a function of each element), so that a handful of lemmas
(`KeptTwice`, `KeptConcat`, `EachAppend`, ...; each proved along the sequence with
`BuiltUp`) is all the proof of a vendor needs. `IInv` is the two properties and the types,
with `Coherent`, which says what each place in a call implies of its request, its timer
and its answer: a result can only be sound if the call that returns it is the one that was
sent. The system texts that anthropic and minimax join are compared by those that say something:
`JoinedSound` goes along the join and shows that each step keeps these, whatever stands
before it. `Int32Exact` is that the conversion leaves a limit below `HalfWord` alone, for every positive
`HalfWord` (`HalfWordAssumption`). Image kinds form a set and not strings: no prover can show that a literal is in
`STRING`. The proof corrected the model in two places, the type of an image item and the
keywords of a schema.

Every safety property of the passing runs is proved. Model-checked only, with the reason:

* the liveness properties: TLAPS does not prove liveness under fairness;
* the six violations, which are counterexamples.

## 5. Not modelled

Not modelled, with the reason:

* Values that are copied from one field to another: temperature, MIME types, sizes,
  seeds and other knobs of image requests, names of models, the vectors of an embedding
  (openai's `Embed` takes them in the order of the answer and does not look at the
  index beside them), the raw field of a response.
* The inside of a tool's schema: `toToolProperty` of ollama rebuilds it property by
  property; the model keeps only which of its top-level keywords survive. That all
  copies of a tool share the bytes of `Parameters` is not in the model either, no
  code writes them.
* What `New` reads once: validation of options, environment variables, base URLs,
  regions, and which model name is of which kind. The vision flag of a capability
  gates nothing.
* The SDKs, the HTTP transport and the package `llm-agent-contract` are external and
  modelled by how the adapters use them. Retries of the SDKs are switched off or
  hidden from the adapter.
* The harness in `internal/contract` around the rules it asserts, tests, fixtures,
  scripts and docs: no run-time behaviour.
