------------------------------- MODULE Calls -------------------------------
(***************************************************************************)
(* One call of an adapter: New and its timeout, WithTools, then Generate,  *)
(* Embed or GenerateImage from the gate to the result, or Stream up to its *)
(* first request (what follows is the stream modules').                    *)
(*                                                                         *)
(* Processes: the caller, who may edit its own tools, header map and turns *)
(* after handing them over, and cancel; the timers; the vendor, which may  *)
(* answer, fail or stay silent at any point.                               *)
(***************************************************************************)
EXTENDS Requests, ErrorMap, FiniteSets

CONSTANTS
  Configs,      \* options of New: vendor, kind of model, timeout, http.Client
  Asked,        \* requests a caller may make
  GivenTools, EditedTools,  \* tools before and after the caller's edit
  EditedText,   \* what an edit makes of the last turn
  Replies       \* responses: status, headers, base_resp code, block, images

Models == {"chat", "embed", "image", "imagen"}
Edits == {"none", "tools", "headers", "turns"}

ASSUME ConfigAssumption ==
  Configs \subseteq [vendor : Vendors, model : Models, timeout : {-1, 0, 30},
                     client : {"none", "timed"}]

\* A turn has a role, which may be any text, and a tool the keywords of its schema.
ATurn == [role : STRING, text : STRING, images : Seq(ImageKinds)]
ATool == [name : STRING, keywords : SUBSET STRING]
ASSUME AskedAssumption ==
  /\ Asked \subseteq [systemPrompt : STRING, turns : Seq(ATurn), limit : Int]
  /\ EditedText \in STRING
  /\ GivenTools \in Seq(ATool) /\ EditedTools \in Seq(ATool)

\* A nil item holds nothing.
Item ==
  {i \in [nil : BOOLEAN, b64 : {"none", "good", "bad"}, url : BOOLEAN] :
     i.nil => i.b64 = "none" /\ ~i.url}
ASSUME ReplyAssumption ==
  Replies \subseteq [status : 200..599, retryAfter : BOOLEAN, quota : BOOLEAN, code : Nat,
                     blocked : BOOLEAN, items : Seq(Item)]

VARIABLES
  cfg,       \* the options given to New
  timeout,   \* cfg.timeout as New keeps it, in seconds
  edited,    \* what the caller has edited since New
  tools,     \* the adapter's tools
  boundAs,   \* history: the tools as they were when WithTools was called
  op,        \* the method called
  asked,     \* history: the request as it was when the method was called
  pc,        \* where the call is
  built,     \* the request for the vendor
  ctxErr,    \* ctx.Err(): what ended the context first
  reply,     \* the response whose body is being read
  failure,   \* what the call failed of
  got        \* what the call returned

callers == <<cfg, timeout, edited, tools, boundAs>>
vars == <<callers, op, asked, pc, built, ctxErr, reply, failure, got>>

vendor == cfg.vendor

-----------------------------------------------------------------------------
(* New: timeouts and capabilities.                                         *)

DefaultUnset(d) == d
DefaultTimeout(d) == IF d = 0 THEN 60 ELSE d

\* ollama leaves the default out for a client with a Timeout of its own.
KeptTimeout(c) ==
  IF c.vendor = "ollama" /\ c.client = "timed" THEN c.timeout ELSE DefaultTimeout(c.timeout)

\* What a kind of model is good for.
OpenAICapabilities(model) ==
  {"tools"} \cup (IF model = "embed" THEN {"embeddings"} ELSE {})
            \cup (IF model = "image" THEN {"images"} ELSE {})
OneCapability(model) ==
  CASE model = "chat" -> {"tools"} [] model = "embed" -> {"embeddings"} [] OTHER -> {"images"}
OllamaCapabilities(model) ==
  CASE model = "chat" -> {"tools"} [] model = "embed" -> {"embeddings"} [] OTHER -> {}
Capabilities(c) ==
  CASE c.vendor = "openai" -> OpenAICapabilities(c.model)
    [] c.vendor \in {"minimax", "volcengine", "google"} -> OneCapability(c.model)
    [] c.vendor = "ollama" -> OllamaCapabilities(c.model)
    [] OTHER -> {"tools"}

Ops(v) ==
  {"Generate", "Stream"}
    \cup (IF v \in {"openai", "minimax", "google", "volcengine"} THEN {"Embed", "GenerateImage"} ELSE {})
    \cup (IF v = "ollama" THEN {"Embed"} ELSE {})

\* The capability a method asks for before it does anything; openai's Embed
\* leaves it to the vendor.
Needs(v, method) ==
  CASE method = "Embed" /\ v # "openai" -> {"embeddings"}
    [] method = "GenerateImage" -> {"images"}
    [] method = "WithTools" /\ v = "ollama" -> {"tools"}
    [] OTHER -> {}
Supported(method) == Needs(vendor, method) \subseteq Capabilities(cfg)

\* Methods of minimax that bypass the SDK.
Raw(method) == vendor = "minimax" /\ method \in {"Embed", "GenerateImage"}

\* A deadline given to chats only.
TimedInChats(method) == timeout > 0 /\ method \in {"Generate", "Stream"}
\* Whether any timer runs over a request.  The raw methods have only the one of
\* a caller's client; the one of a client given to ollama is not taken over.
Timed(method) ==
  CASE Raw(method) -> cfg.client = "timed"
    [] vendor = "ollama" -> timeout > 0
    [] OTHER -> timeout > 0 \/ cfg.client = "timed"

-----------------------------------------------------------------------------
(* What belongs to the caller, and what the adapter takes of it.           *)

OwnTools == IF edited = "tools" THEN EditedTools ELSE GivenTools
OwnHeaders == IF edited = "headers" THEN "edited" ELSE "given"
Overwritten(req) ==
  [req EXCEPT !.turns[Len(req.turns)].text = EditedText]
OwnRequest(req) == IF edited = "turns" THEN Overwritten(req) ELSE req

ToolsOfCaller == IF tools = <<>> THEN <<>> ELSE OwnTools
\* WithTools copied the slice.
ToolsInUse == tools

\* ollama's transport and minimax's raw methods read the map given to New with
\* each request, the others took it over there.
SharesHeaders(method) == vendor = "ollama" \/ Raw(method)
HeadersFor(method) == IF SharesHeaders(method) THEN OwnHeaders ELSE "given"

\* google translates a stream's request in the first Next, ollama in a goroutine
\* that Stream starts; the others in Stream itself.
TranslatesLate == vendor \in {"google", "ollama"}

IsChat(method) == method \in {"Generate", "Stream"}
Build(method, req) ==
  [headers |-> HeadersFor(method),
   body    |-> IF IsChat(method) THEN <<ToSDKRequest(vendor, ToolsInUse, req)>> ELSE <<>>]
NotBuilt == [headers |-> "given", body |-> <<>>]

-----------------------------------------------------------------------------
(* Results.                                                                *)

\* Images of an answer.  openai and imagen keep an item that holds nothing of
\* use as an empty image, volcengine fails of one it cannot decode, a gemini part
\* without data is no image.
SDKImage(item) ==
  IF item.b64 = "good" THEN "bytes" ELSE IF item.url THEN "url" ELSE "empty"
ArkImage(item) ==
  CASE item.b64 # "none" -> "bytes" [] item.b64 = "none" /\ item.url -> "url" [] OTHER -> "empty"
BytesImage(item) == IF item.b64 = "good" THEN "bytes" ELSE "empty"
Present(items) == Where(items, LAMBDA item : ~item.nil)
ImagesFrom(items) ==
  CASE vendor = "openai" -> Mapped(SDKImage, items)
    [] vendor = "volcengine" -> Mapped(ArkImage, Present(items))
    [] vendor = "google" /\ cfg.model = "imagen" -> Mapped(BytesImage, Present(items))
    [] vendor = "google" /\ cfg.model # "imagen" ->
         Mapped(BytesImage, Where(items, LAMBDA item : item.b64 = "good"))
    [] OTHER -> Mapped(LAMBDA item : "url", Where(items, LAMBDA item : item.url))

\* A failure told by an answer of status 200.
Refusals(r) ==
  IF Raw(op) /\ r.code # 0 THEN {CodeFailure(r.code)}
  ELSE IF vendor = "google" /\ op # "Embed" /\ r.blocked
            /\ (op = "GenerateImage" => cfg.model # "imagen")
       THEN {Failure("blocked")}
  ELSE IF vendor = "volcengine" /\ op = "GenerateImage"
            /\ \E item \in ToSet(Present(r.items)) : item.b64 = "bad"
       THEN {Failure("undecodable")}
  ELSE {}
Failures(r) == IF r.status >= 400 THEN {StatusFailure(r)} ELSE Refusals(r)

Classified(f) ==
  CASE f.kind \in {"blocked", "undecodable"} -> Error("invalid")
    [] f.kind \notin {"blocked", "undecodable"} /\ Raw(op) -> PostJSONError(f)
    [] OTHER -> WrapErr(vendor, f)

Answer(images) == [class |-> "ok", images |-> images]
Problem(f) == [class |-> "error", error |-> Classified(f)]
Nothing == [class |-> "none"]

-----------------------------------------------------------------------------

Init ==
  /\ cfg \in Configs
  /\ timeout = KeptTimeout(cfg)
  /\ edited = "none"
  /\ tools = <<>> /\ boundAs = <<>>
  /\ op = "none"
  /\ asked \in Asked
  /\ pc = "idle"
  /\ built = NotBuilt
  /\ ctxErr = "none"
  /\ reply = <<>>
  /\ failure = <<>>
  /\ got = Nothing

(* The caller.                                                             *)

\* Data handed over is the caller's to reuse; once the request is built nothing
\* of it is read.
Edit ==
  /\ pc \in {"idle", "opened"}
  /\ edited = "none"
  /\ edited' \in Edits \ {"none"}
  /\ UNCHANGED <<cfg, timeout, tools, boundAs, op, asked, pc, built, ctxErr, reply, failure, got>>

\* A copy of the adapter with tools; here it takes the place of the first one.
WithTools ==
  /\ pc = "idle"
  /\ boundAs = <<>>
  /\ Supported("WithTools")
  /\ tools' = OwnTools
  /\ boundAs' = OwnTools
  /\ UNCHANGED <<cfg, timeout, edited, op, asked, pc, built, ctxErr, reply, failure, got>>

Unsupported(method) ==
  /\ pc = "idle"
  /\ ~Supported(method)
  /\ op' = method
  /\ pc' = "returned"
  /\ got' = [class |-> "error", error |-> Error("unsupported")]
  /\ UNCHANGED <<callers, asked, built, ctxErr, reply, failure>>

\* No texts: the answer needs no request.
EmbedNothing ==
  /\ pc = "idle"
  /\ "Embed" \in Ops(vendor) /\ Supported("Embed")
  /\ op' = "Embed"
  /\ pc' = "returned"
  /\ got' = Answer(<<>>)
  /\ UNCHANGED <<callers, asked, built, ctxErr, reply, failure>>

\* These three build the request and send it.
Send(method) ==
  /\ pc = "idle"
  /\ method \in Ops(vendor) /\ Supported(method)
  /\ op' = method
  /\ asked' = OwnRequest(asked)
  /\ built' = Build(method, OwnRequest(asked))
  /\ pc' = "sent"
  /\ UNCHANGED <<callers, ctxErr, reply, failure, got>>
Generate == Send("Generate")
Embed == Send("Embed")
GenerateImage == Send("GenerateImage")

\* Stream returns a reader and sends nothing.
Stream ==
  /\ pc = "idle"
  /\ op' = "Stream"
  /\ asked' = OwnRequest(asked)
  /\ built' = IF TranslatesLate THEN built ELSE Build("Stream", OwnRequest(asked))
  /\ pc' = "opened"
  /\ UNCHANGED <<callers, ctxErr, reply, failure, got>>

\* The first request of a reader, in its first Next or in ollama's goroutine.
OpenStream ==
  /\ pc = "opened"
  /\ built' = IF TranslatesLate THEN Build("Stream", OwnRequest(asked)) ELSE built
  /\ pc' = "streaming"
  /\ UNCHANGED <<callers, op, asked, ctxErr, reply, failure, got>>

InFlight == pc \in {"sent", "reading"}

\* The context given to the call ends, by its owner or at its own deadline.
CallerEnds(err) ==
  /\ InFlight /\ ctxErr = "none"
  /\ ctxErr' = err
  /\ UNCHANGED <<callers, op, asked, pc, built, reply, failure, got>>

\* A timer of New's timeout or of the http.Client.
TimerFires ==
  /\ InFlight /\ ctxErr = "none"
  /\ Timed(op)
  /\ ctxErr' = "deadline"
  /\ UNCHANGED <<callers, op, asked, pc, built, reply, failure, got>>

(* The vendor and the way back.                                            *)

Respond(r) ==
  /\ pc = "sent"
  /\ reply' = <<r>>
  /\ pc' = "reading"
  /\ UNCHANGED <<callers, op, asked, built, ctxErr, failure, got>>

ReturnProblem(f) ==
  /\ failure' = <<f>>
  /\ got' = Problem(f)
  /\ pc' = "returned"
  /\ UNCHANGED <<callers, op, asked, built, ctxErr, reply>>

\* A request or the read of a body ends with its context.
EndsWithContext ==
  /\ InFlight /\ ctxErr # "none"
  /\ ReturnProblem(Failure(ctxErr))

\* The connection fails before the response or during the body, or the body is
\* not what the SDK expects.  ollama has the status from its transport by then.
Breaks ==
  \/ pc = "sent" /\ ReturnProblem(Failure("net"))
  \/ /\ pc = "reading"
     /\ vendor = "ollama" => reply[1].status < 400
     /\ \E kind \in {"net", "garbled"} : ReturnProblem(Failure(kind))

ReadFailure ==
  /\ pc = "reading"
  /\ \E f \in Failures(reply[1]) : ReturnProblem(f)

ReadAnswer ==
  /\ pc = "reading"
  /\ Failures(reply[1]) = {}
  /\ got' = Answer(IF op = "GenerateImage" THEN ImagesFrom(reply[1].items) ELSE <<>>)
  /\ pc' = "returned"
  /\ UNCHANGED <<callers, op, asked, built, ctxErr, reply, failure>>

Finished == pc \in {"returned", "streaming"} /\ UNCHANGED vars

Next ==
  \/ Edit \/ WithTools
  \/ \E method \in Ops(vendor) \cup {"WithTools"} : Unsupported(method)
  \/ Generate \/ Stream \/ OpenStream \/ Embed \/ EmbedNothing \/ GenerateImage
  \/ \E err \in {"canceled", "deadline"} : CallerEnds(err)
  \/ TimerFires \/ EndsWithContext \/ Breaks
  \/ \E r \in Replies : Respond(r)
  \/ ReadFailure \/ ReadAnswer
  \/ Finished

Spec == Init /\ [][Next]_vars

(* What is fair: a timer that was set fires, and a request or read whose   *)
(* context has ended returns.  The vendor may stay silent for ever.        *)
FairSpec == Spec /\ WF_vars(TimerFires) /\ WF_vars(EndsWithContext)

-----------------------------------------------------------------------------
(* Properties.                                                             *)

Error_ == [class : Classes, retryAfter : BOOLEAN, quota : BOOLEAN]
Images == Seq({"bytes", "url", "empty"})

\* Types; no timeout of New is 0 but that of an ollama client with its own.
TypeOK ==
  /\ cfg \in Configs
  /\ timeout \in {-1, 30, 60} \/ (timeout = 0 /\ vendor = "ollama" /\ cfg.client = "timed")
  /\ edited \in Edits
  /\ tools \in {<<>>, GivenTools, EditedTools} /\ boundAs \in {<<>>, GivenTools, EditedTools}
  /\ op \in {"none", "WithTools"} \cup Ops(vendor)
  /\ asked \in Asked \cup {Overwritten(req) : req \in Asked}
  /\ pc \in {"idle", "opened", "streaming", "sent", "reading", "returned"}
  /\ built.headers \in {"given", "edited"} /\ Len(built.body) <= 1
  /\ ctxErr \in {"none", "canceled", "deadline"}
  /\ reply = <<>> \/ reply[1] \in Replies
  /\ got.class = "error" => got.error \in Error_
  /\ got.class = "ok" => got.images \in Images

\* The request as the method's caller meant it, or for the two late translators
\* as the caller had overwritten it since.
Meant == {asked} \cup (IF op = "Stream" /\ TranslatesLate THEN {OwnRequest(asked)} ELSE {})

\* What is built for the vendor is what the caller asked for, whatever it does
\* to its own data afterwards: every turn of user and model once and in order,
\* images where the adapter takes them, the system texts, the tools as they were
\* bound, the limit, the headers of New.  The exceptions are the code's: google is
\* sent no system turns and a limit that 32 bits may cut, anthropic and minimax
\* join the system texts, where an empty one may disappear but no other.
SaysWhatWasMeant(wire) ==
  \E req \in Meant :
    /\ SaidOn(wire) = SaidIn(vendor, req)
    /\ CASE vendor = "google" -> SystemOn(wire) = Said(req.systemPrompt)
         [] vendor \in {"anthropic", "minimax"} -> Worded(SystemOn(wire)) = Worded(SystemIn(req))
         [] OTHER -> SystemOn(wire) = SystemIn(req)
    /\ IF vendor \in {"openai", "kimi", "anthropic", "google"}
       THEN UserImagesOn(wire) = UserImagesIn(req)
       ELSE \A images \in ToSet(UserImagesOn(wire)) : images = <<>>
    /\ (/\ req.limit > 0 /\ vendor # "ollama"
        /\ vendor = "google" => req.limit < HalfWord) => wire.limit = req.limit
OffersBoundTools(wire) ==
  /\ Mapped(LAMBDA tool : tool.name, wire.tools) = Mapped(LAMBDA tool : tool.name, boundAs)
  /\ \A k \in DOMAIN boundAs :
       (IF vendor = "ollama" THEN boundAs[k].keywords \cap OllamaKeywords ELSE boundAs[k].keywords)
         \subseteq wire.tools[k].keywords

SentAsMeant ==
  /\ \A k \in DOMAIN built.body : SaysWhatWasMeant(built.body[k]) /\ OffersBoundTools(built.body[k])
  /\ built.headers = "given" \/ vendor = "ollama" \/ Raw(op)

\* The images of the vendor's answer are handed on, all of them and in order, as
\* bytes where it has them and by URL otherwise; empty ones come on top.
ImagesHandedOn(images, items) ==
  LET usable == Where(items, LAMBDA item :
        ~item.nil /\ ((vendor # "minimax" /\ item.b64 = "good") \/ (vendor # "google" /\ item.url)))
  IN  Where(images, LAMBDA i : i # "empty")
        = Mapped(LAMBDA item : IF vendor # "minimax" /\ item.b64 = "good" THEN "bytes" ELSE "url", usable)

\* The advice a caller gets is right about what happened, however the answer,
\* the timer and the caller's cancellation raced: worth another try only if it
\* may pass, a fault of the caller only if it is one, and an answer only if there
\* was one.  The raw methods of minimax call every status transient, and an
\* answer google's SDK cannot read is called an invalid request.
AdviceIsRight(f, e) ==
  /\ e.class = "canceled" => ctxErr = "canceled"
  /\ e.class \in {"transient", "ratelimit"} => Fleeting(f) \/ (Raw(op) /\ f.kind = "status")
  /\ e.class \in {"auth", "invalid"} => Lasting(f) \/ (vendor = "google" /\ f.kind = "garbled")
  /\ e.class = "plain" =>
       \/ f.kind = "garbled"
       \/ Raw(op)
       \/ f.kind = "status" /\ f.status \in 501..599 /\ vendor \notin {"google", "ollama"}
  /\ e.retryAfter => reply # <<>> /\ reply[1].retryAfter
  /\ (f.kind = "status" /\ f.status = 429 /\ f.retryAfter)
       => e.retryAfter \/ vendor \in {"volcengine", "google"} \/ Raw(op)

ReturnedSound ==
  pc = "returned" =>
    /\ (got.class = "error" /\ failure # <<>>) => AdviceIsRight(failure[1], got.error)
    /\ (got.class = "error" /\ failure = <<>>) => built = NotBuilt
    /\ (got.class = "ok" /\ reply # <<>>) =>
         /\ reply[1].status < 400
         /\ Raw(op) => reply[1].code = 0
         /\ op = "GenerateImage" => ImagesHandedOn(got.images, reply[1].items)

\* A call returns though the vendor is silent, before the response or in the
\* middle of it: with its context, and without one by a timer, unless the caller
\* asked for none.  No timer runs over the raw methods of minimax without a
\* timed client, nor over ollama with one.
CallsReturn ==
  /\ InFlight /\ ctxErr # "none" ~> pc = "returned"
  /\ (/\ InFlight /\ cfg.timeout >= 0
      /\ ~(Raw(op) /\ cfg.client # "timed")
      /\ ~(vendor = "ollama" /\ cfg.client = "timed" /\ cfg.timeout = 0)) ~> pc = "returned"

\* "default 60s request timeout when caller is silent. Guards against indefinite
\* hangs on idle HTTP connections." (minimax/options.go)
NeverHangs == InFlight /\ cfg.timeout >= 0 ~> pc = "returned"
=============================================================================
