------------------------------ MODULE Requests ------------------------------
(***************************************************************************)
(* toSDKRequest of the eight adapters: what of an llm.Request reaches the  *)
(* vendor.  A wire request has the system texts that travel apart from the *)
(* dialog, the dialog, the tools and the limit of output tokens.           *)
(***************************************************************************)
EXTENDS Integers, Selections

CONSTANTS
  Vendors,  \* the adapters of this instance
  NoText,   \* the empty text
  HalfWord  \* int32 ranges from -HalfWord to HalfWord - 1; 2^31 in the code

AllVendors == {"openai", "deepseek", "kimi", "anthropic", "minimax", "google", "volcengine", "ollama"}
ASSUME VendorAssumption == Vendors \subseteq AllVendors
ASSUME NoTextAssumption == NoText \in STRING
ASSUME HalfWordAssumption == HalfWord \in Nat \ {0}

-----------------------------------------------------------------------------
(* Parts of a turn.  An image is bytes, a data URI, another URL, a data    *)
(* URI that is broken or whose payload is undecodable, or nothing.         *)

UsableImages == {"bytes", "data", "url"}
ImageKinds == UsableImages \cup {"broken", "undecodable", "nothing"}

TextPart(text) == [part |-> "text", of |-> text]
ImagePart(image) == [part |-> "image", of |-> image]

PlainContent(turn) == <<TextPart(turn.text)>>
\* With images, the text is left out if empty.
LeadingText(turn) == IF turn.text = NoText THEN <<>> ELSE <<TextPart(turn.text)>>

\* An image without bytes and URL is sent with an empty URL.
UserContentParts(turn) ==
  IF turn.images = <<>> THEN PlainContent(turn)
  ELSE LeadingText(turn) \o Mapped(ImagePart, turn.images)

\* An image without bytes and URL is skipped, a broken data URI an empty image.
SplitDataURI(image) == IF image = "broken" THEN "nothing" ELSE image
DecodeDataURI(image) == IF image \in {"broken", "undecodable"} THEN "nothing" ELSE image
Given(images) == Where(images, LAMBDA image : image # "nothing")

UserContentBlocks(turn) ==
  IF turn.images = <<>> THEN PlainContent(turn)
  ELSE LeadingText(turn) \o Mapped(LAMBDA i : ImagePart(SplitDataURI(i)), Given(turn.images))
UserParts(turn) ==
  IF turn.images = <<>> THEN PlainContent(turn)
  ELSE LeadingText(turn) \o Mapped(LAMBDA i : ImagePart(DecodeDataURI(i)), Given(turn.images))

-----------------------------------------------------------------------------
(* The dialog.                                                             *)

Said(text) == IF text = NoText THEN <<>> ELSE <<text>>
Prompted(req) == Mapped(LAMBDA t : [role |-> "system", parts |-> <<TextPart(t)>>],
                        Said(req.systemPrompt))
WithParts(turn, parts) == [role |-> turn.role, parts |-> parts]

\* The turns of some roles, the user's ones with their images if the adapter
\* reads them; turns of other roles are dropped.
TurnsBy(turns, roles) == Where(turns, LAMBDA turn : turn.role \in roles)
Plain(turns, roles) ==
  Mapped(LAMBDA turn : WithParts(turn, PlainContent(turn)), TurnsBy(turns, roles))
UserContent(family, turn) ==
  CASE turn.role # "user" -> PlainContent(turn)
    [] turn.role = "user" /\ family = "openai" -> UserContentParts(turn)
    [] OTHER -> UserContentBlocks(turn)
Illustrated(family, turns, roles) ==
  Mapped(LAMBDA turn : WithParts(turn, UserContent(family, turn)), TurnsBy(turns, roles))

\* google gives the model's own turns their images back.
Contents(req) ==
  Mapped(LAMBDA turn : WithParts(turn, UserParts(turn)), TurnsBy(req.turns, {"user", "assistant"}))

\* Every turn is sent, of the user if its role is not known.
ArkRole(turn) ==
  [turn EXCEPT !.role = IF @ \in {"user", "assistant", "system", "tool"} THEN @ ELSE "user"]
ArkMessages(req) ==
  Prompted(req) \o Mapped(LAMBDA turn : WithParts(ArkRole(turn), PlainContent(turn)), req.turns)

\* Every turn is sent as it is.
OllamaMessages(req) ==
  Prompted(req) \o Mapped(LAMBDA turn : WithParts(turn, PlainContent(turn)), req.turns)

\* System turns join the system prompt, a blank line before each; a text is the
\* sequence of its paragraphs, the empty one has none. Where nothing stands yet,
\* the turn's text is taken for the prompt, and an empty one leaves no trace.
Paragraph(joined, text) == IF joined = <<>> THEN Said(text) ELSE Append(joined, text)
Joined(first, texts) ==
  LET joined[k \in 0..Len(texts)] ==
        IF k = 0 THEN Said(first) ELSE Paragraph(joined[k - 1], texts[k])
  IN  joined
LiftedSystem(req) ==
  LET texts == Mapped(LAMBDA turn : turn.text, TurnsBy(req.turns, {"system"}))
  IN  Joined(req.systemPrompt, texts)[Len(texts)]

-----------------------------------------------------------------------------
(* Tools.  A tool has a name and the keywords of its schema.               *)

\* The schema of anthropic keeps what it has no field for as extra fields, the
\* one of ollama has no place for it.
OllamaKeywords == {"type", "properties", "required", "items", "$defs"}
ToToolInputSchema(tool) == [tool EXCEPT !.keywords = @ \cup {"type"}]
ToAPITool(tool) == [tool EXCEPT !.keywords = (@ \cap OllamaKeywords) \cup {"type"}]

-----------------------------------------------------------------------------
(* The request of each vendor.  A limit that is not positive is not sent,  *)
(* which is 0 here; the API of anthropic needs one, ollama is told none,   *)
(* and google's is cut to 32 bits.                                         *)

Wire(system, dialog, tools, limit) ==
  [system |-> system, dialog |-> dialog, tools |-> tools, limit |-> limit]
Dialogue == {"user", "assistant"}
AndSystem == Dialogue \cup {"system"}
Limit(req) == IF req.limit > 0 THEN req.limit ELSE 0
AnthropicLimit(limit) == IF limit > 0 THEN limit ELSE 1024
Int32(n) == ((n + HalfWord) % (2 * HalfWord)) - HalfWord

OpenAIRequest(tools, req) ==
  Wire(<<>>, Prompted(req) \o Illustrated("openai", req.turns, AndSystem), tools, Limit(req))
KimiRequest(tools, req) ==
  Wire(<<>>, Prompted(req) \o Illustrated("openai", req.turns, AndSystem), tools, Limit(req))
DeepSeekRequest(tools, req) ==
  Wire(<<>>, Prompted(req) \o Plain(req.turns, AndSystem), tools, Limit(req))
AnthropicRequest(tools, req) ==
  Wire(LiftedSystem(req), Illustrated("anthropic", req.turns, Dialogue),
       Mapped(ToToolInputSchema, tools), AnthropicLimit(req.limit))
MiniMaxRequest(tools, req) ==
  Wire(LiftedSystem(req), Plain(req.turns, Dialogue),
       Mapped(ToToolInputSchema, tools), AnthropicLimit(req.limit))
GoogleRequest(tools, req) ==
  Wire(Said(req.systemPrompt), Contents(req), tools, Int32(Limit(req)))
ArkRequest(tools, req) == Wire(<<>>, ArkMessages(req), tools, Limit(req))
OllamaRequest(tools, req) == Wire(<<>>, OllamaMessages(req), Mapped(ToAPITool, tools), 0)

ToSDKRequest(vendor, tools, req) ==
  CASE vendor = "openai" -> OpenAIRequest(tools, req)
    [] vendor = "kimi" -> KimiRequest(tools, req)
    [] vendor = "deepseek" -> DeepSeekRequest(tools, req)
    [] vendor = "anthropic" -> AnthropicRequest(tools, req)
    [] vendor = "minimax" -> MiniMaxRequest(tools, req)
    [] vendor = "google" -> GoogleRequest(tools, req)
    [] vendor = "volcengine" -> ArkRequest(tools, req)
    [] OTHER -> OllamaRequest(tools, req)

-----------------------------------------------------------------------------
(* What a caller may expect of any adapter.                                *)

TextOf(parts) ==
  LET texts == Where(parts, LAMBDA p : p.part = "text")
  IN  IF texts = <<>> THEN NoText ELSE texts[1].of
ImagesOf(parts) == Mapped(LAMBDA p : p.of, Where(parts, LAMBDA p : p.part = "image"))
Usable(images) == Where(images, LAMBDA image : image \in UsableImages)

\* What the user and the model said, in the caller's words and the vendor's; to
\* volcengine a role it does not know is a user.
HeardAs(vendor, role) ==
  IF vendor = "volcengine" /\ role \notin AndSystem \cup {"tool"} THEN "user" ELSE role
SaidIn(vendor, req) ==
  Mapped(LAMBDA turn : <<HeardAs(vendor, turn.role), turn.text>>,
         Where(req.turns, LAMBDA turn : HeardAs(vendor, turn.role) \in Dialogue))
SaidOn(wire) ==
  Mapped(LAMBDA turn : <<turn.role, TextOf(turn.parts)>>,
         Where(wire.dialog, LAMBDA turn : turn.role \in Dialogue))

SystemIn(req) ==
  Said(req.systemPrompt) \o Mapped(LAMBDA turn : turn.text, TurnsBy(req.turns, {"system"}))
SystemOn(wire) ==
  wire.system \o Mapped(LAMBDA turn : TextOf(turn.parts),
                        Where(wire.dialog, LAMBDA turn : turn.role = "system"))

\* The texts that say something.
Worded(texts) == Where(texts, LAMBDA text : text # NoText)

UserImagesIn(req) == Mapped(LAMBDA turn : Usable(turn.images), TurnsBy(req.turns, {"user"}))
UserImagesOn(wire) ==
  Mapped(LAMBDA turn : Usable(ImagesOf(turn.parts)),
         Where(wire.dialog, LAMBDA turn : turn.role = "user"))
=============================================================================
