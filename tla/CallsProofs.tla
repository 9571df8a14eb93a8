---------------------------- MODULE CallsProofs ----------------------------
(***************************************************************************)
(* The calls of the eight adapters for every configuration, request, list  *)
(* of tools and answer: types, what is sent, and what is returned.         *)
(***************************************************************************)
EXTENDS Calls, TranslationTheorems

-----------------------------------------------------------------------------
(* The classification of ErrorMap for every failure an SDK can report,     *)
(* whatever the status: what TLC's runs show for a few statuses.           *)

Kinds == {"canceled", "deadline", "status", "net", "garbled"}
AnyFailure ==
  {f \in [kind : Kinds, status : 0..599, code : Nat, retryAfter : BOOLEAN, quota : BOOLEAN] :
     f.kind = "status" => f.status >= 400}

\* The routing of a vendor is one of five tables.
LEMMA RoutingCases ==
  ASSUME NEW v
  PROVE  Routing(v) \in {OpenAIRouting, AnthropicRouting, ArkRouting, GoogleRouting, OllamaRouting}
  BY DEF Routing

\* A routing table gives the statuses of a rate limit or a transient error to
\* failures that may pass, and the statuses of an invalid request to those that
\* last; only google's names an error it knows nothing of.
Sound(routing) ==
  /\ \A s \in routing.limits \cup routing.faults : s \in Nat /\ (s = 429 \/ s >= 500)
  /\ \A s \in routing.rest : s \in 0..499 /\ s \notin {401, 403, 429}
  /\ 429 \in routing.limits /\ routing.limits \cap routing.faults = {}
  /\ routing.unknown \in {"plain", "invalid"}
LEMMA RoutingSound ==
  ASSUME NEW v
  PROVE  Sound(Routing(v))
<1> USE DEF Sound, Routed4xx
<1>1. Sound(OpenAIRouting)
  BY DEF OpenAIRouting
<1>2. Sound(AnthropicRouting)
  BY DEF AnthropicRouting
<1>3. Sound(ArkRouting)
  BY DEF ArkRouting
<1>4. Sound(GoogleRouting)
  BY DEF GoogleRouting
<1>5. Sound(OllamaRouting)
  BY DEF OllamaRouting
<1> HIDE DEF Sound
<1> QED
  BY <1>1, <1>2, <1>3, <1>4, <1>5, RoutingCases

\* What is left of a failure that is no status.
LEMMA WithoutStatus ==
  ASSUME NEW v, NEW f \in AnyFailure, f.kind # "status"
  PROVE  WrapErr(v, f) =
           CASE f.kind = "canceled" -> Error("canceled")
             [] f.kind \in {"deadline", "net"} -> Error("transient")
             [] OTHER -> Error(Routing(v).unknown)
  BY DEF WrapErr, StatusFirst, NetErrors, AnyFailure, Kinds

\* What is told of a status.
LEMMA OfStatus ==
  ASSUME NEW v, NEW f \in AnyFailure, f.kind = "status"
  PROVE  LET class == WrapErr(v, f).class IN
         /\ class \in {"auth", "ratelimit", "transient", "invalid", "plain"}
         /\ class = "auth" => f.status \in {401, 403}
         /\ class \in {"transient", "ratelimit"} => f.status = 429 \/ f.status >= 500
         /\ f.status = 429 => class = "ratelimit"
         /\ class = "invalid" => f.status \in (400..499) \ {401, 403, 429}
<1> DEFINE routing == Routing(v)
<1>0. f.status \in 0..599 /\ f.status >= 400
  BY DEF AnyFailure
<1>1. Sound(routing) /\ f.status \in 400..599
  BY <1>0, RoutingSound
<1>2. f.status \in {401, 403} \cup routing.limits \cup routing.faults \cup routing.rest
        \/ routing.unknown = "plain"
  BY <1>1, RoutingCases
     DEF OpenAIRouting, AnthropicRouting, ArkRouting, GoogleRouting, OllamaRouting, Routed4xx
<1>3. WrapErr(v, f) = ByStatus(routing, f)
  BY DEF WrapErr, StatusFirst, NetErrors
<1> HIDE DEF routing
<1>4. CASE f.status \in {401, 403}
  <2>1. f.status \notin routing.limits \cup routing.faults \cup routing.rest
    BY <1>1, <1>4 DEF Sound
  <2> QED
    BY <1>3, <1>4, <2>1 DEF ByStatus, Error
<1>5. CASE f.status \in routing.limits
  <2>1. f.status \notin {401, 403} \cup routing.faults \cup routing.rest
        /\ (f.status = 429 \/ f.status >= 500)
    BY <1>1, <1>5, SMTT(30) DEF Sound
  <2>2. WrapErr(v, f).class = "ratelimit"
    BY <1>3, <1>5, <2>1 DEF ByStatus
  <2> QED
    BY <2>1, <2>2
<1>6. CASE f.status \in routing.faults
  <2>1. f.status \notin {401, 403} \cup routing.limits \cup routing.rest /\ f.status # 429
        /\ (f.status = 429 \/ f.status >= 500)
    BY <1>1, <1>6, SMTT(30) DEF Sound
  <2>2. WrapErr(v, f).class = "transient"
    BY <1>3, <1>6, <2>1 DEF ByStatus, Error
  <2> QED
    BY <2>1, <2>2
<1>7. CASE f.status \in routing.rest
  <2>1. f.status \in (400..499) \ {401, 403, 429}
    <3>1. f.status \in 0..499 /\ f.status \notin {401, 403, 429}
      BY <1>1, <1>7 DEF Sound
    <3>2. f.status \in 400..499
      BY <1>0, <3>1
    <3> QED
      BY <3>1, <3>2
  <2>2. f.status \notin {401, 403} \cup routing.limits \cup routing.faults
    BY <1>1, <2>1 DEF Sound
  <2>3. WrapErr(v, f).class = "invalid"
    BY <1>3, <1>7, <2>2 DEF ByStatus, Error
  <2> QED
    BY <2>1, <2>3
<1>8. CASE f.status \notin {401, 403} \cup routing.limits \cup routing.faults \cup routing.rest
  <2>1. WrapErr(v, f).class = "plain"
    BY <1>2, <1>3, <1>8 DEF ByStatus, Error
  <2>2. f.status # 429
    BY <1>1, <1>8 DEF Sound
  <2> QED
    BY <2>1, <2>2
<1> QED
  BY <1>4, <1>5, <1>6, <1>7, <1>8

\* A cancelled caller is told so, and only a cancelled one; a deadline is worth
\* another try (wrapErr of every adapter tests the context before the status).
THEOREM ContextErrorsKept ==
  ASSUME NEW v, NEW f \in AnyFailure
  PROVE  /\ f.kind = "canceled" <=> WrapErr(v, f).class = "canceled"
         /\ f.kind = "deadline" => WrapErr(v, f).class = "transient"
<1>1. CASE f.kind = "status"
  BY <1>1, OfStatus
<1>2. CASE f.kind # "status"
  BY <1>2, WithoutStatus, RoutingSound DEF Error, Sound
<1> QED
  BY <1>1, <1>2

\* No adapter advises another try for a failure that the same request will meet
\* again, whatever the status, and status 429 is always a rate limit.
THEOREM RetryOnlyFleeting ==
  ASSUME NEW v, NEW f \in AnyFailure
  PROVE  /\ WrapErr(v, f).class \in {"transient", "ratelimit"} => Fleeting(f)
         /\ f.kind = "status" /\ f.status = 429 => WrapErr(v, f).class = "ratelimit"
<1>1. CASE f.kind = "status"
  BY <1>1, OfStatus DEF Fleeting
<1>2. CASE f.kind # "status"
  BY <1>2, WithoutStatus, RoutingSound DEF Error, Sound, Fleeting
<1> QED
  BY <1>1, <1>2

\* No adapter blames the caller for a failure that may pass, whatever the status;
\* google blames it for an answer its SDK cannot read.
THEOREM BlameOnlyLasting ==
  ASSUME NEW v, NEW f \in AnyFailure, WrapErr(v, f).class \in {"auth", "invalid"}
  PROVE  Lasting(f) \/ (v = "google" /\ f.kind = "garbled")
<1>1. CASE f.kind = "status"
  BY <1>1, OfStatus DEF Lasting
<1>2. CASE f.kind # "status"
  <2>1. v # "google" => Routing(v).unknown = "plain"
    BY DEF Routing, OpenAIRouting, AnthropicRouting, ArkRouting, OllamaRouting
  <2>2. f.kind \in {"canceled", "deadline", "net", "garbled"}
    BY <1>2 DEF AnyFailure, Kinds
  <2> QED
    BY <1>2, <2>1, <2>2, WithoutStatus DEF Error
<1> QED
  BY <1>1, <1>2

-----------------------------------------------------------------------------
(* Parts of a turn.                                                        *)

Part == [part : {"text"}, of : STRING] \cup [part : {"image"}, of : ImageKinds]
PartsOf(kind) == {p \in Part : p.part = kind}
AsImages == [image \in ImageKinds |-> ImagePart(image)]
OfPart == [p \in Part |-> p.of]

\* The two tests on parts, and the one on images.
LEMMA PartTests ==
  ASSUME NEW parts \in Seq(Part)
  PROVE  /\ TextOf(parts) = IF Kept(parts, PartsOf("text")) = <<>> THEN NoText
                            ELSE Kept(parts, PartsOf("text"))[1].of
         /\ ImagesOf(parts) = Each(OfPart, Kept(parts, PartsOf("image")))
<1>1. ASSUME NEW kind PROVE Kept(parts, {p \in ToSet(parts) : p.part = kind}) = Kept(parts, PartsOf(kind))
  <2> DEFINE A == {p \in ToSet(parts) : p.part = kind}
  <2>1. \A p \in Part : p \in ToSet(parts) => (p \in A <=> p \in PartsOf(kind))
    BY DEF PartsOf
  <2> HIDE DEF A
  <2>2. Kept(parts, A) = Kept(parts, PartsOf(kind))
    BY <2>1, KeptRange
  <2> QED
    BY <2>2 DEF A
<1>2. TextOf(parts) = IF Kept(parts, PartsOf("text")) = <<>> THEN NoText
                      ELSE Kept(parts, PartsOf("text"))[1].of
  <2> DEFINE kept == Kept(parts, {p \in ToSet(parts) : p.part = "text"})
  <2>1. TextOf(parts) = IF kept = <<>> THEN NoText ELSE kept[1].of
    BY DEF TextOf, Where
  <2>2. kept = Kept(parts, PartsOf("text"))
    BY <1>1
  <2> HIDE DEF kept
  <2> QED
    BY <2>1, <2>2
<1>3. ImagesOf(parts) = Each(OfPart, Kept(parts, PartsOf("image")))
  <2> DEFINE kept == Kept(parts, PartsOf("image"))
  <2>1. kept \in Seq(Part)
    BY KeptType
  <2>2. ImagesOf(parts) = [k \in DOMAIN kept |-> kept[k].of]
    <3> DEFINE found == Kept(parts, {p \in ToSet(parts) : p.part = "image"})
    <3>1. ImagesOf(parts) = [k \in DOMAIN found |-> found[k].of]
      BY DEF ImagesOf, Where, Mapped
    <3>2. found = kept
      BY <1>1
    <3> HIDE DEF found, kept
    <3> QED
      BY <3>1, <3>2
  <2> HIDE DEF kept
  <2>3. \A k \in DOMAIN kept : kept[k] \in Part
    BY <2>1
  <2>4. ImagesOf(parts) = Each(OfPart, kept)
    BY <2>2, <2>3 DEF Each, OfPart
  <2> QED
    BY <2>4 DEF kept
<1> QED
  BY <1>2, <1>3

LEMMA UsableTest ==
  ASSUME NEW images \in Seq(ImageKinds)
  PROVE  Usable(images) = Kept(images, UsableImages)
<1> DEFINE A == {x \in ToSet(images) : x \in UsableImages}
<1>1. Usable(images) = Kept(images, A)
  BY DEF Usable, Where
<1>2. \A x \in ImageKinds : x \in ToSet(images) => (x \in A <=> x \in UsableImages)
  OBVIOUS
<1> HIDE DEF A
<1>3. Kept(images, A) = Kept(images, UsableImages)
  BY <1>2, KeptRange
<1> QED
  BY <1>1, <1>3

\* A text part alone.
LEMMA PlainParts ==
  ASSUME NEW text \in STRING
  PROVE  /\ <<TextPart(text)>> \in Seq(Part)
         /\ TextOf(<<TextPart(text)>>) = text
         /\ ImagesOf(<<TextPart(text)>>) = <<>>
<1> DEFINE p == TextPart(text)
           s == <<p>>
<1>1. p \in PartsOf("text") /\ p \in Part /\ p.of = text
  BY DEF TextPart, PartsOf, Part
<1> HIDE DEF p
<1>2. s \in Seq(PartsOf("text")) /\ s \in Seq(Part) /\ s # <<>> /\ s[1] = p
  BY <1>1
<1> HIDE DEF s
<1>3. Kept(s, PartsOf("text")) = s
  BY <1>2, KeptAll
<1>4. Kept(s, PartsOf("image")) = <<>>
  <2>1. \A x \in PartsOf("text") : x \notin PartsOf("image")
    BY DEF PartsOf
  <2> QED
    BY <1>2, <2>1, KeptNone
<1>5. TextOf(s) = text
  BY <1>1, <1>2, <1>3, PartTests
<1>6. ImagesOf(s) = <<>>
  <2>1. Each(OfPart, <<>>) = <<>>
    BY DEF Each
  <2> QED
    BY <1>2, <1>4, <2>1, PartTests
<1> QED
  BY <1>2, <1>5, <1>6 DEF s, p

\* A text, unless it is empty, and images.
LEMMA IllustratedParts ==
  ASSUME NEW turn \in ATurn, NEW images \in Seq(ImageKinds)
  PROVE  LET parts == LeadingText(turn) \o Each(AsImages, images) IN
         /\ parts \in Seq(Part)
         /\ TextOf(parts) = turn.text
         /\ ImagesOf(parts) = images
<1> DEFINE lead == LeadingText(turn)
           shown == Each(AsImages, images)
           parts == lead \o shown
<1>0. turn.text \in STRING
  BY DEF ATurn
<1>1. AsImages \in [ImageKinds -> PartsOf("image")]
  BY DEF AsImages, ImagePart, PartsOf, Part
<1>2. shown \in Seq(PartsOf("image")) /\ IsEach(shown, AsImages, images)
  BY <1>1, EachType
<1>3. lead \in Seq(PartsOf("text")) /\ (lead # <<>> => lead[1].of = turn.text)
      /\ (lead = <<>> => turn.text = NoText)
  <2> DEFINE p == TextPart(turn.text)
  <2>1. p \in PartsOf("text") /\ p.of = turn.text
    BY <1>0 DEF TextPart, PartsOf, Part
  <2>2. lead = IF turn.text = NoText THEN <<>> ELSE <<p>>
    BY DEF LeadingText
  <2> HIDE DEF p, lead
  <2> QED
    BY <2>1, <2>2
<1>4. PartsOf("text") \subseteq Part /\ PartsOf("image") \subseteq Part
      /\ \A x \in PartsOf("text") : x \notin PartsOf("image")
  BY DEF PartsOf
<1> HIDE DEF lead, shown
<1>5. lead \in Seq(Part) /\ shown \in Seq(Part)
  BY <1>2, <1>3, <1>4
<1>6. parts \in Seq(Part)
  BY <1>5
<1>7. /\ Kept(lead, PartsOf("text")) = lead /\ Kept(shown, PartsOf("text")) = <<>>
      /\ Kept(lead, PartsOf("image")) = <<>> /\ Kept(shown, PartsOf("image")) = shown
  <2>1. Kept(lead, PartsOf("text")) = lead /\ Kept(shown, PartsOf("image")) = shown
    BY <1>2, <1>3, KeptAll
  <2>2. Kept(shown, PartsOf("text")) = <<>> /\ Kept(lead, PartsOf("image")) = <<>>
    BY <1>2, <1>3, <1>4, KeptNone
  <2> QED
    BY <2>1, <2>2
<1>8. Kept(parts, PartsOf("text")) = lead \o <<>> /\ Kept(parts, PartsOf("image")) = <<>> \o shown
  <2>1. KeptOfBoth(lead, shown, PartsOf("text")) /\ KeptOfBoth(lead, shown, PartsOf("image"))
    BY <1>5, KeptConcat
  <2> QED
    BY <1>7, <2>1 DEF KeptOfBoth
<1>9. Kept(parts, PartsOf("text")) = lead /\ Kept(parts, PartsOf("image")) = shown
  BY <1>5, <1>8, ConcatEmptySeq
<1> HIDE DEF parts
<1>10. TextOf(parts) = turn.text
  BY <1>3, <1>6, <1>9, PartTests
<1>11. ImagesOf(parts) = images
  <2>1. ImagesOf(parts) = Each(OfPart, shown)
    BY <1>6, <1>9, PartTests
  <2>2. \A p \in PartsOf("image") : OfPart[p] \in ImageKinds
    BY DEF OfPart, PartsOf, Part
  <2>3. IsEach(Each(OfPart, shown), OfPart, shown)
    BY <1>5, EachRange
  <2> DEFINE U == {OfPart[p] : p \in PartsOf("image")}
  <2>6. Each(OfPart, shown) \in Seq(U)
    BY <1>2, EachRange
  <2>7. U \subseteq ImageKinds
    BY <2>2
  <2> HIDE DEF U
  <2>8. Each(OfPart, shown) \in Seq(ImageKinds)
    BY <2>6, <2>7
  <2>4. \A k \in 1..Len(images) : Each(OfPart, shown)[k] = images[k]
    <3> SUFFICES ASSUME NEW k \in 1..Len(images) PROVE Each(OfPart, shown)[k] = images[k]
      OBVIOUS
    <3>1. images[k] \in ImageKinds /\ shown[k] = AsImages[images[k]] /\ k \in 1..Len(shown)
      BY <1>2 DEF IsEach
    <3>2. shown[k] = ImagePart(images[k]) /\ shown[k] \in Part
      BY <1>5, <3>1 DEF AsImages
    <3>3. Each(OfPart, shown)[k] = shown[k].of
      BY <2>3, <3>1, <3>2 DEF IsEach, OfPart
    <3> QED
      BY <3>2, <3>3 DEF ImagePart
  <2>5. Len(Each(OfPart, shown)) = Len(images)
    BY <1>2, <2>3 DEF IsEach
  <2> QED
    BY <2>1, <2>4, <2>5, <2>8, SeqEqual
<1> QED
  BY <1>6, <1>10, <1>11 DEF parts, lead, shown

\* What an adapter makes of an image: one it cannot read becomes an empty one.
IsDecoder(f) ==
  \A x \in ImageKinds : /\ f[x] \in ImageKinds
                        /\ x \in UsableImages <=> f[x] \in UsableImages
                        /\ x \in UsableImages => f[x] = x

LEMMA Decoders ==
  /\ IsDecoder([x \in ImageKinds |-> SplitDataURI(x)])
  /\ IsDecoder([x \in ImageKinds |-> DecodeDataURI(x)])
BY DEF IsDecoder, SplitDataURI, DecodeDataURI, ImageKinds, UsableImages

\* An adapter that leaves out empty images, and makes empty ones of those it
\* cannot read, keeps the usable ones.
LEMMA GivenUsable ==
  ASSUME NEW images \in Seq(ImageKinds), NEW f, IsDecoder(f)
  PROVE  /\ Given(images) \in Seq(ImageKinds) /\ Each(f, Given(images)) \in Seq(ImageKinds)
         /\ Usable(Each(f, Given(images))) = Usable(images)
<1> DEFINE S == ImageKinds
           N == S \ {"nothing"}
           U == UsableImages
           given == Kept(images, N)
<1>1. U \subseteq S /\ U = N \cap U
  BY DEF UsableImages, ImageKinds
<1>2. Given(images) = given
  <2> DEFINE A == {x \in ToSet(images) : x # "nothing"}
  <2>1. Given(images) = Kept(images, A)
    BY DEF Given, Where
  <2>2. \A x \in S : x \in ToSet(images) => (x \in A <=> x \in N)
    OBVIOUS
  <2> HIDE DEF A, N, S
  <2>3. images \in Seq(S)
    BY DEF S
  <2> QED
    BY <2>1, <2>2, <2>3, KeptRange
<1>3. images \in Seq(S) /\ Passes(f, S, U, U) /\ \A x \in S : f[x] \in S
  BY DEF IsDecoder, Passes
<1>4. \A x \in U : f[x] = x
  BY <1>1 DEF IsDecoder
<1> HIDE DEF S, N, U
<1>5. given \in Seq(S)
  BY <1>3, KeptType
<1>6. Kept(given, U) = Kept(images, U)
  BY <1>1, <1>3, KeptTwice
<1> HIDE DEF given
<1>7. Each(f, given) \in Seq(S) /\ Kept(Each(f, given), U) = Each(f, Kept(given, U))
  <2>1. Each(f, given) \in Seq(S)
    <3> DEFINE R == {f[x] : x \in S}
    <3>1. R \subseteq S /\ Each(f, given) \in Seq(R)
      BY <1>3, <1>5, EachRange
    <3> HIDE DEF R
    <3> QED
      BY <3>1
  <2>2. Kept(Each(f, given), U) = Each(f, Kept(given, U))
    BY <1>3, <1>5, KeptEach
  <2> QED
    BY <2>1, <2>2
<1>8. Each(f, Kept(images, U)) = Kept(images, U)
  <2>1. Kept(images, U) \in Seq(S \cap U)
    BY <1>3, KeptType
  <2>2. \A k \in DOMAIN Kept(images, U) : Kept(images, U)[k] \in U
    BY <2>1
  <2>3. Each(f, Kept(images, U)) = [k \in DOMAIN Kept(images, U) |-> Kept(images, U)[k]]
    BY <1>4, <2>2 DEF Each
  <2> QED
    BY <2>1, <2>3
<1>9. Usable(images) = Kept(images, U) /\ Usable(Each(f, given)) = Kept(Each(f, given), U)
  <2>1. images \in Seq(ImageKinds) /\ Each(f, given) \in Seq(ImageKinds)
    BY <1>7 DEF S
  <2> QED
    BY <2>1, UsableTest DEF U
<1> QED
  BY <1>2, <1>5, <1>6, <1>7, <1>8, <1>9 DEF S

\* The parts of a turn with images, in the three forms the vendors have.
SameParts(parts, turn) ==
  /\ parts \in Seq(Part)
  /\ TextOf(parts) = turn.text
  /\ Usable(ImagesOf(parts)) = Usable(turn.images)

LEMMA UserPartsSound ==
  ASSUME NEW turn \in ATurn
  PROVE  /\ SameParts(UserContentParts(turn), turn)
         /\ SameParts(UserContentBlocks(turn), turn)
         /\ SameParts(UserParts(turn), turn)
<1>0. turn.text \in STRING /\ turn.images \in Seq(ImageKinds)
  BY DEF ATurn
<1>1. ASSUME NEW images \in Seq(ImageKinds), Usable(images) = Usable(turn.images),
             NEW parts, parts = LeadingText(turn) \o Each(AsImages, images)
      PROVE  SameParts(parts, turn)
  BY <1>1, IllustratedParts DEF SameParts
<1>2. CASE turn.images = <<>>
  <2>1. SameParts(<<TextPart(turn.text)>>, turn)
    BY <1>0, <1>2, PlainParts DEF SameParts
  <2> QED
    BY <1>2, <2>1 DEF UserContentParts, UserContentBlocks, UserParts, PlainContent
<1>3. CASE turn.images # <<>>
  <2>1. SameParts(UserContentParts(turn), turn)
    <3>1. UserContentParts(turn) = LeadingText(turn) \o [k \in DOMAIN turn.images |-> ImagePart(turn.images[k])]
      BY <1>3 DEF UserContentParts, Mapped
    <3>2. Each(AsImages, turn.images) = [k \in DOMAIN turn.images |-> ImagePart(turn.images[k])]
      BY <1>0 DEF Each, AsImages
    <3> QED
      BY <1>0, <1>1, <3>1, <3>2
  <2>2. ASSUME NEW f, IsDecoder(f)
        PROVE  SameParts(LeadingText(turn) \o [k \in DOMAIN Given(turn.images) |-> ImagePart(f[Given(turn.images)[k]])], turn)
    <3> DEFINE given == Given(turn.images)
               images == Each(f, given)
    <3>1. given \in Seq(ImageKinds) /\ images \in Seq(ImageKinds) /\ Usable(images) = Usable(turn.images)
      BY <1>0, <2>2, GivenUsable
    <3>2. DOMAIN images = DOMAIN given /\ \A k \in DOMAIN given : images[k] = f[given[k]]
      BY DEF Each
    <3> HIDE DEF images, given
    <3>3. \A k \in DOMAIN given : images[k] \in ImageKinds
      BY <3>1, <3>2
    <3>4. Each(AsImages, images) = [k \in DOMAIN given |-> ImagePart(f[given[k]])]
      BY <3>2, <3>3 DEF Each, AsImages
    <3>5. SameParts(LeadingText(turn) \o Each(AsImages, images), turn)
      BY <1>1, <3>1
    <3> QED
      BY <3>4, <3>5 DEF given
  <2>3. Given(turn.images) \in Seq(ImageKinds)
    BY <1>0, Decoders, GivenUsable
  <2>4. SameParts(UserContentBlocks(turn), turn)
    <3> DEFINE f == [x \in ImageKinds |-> SplitDataURI(x)]
               given == Given(turn.images)
    <3>1. UserContentBlocks(turn) = LeadingText(turn) \o [k \in DOMAIN given |-> ImagePart(SplitDataURI(given[k]))]
      BY <1>3 DEF UserContentBlocks, Mapped
    <3>2. \A k \in DOMAIN given : given[k] \in ImageKinds
      BY <2>3
    <3>3. \A k \in DOMAIN given : f[given[k]] = SplitDataURI(given[k])
      BY <3>2
    <3>4. IsDecoder(f)
      BY Decoders
    <3> HIDE DEF f
    <3>5. SameParts(LeadingText(turn) \o [k \in DOMAIN given |-> ImagePart(f[given[k]])], turn)
      BY <2>2, <3>4
    <3> HIDE DEF given
    <3>6. [k \in DOMAIN given |-> ImagePart(f[given[k]])] = [k \in DOMAIN given |-> ImagePart(SplitDataURI(given[k]))]
      BY <3>3
    <3> QED
      BY <3>1, <3>5, <3>6
  <2>5. SameParts(UserParts(turn), turn)
    <3> DEFINE f == [x \in ImageKinds |-> DecodeDataURI(x)]
               given == Given(turn.images)
    <3>1. UserParts(turn) = LeadingText(turn) \o [k \in DOMAIN given |-> ImagePart(DecodeDataURI(given[k]))]
      BY <1>3 DEF UserParts, Mapped
    <3>2. \A k \in DOMAIN given : given[k] \in ImageKinds
      BY <2>3
    <3>3. \A k \in DOMAIN given : f[given[k]] = DecodeDataURI(given[k])
      BY <3>2
    <3>4. IsDecoder(f)
      BY Decoders
    <3> HIDE DEF f
    <3>5. SameParts(LeadingText(turn) \o [k \in DOMAIN given |-> ImagePart(f[given[k]])], turn)
      BY <2>2, <3>4
    <3> HIDE DEF given
    <3>6. [k \in DOMAIN given |-> ImagePart(f[given[k]])] = [k \in DOMAIN given |-> ImagePart(DecodeDataURI(given[k]))]
      BY <3>3
    <3> QED
      BY <3>1, <3>5, <3>6
  <2> QED
    BY <2>1, <2>4, <2>5
<1> QED
  BY <1>2, <1>3

-----------------------------------------------------------------------------
(* The dialog.                                                             *)

\* h is g after f.
After(h, g, f, S) == \A x \in S : h[x] = g[f[x]]

LEMMA EachOfEach ==
  ASSUME NEW S, NEW s \in Seq(S), NEW f, NEW g, NEW h, After(h, g, f, S)
  PROVE  Each(g, Each(f, s)) = Each(h, s)
<1>1. DOMAIN Each(f, s) = DOMAIN s /\ \A k \in DOMAIN s : Each(f, s)[k] = f[s[k]] /\ s[k] \in S
  BY DEF Each
<1>2. Each(g, Each(f, s)) = [k \in DOMAIN s |-> g[Each(f, s)[k]]]
  BY <1>1 DEF Each
<1>3. \A k \in DOMAIN s : g[Each(f, s)[k]] = h[s[k]]
  BY <1>1 DEF After
<1>4. Each(h, s) = [k \in DOMAIN s |-> h[s[k]]]
  BY DEF Each
<1> QED
  BY <1>2, <1>3, <1>4

ARequest == [systemPrompt : STRING, turns : Seq(ATurn), limit : Int]
TurnsIn(roles) == {t \in ATurn : t.role \in roles}

\* The message a vendor is sent for a turn, the turns it is sent, and the system
\* prompt ahead of them.
ImageVendors == {"openai", "kimi", "anthropic", "google"}
MessageOf(v) ==
  [t \in ATurn |->
     CASE v \in {"openai", "kimi"} -> WithParts(t, UserContent("openai", t))
       [] v = "anthropic" -> WithParts(t, UserContent("anthropic", t))
       [] v = "google" -> WithParts(t, UserParts(t))
       [] v = "volcengine" -> WithParts(ArkRole(t), PlainContent(t))
       [] OTHER -> WithParts(t, PlainContent(t))]
TurnsSent(v) ==
  CASE v \in {"openai", "kimi", "deepseek"} -> TurnsIn(AndSystem)
    [] v \in {"anthropic", "minimax", "google"} -> TurnsIn(Dialogue)
    [] OTHER -> ATurn
PromptOf(v, req) == IF v \in {"anthropic", "minimax", "google"} THEN <<>> ELSE Prompted(req)
Sends(v, req, dialog) ==
  dialog = PromptOf(v, req) \o Each(MessageOf(v), Kept(req.turns, TurnsSent(v)))

LEMMA RolesKept ==
  ASSUME NEW turns \in Seq(ATurn), NEW roles
  PROVE  TurnsBy(turns, roles) = Kept(turns, TurnsIn(roles))
<1> DEFINE A == {t \in ToSet(turns) : t.role \in roles}
<1>1. TurnsBy(turns, roles) = Kept(turns, A)
  BY DEF TurnsBy, Where
<1>2. \A t \in ATurn : t \in ToSet(turns) => (t \in A <=> t \in TurnsIn(roles))
  BY DEF TurnsIn
<1> HIDE DEF A
<1> QED
  BY <1>1, <1>2, KeptRange

LEMMA WireDialog ==
  ASSUME NEW v \in AllVendors, NEW given, NEW req \in ARequest
  PROVE  Sends(v, req, ToSDKRequest(v, given, req).dialog)
<1> DEFINE turns == req.turns
           sent == Kept(turns, TurnsSent(v))
           dialog == ToSDKRequest(v, given, req).dialog
<1>1. turns \in Seq(ATurn)
  BY DEF ARequest
<1>2. sent \in Seq(ATurn)
  BY <1>1, KeptType
<1>3. \A k \in DOMAIN sent : sent[k] \in ATurn
  BY <1>2
<1>4. Each(MessageOf(v), sent) = [k \in DOMAIN sent |-> MessageOf(v)[sent[k]]]
  BY DEF Each
<1>5. TurnsBy(turns, AndSystem) = Kept(turns, TurnsIn(AndSystem)) /\ TurnsBy(turns, Dialogue) = Kept(turns, TurnsIn(Dialogue))
  BY <1>1, RolesKept
<1>6. Each(MessageOf(v), sent) \in Seq({MessageOf(v)[t] : t \in ATurn})
  BY <1>2, EachRange
<1>7. <<>> \o Each(MessageOf(v), sent) = Each(MessageOf(v), sent)
  BY <1>6, ConcatEmptySeq
<1>8. CASE v \in {"openai", "kimi"}
  <2>1. sent = TurnsBy(turns, AndSystem)
    BY <1>5, <1>8 DEF TurnsSent
  <2>2. dialog = Prompted(req) \o [k \in DOMAIN sent |-> WithParts(sent[k], UserContent("openai", sent[k]))]
    BY <1>8, <2>1 DEF ToSDKRequest, OpenAIRequest, KimiRequest, Wire, Illustrated, Mapped
  <2> HIDE DEF sent, dialog
  <2>3. Each(MessageOf(v), sent) = [k \in DOMAIN sent |-> WithParts(sent[k], UserContent("openai", sent[k]))]
    BY <1>3, <1>4, <1>8 DEF MessageOf
  <2> QED
    BY <1>8, <2>2, <2>3 DEF Sends, PromptOf, dialog, sent
<1>9. CASE v = "deepseek"
  <2>1. sent = TurnsBy(turns, AndSystem)
    BY <1>5, <1>9 DEF TurnsSent
  <2>2. dialog = Prompted(req) \o [k \in DOMAIN sent |-> WithParts(sent[k], PlainContent(sent[k]))]
    BY <1>9, <2>1 DEF ToSDKRequest, DeepSeekRequest, Wire, Plain, Mapped
  <2> HIDE DEF sent, dialog
  <2>3. Each(MessageOf(v), sent) = [k \in DOMAIN sent |-> WithParts(sent[k], PlainContent(sent[k]))]
    BY <1>3, <1>4, <1>9 DEF MessageOf
  <2> QED
    BY <1>9, <2>2, <2>3 DEF Sends, PromptOf, dialog, sent
<1>10. CASE v = "anthropic"
  <2>1. sent = TurnsBy(turns, Dialogue)
    BY <1>5, <1>10 DEF TurnsSent
  <2>2. dialog = [k \in DOMAIN sent |-> WithParts(sent[k], UserContent("anthropic", sent[k]))]
    BY <1>10, <2>1 DEF ToSDKRequest, AnthropicRequest, Wire, Illustrated, Mapped
  <2> HIDE DEF sent, dialog
  <2>3. Each(MessageOf(v), sent) = [k \in DOMAIN sent |-> WithParts(sent[k], UserContent("anthropic", sent[k]))]
    BY <1>3, <1>4, <1>10 DEF MessageOf
  <2> QED
    BY <1>7, <1>10, <2>2, <2>3 DEF Sends, PromptOf, dialog, sent
<1>11. CASE v = "minimax"
  <2>1. sent = TurnsBy(turns, Dialogue)
    BY <1>5, <1>11 DEF TurnsSent
  <2>2. dialog = [k \in DOMAIN sent |-> WithParts(sent[k], PlainContent(sent[k]))]
    BY <1>11, <2>1 DEF ToSDKRequest, MiniMaxRequest, Wire, Plain, Mapped
  <2> HIDE DEF sent, dialog
  <2>3. Each(MessageOf(v), sent) = [k \in DOMAIN sent |-> WithParts(sent[k], PlainContent(sent[k]))]
    BY <1>3, <1>4, <1>11 DEF MessageOf
  <2> QED
    BY <1>7, <1>11, <2>2, <2>3 DEF Sends, PromptOf, dialog, sent
<1>12. CASE v = "google"
  <2>1. sent = TurnsBy(turns, Dialogue)
    BY <1>5, <1>12 DEF TurnsSent
  <2>2. dialog = [k \in DOMAIN sent |-> WithParts(sent[k], UserParts(sent[k]))]
    BY <1>12, <2>1 DEF ToSDKRequest, GoogleRequest, Wire, Contents, Mapped, Dialogue
  <2> HIDE DEF sent, dialog
  <2>3. Each(MessageOf(v), sent) = [k \in DOMAIN sent |-> WithParts(sent[k], UserParts(sent[k]))]
    BY <1>3, <1>4, <1>12 DEF MessageOf
  <2> QED
    BY <1>7, <1>12, <2>2, <2>3 DEF Sends, PromptOf, dialog, sent
<1>13. CASE v = "volcengine"
  <2>1. sent = turns
    BY <1>1, <1>13, KeptAll DEF TurnsSent
  <2>2. dialog = Prompted(req) \o [k \in DOMAIN turns |-> WithParts(ArkRole(turns[k]), PlainContent(turns[k]))]
    BY <1>13 DEF ToSDKRequest, ArkRequest, ArkMessages, Wire, Mapped
  <2> HIDE DEF sent, dialog
  <2>3. Each(MessageOf(v), sent) = [k \in DOMAIN turns |-> WithParts(ArkRole(turns[k]), PlainContent(turns[k]))]
    BY <1>3, <1>4, <1>13, <2>1 DEF MessageOf
  <2> QED
    BY <1>13, <2>2, <2>3 DEF Sends, PromptOf, dialog, sent
<1>14. CASE v = "ollama"
  <2>1. sent = turns
    BY <1>1, <1>14, KeptAll DEF TurnsSent
  <2>2. dialog = Prompted(req) \o [k \in DOMAIN turns |-> WithParts(turns[k], PlainContent(turns[k]))]
    BY <1>14 DEF ToSDKRequest, OllamaRequest, OllamaMessages, Wire, Mapped
  <2> HIDE DEF sent, dialog
  <2>3. Each(MessageOf(v), sent) = [k \in DOMAIN turns |-> WithParts(turns[k], PlainContent(turns[k]))]
    BY <1>3, <1>4, <1>14, <2>1 DEF MessageOf
  <2> QED
    BY <1>14, <2>2, <2>3 DEF Sends, PromptOf, dialog, sent
<1> QED
  BY <1>8, <1>9, <1>10, <1>11, <1>12, <1>13, <1>14 DEF AllVendors

\* What a message tells of its turn.
Tells(v, t, m) ==
  /\ m.role = HeardAs(v, t.role)
  /\ TextOf(m.parts) = t.text
  /\ (v \in ImageVendors /\ t.role = "user") => Usable(ImagesOf(m.parts)) = Usable(t.images)
  /\ v \notin ImageVendors => Usable(ImagesOf(m.parts)) = <<>>

LEMMA MessageSound ==
  ASSUME NEW v \in AllVendors, NEW t \in ATurn
  PROVE  Tells(v, t, MessageOf(v)[t])
<1>1. t.text \in STRING /\ t = [role |-> t.role, text |-> t.text, images |-> t.images]
  BY DEF ATurn
<1>2. Usable(<<>>) = <<>>
  <2>1. <<>> \in Seq(ImageKinds)
    OBVIOUS
  <2> QED
    BY <2>1, UsableTest, KeptEmpty
<1>3. /\ TextOf(PlainContent(t)) = t.text
      /\ Usable(ImagesOf(PlainContent(t))) = <<>>
  <2>1. TextOf(<<TextPart(t.text)>>) = t.text /\ ImagesOf(<<TextPart(t.text)>>) = <<>>
    BY <1>1, PlainParts
  <2> QED
    BY <1>2, <2>1 DEF PlainContent
<1>4. /\ TextOf(UserContentParts(t)) = t.text /\ Usable(ImagesOf(UserContentParts(t))) = Usable(t.images)
      /\ TextOf(UserContentBlocks(t)) = t.text /\ Usable(ImagesOf(UserContentBlocks(t))) = Usable(t.images)
      /\ TextOf(UserParts(t)) = t.text /\ Usable(ImagesOf(UserParts(t))) = Usable(t.images)
  BY UserPartsSound DEF SameParts
<1>5. CASE v \in {"openai", "kimi"}
  <2>1. MessageOf(v)[t] = [role |-> t.role, parts |-> UserContent("openai", t)]
    BY <1>5 DEF MessageOf, WithParts
  <2>2. UserContent("openai", t) = IF t.role = "user" THEN UserContentParts(t) ELSE PlainContent(t)
    BY DEF UserContent
  <2> QED
    BY <1>3, <1>4, <1>5, <2>1, <2>2 DEF Tells, ImageVendors, HeardAs
<1>6. CASE v = "anthropic"
  <2>1. MessageOf(v)[t] = [role |-> t.role, parts |-> UserContent("anthropic", t)]
    BY <1>6 DEF MessageOf, WithParts
  <2>2. UserContent("anthropic", t) = IF t.role = "user" THEN UserContentBlocks(t) ELSE PlainContent(t)
    BY DEF UserContent
  <2> QED
    BY <1>3, <1>4, <1>6, <2>1, <2>2 DEF Tells, ImageVendors, HeardAs
<1>7. CASE v = "google"
  <2>1. MessageOf(v)[t] = [role |-> t.role, parts |-> UserParts(t)]
    BY <1>7 DEF MessageOf, WithParts
  <2> QED
    BY <1>4, <1>7, <2>1 DEF Tells, ImageVendors, HeardAs
<1>8. CASE v = "volcengine"
  <2>1. MessageOf(v)[t] = [role |-> ArkRole(t).role, parts |-> PlainContent(t)]
    BY <1>8 DEF MessageOf, WithParts
  <2>2. ArkRole(t).role = HeardAs(v, t.role)
    BY <1>1, <1>8 DEF ArkRole, HeardAs, AndSystem, Dialogue
  <2> QED
    BY <1>3, <1>8, <2>1, <2>2 DEF Tells, ImageVendors
<1>9. CASE v \in {"deepseek", "minimax", "ollama"}
  <2>1. MessageOf(v)[t] = [role |-> t.role, parts |-> PlainContent(t)]
    BY <1>9 DEF MessageOf, WithParts
  <2> QED
    BY <1>3, <1>9, <2>1 DEF Tells, ImageVendors, HeardAs
<1> QED
  BY <1>5, <1>6, <1>7, <1>8, <1>9 DEF AllVendors

\* The messages of some roles: the system prompt, and the turns heard as such.
SystemMessage(req) == [role |-> "system", parts |-> <<TextPart(req.systemPrompt)>>]
Messages(v, req) == {MessageOf(v)[t] : t \in ATurn} \cup {SystemMessage(req)}
WithRole(messages, roles) == {m \in messages : m.role \in roles}
HeardIn(v, roles) == {t \in ATurn : HeardAs(v, t.role) \in roles}
By(v, req, roles) ==
  (IF "system" \in roles THEN PromptOf(v, req) ELSE <<>>)
    \o Each(MessageOf(v), Kept(req.turns, TurnsSent(v) \cap HeardIn(v, roles)))

LEMMA PromptMessage ==
  ASSUME NEW req \in ARequest
  PROVE  /\ Prompted(req) = IF req.systemPrompt = NoText THEN <<>> ELSE <<SystemMessage(req)>>
         /\ SystemMessage(req).role = "system"
         /\ TextOf(SystemMessage(req).parts) = req.systemPrompt
         /\ ImagesOf(SystemMessage(req).parts) = <<>>
<1>1. req.systemPrompt \in STRING
  BY DEF ARequest
<1>2. Prompted(req) = IF req.systemPrompt = NoText THEN <<>> ELSE <<SystemMessage(req)>>
  <2>1. CASE req.systemPrompt = NoText
    <3>1. Said(req.systemPrompt) = <<>>
      BY <2>1 DEF Said
    <3> QED
      BY <2>1, <3>1 DEF Prompted, Mapped
  <2>2. CASE req.systemPrompt # NoText
    <3>1. Said(req.systemPrompt) = <<req.systemPrompt>>
      BY <2>2 DEF Said
    <3> QED
      BY <2>2, <3>1 DEF Prompted, Mapped, SystemMessage
  <2> QED
    BY <2>1, <2>2
<1> QED
  BY <1>1, <1>2, PlainParts DEF SystemMessage

LEMMA DialogBy ==
  ASSUME NEW v \in AllVendors, NEW req \in ARequest, NEW roles, NEW dialog, Sends(v, req, dialog)
  PROVE  /\ dialog \in Seq(Messages(v, req))
         /\ Where(dialog, LAMBDA m : m.role \in roles) = By(v, req, roles)
         /\ By(v, req, roles) \in Seq(WithRole(Messages(v, req), roles))
<1> DEFINE M == Messages(v, req)
           W == WithRole(M, roles)
           R == {MessageOf(v)[t] : t \in ATurn}
           f == MessageOf(v)
           A == HeardIn(v, roles)
           prompt == PromptOf(v, req)
           sent == Kept(req.turns, TurnsSent(v))
           told == Each(f, sent)
<1>1. req.turns \in Seq(ATurn) /\ R \subseteq M
  BY DEF ARequest, Messages
<1>2. sent \in Seq(ATurn)
  BY <1>1, KeptType
<1>3. told \in Seq(M)
  <2>1. told \in Seq(R)
    BY <1>2, EachRange
  <2> HIDE DEF R, M, told
  <2> QED
    BY <1>1, <2>1
<1>4. prompt \in Seq({SystemMessage(req)})
  <2>1. prompt = <<>> \/ prompt = <<SystemMessage(req)>>
    BY PromptMessage DEF PromptOf
  <2> DEFINE x == SystemMessage(req)
  <2>2. <<>> \in Seq({x}) /\ <<x>> \in Seq({x})
    <3> HIDE DEF x
    <3> QED
      OBVIOUS
  <2> HIDE DEF prompt
  <2> QED
    BY <2>1, <2>2
<1>5. prompt \in Seq(M)
  <2>1. {SystemMessage(req)} \subseteq M
    BY DEF Messages
  <2> HIDE DEF M, prompt
  <2> QED
    BY <1>4, <2>1
<1>6. dialog = prompt \o told
  BY DEF Sends
<1> HIDE DEF prompt, told
<1>7. dialog \in Seq(M)
  BY <1>3, <1>5, <1>6
<1>8. Where(dialog, LAMBDA m : m.role \in roles) = Kept(dialog, W)
  <2> DEFINE T == {m \in ToSet(dialog) : m.role \in roles}
  <2>1. Where(dialog, LAMBDA m : m.role \in roles) = Kept(dialog, T)
    BY DEF Where
  <2>2. \A m \in M : m \in ToSet(dialog) => (m \in T <=> m \in W)
    BY DEF WithRole
  <2> HIDE DEF T, W, M
  <2>3. Kept(dialog, T) = Kept(dialog, W)
    BY <1>7, <2>2, KeptRange
  <2> QED
    BY <2>1, <2>3
<1>9. Kept(dialog, W) = Kept(prompt, W) \o Kept(told, W)
  <2>1. KeptOfBoth(prompt, told, W)
    BY <1>3, <1>5, KeptConcat
  <2> QED
    BY <1>6, <2>1 DEF KeptOfBoth
<1>10. Kept(prompt, W) = IF "system" \in roles THEN prompt ELSE <<>>
  <2>1. CASE "system" \in roles
    <3>1. {SystemMessage(req)} \subseteq W
      BY <2>1, PromptMessage DEF WithRole, Messages
    <3> HIDE DEF W
    <3>2. Kept(prompt, W) = prompt
      BY <1>4, <3>1, KeptAll
    <3> QED
      BY <2>1, <3>2
  <2>2. CASE "system" \notin roles
    <3>1. \A m \in {SystemMessage(req)} : m \notin W
      BY <2>2, PromptMessage DEF WithRole
    <3> HIDE DEF W
    <3>2. Kept(prompt, W) = <<>>
      BY <1>4, <3>1, KeptNone
    <3> QED
      BY <2>2, <3>2
  <2> QED
    BY <2>1, <2>2
<1>11. Kept(told, W) = Each(f, Kept(sent, A))
  <2>1. Passes(f, ATurn, A, W)
    <3> SUFFICES ASSUME NEW t \in ATurn PROVE t \in A <=> f[t] \in W
      BY DEF Passes
    <3>1. f[t].role = HeardAs(v, t.role)
      BY MessageSound DEF Tells
    <3>2. f[t] \in M
      BY DEF Messages
    <3> QED
      BY <3>1, <3>2 DEF HeardIn, WithRole
  <2> HIDE DEF f, A, W
  <2>2. Kept(Each(f, sent), W) = Each(f, Kept(sent, A))
    BY <1>2, <2>1, KeptEach
  <2> QED
    BY <2>2 DEF told
<1>12. Kept(sent, A) = Kept(req.turns, TurnsSent(v) \cap A)
  <2> HIDE DEF A
  <2> QED
    BY <1>1, KeptTwice
<1>13. Kept(dialog, W) = By(v, req, roles)
  BY <1>9, <1>10, <1>11, <1>12 DEF By, prompt
<1>14. Kept(dialog, W) \in Seq(W)
  <2>1. Kept(dialog, W) \in Seq(M \cap W)
    BY <1>7, KeptType
  <2>2. M \cap W = W
    BY DEF WithRole
  <2> QED
    BY <2>1, <2>2
<1> QED
  BY <1>7, <1>8, <1>13, <1>14

\* What user and model said reaches every vendor, word for word and in order.
LEMMA SaysAll ==
  ASSUME NEW v \in AllVendors, NEW req \in ARequest, NEW wire, Sends(v, req, wire.dialog)
  PROVE  SaidOn(wire) = SaidIn(v, req)
<1> DEFINE A == HeardIn(v, Dialogue)
           turns == req.turns
           heard == Kept(turns, A)
           f == MessageOf(v)
           g == [m \in Messages(v, req) |-> <<m.role, TextOf(m.parts)>>]
           h == [t \in ATurn |-> <<HeardAs(v, t.role), t.text>>]
           told == By(v, req, Dialogue)
<1>1. turns \in Seq(ATurn)
  BY DEF ARequest
<1>2. heard \in Seq(ATurn)
  BY <1>1, KeptType
<1>3. told \in Seq(WithRole(Messages(v, req), Dialogue)) /\ Where(wire.dialog, LAMBDA m : m.role \in Dialogue) = told
  BY DialogBy
<1>4. told = Each(f, heard)
  <2>1. "system" \notin Dialogue
    BY DEF Dialogue
  <2>2. \A t \in ATurn : t \in TurnsSent(v) \cap A <=> t \in A
    BY DEF TurnsSent, TurnsIn, HeardIn, HeardAs, AllVendors, AndSystem
  <2>3. Kept(turns, TurnsSent(v) \cap A) = heard
    <3> HIDE DEF A
    <3> QED
      BY <1>1, <2>2, KeptSame
  <2>4. told = <<>> \o Each(f, heard)
    BY <2>1, <2>3 DEF By
  <2>5. Each(f, heard) \in Seq({f[t] : t \in ATurn})
    BY <1>2, EachRange
  <2> HIDE DEF f, heard, told
  <2> QED
    BY <2>4, <2>5, ConcatEmptySeq
<1>5. SaidOn(wire) = Each(g, told)
  <2>1. SaidOn(wire) = [k \in DOMAIN told |-> <<told[k].role, TextOf(told[k].parts)>>]
    BY <1>3 DEF SaidOn, Mapped
  <2> HIDE DEF told
  <2>2. \A k \in DOMAIN told : told[k] \in Messages(v, req)
    BY <1>3 DEF WithRole
  <2> QED
    BY <2>1, <2>2 DEF Each
<1>6. After(h, g, f, ATurn)
  <2> SUFFICES ASSUME NEW t \in ATurn PROVE h[t] = g[f[t]]
    BY DEF After
  <2>1. Tells(v, t, f[t]) /\ f[t] \in Messages(v, req)
    BY MessageSound DEF Messages
  <2> QED
    BY <2>1 DEF Tells
<1>7. Each(g, Each(f, heard)) = Each(h, heard)
  <2> HIDE DEF f, g, h, heard
  <2> QED
    BY <1>2, <1>6, EachOfEach
<1>8. SaidIn(v, req) = Each(h, heard)
  <2> DEFINE T == {t \in ToSet(turns) : HeardAs(v, t.role) \in Dialogue}
  <2>1. SaidIn(v, req) = [k \in DOMAIN Kept(turns, T) |-> <<HeardAs(v, Kept(turns, T)[k].role), Kept(turns, T)[k].text>>]
    BY DEF SaidIn, Where, Mapped
  <2>2. \A t \in ATurn : t \in ToSet(turns) => (t \in T <=> t \in A)
    BY DEF HeardIn
  <2>3. Kept(turns, T) = heard
    <3> HIDE DEF T, A
    <3> QED
      BY <1>1, <2>2, KeptRange
  <2>4. \A k \in DOMAIN heard : heard[k] \in ATurn
    BY <1>2
  <2> HIDE DEF heard, T
  <2> QED
    BY <2>1, <2>3, <2>4 DEF Each
<1> QED
  BY <1>4, <1>5, <1>7, <1>8

\* Of the system prompt and the system turns: all, in order, but by google the prompt alone.
LEMMA SystemBy ==
  ASSUME NEW v \in AllVendors, NEW req \in ARequest, NEW wire, Sends(v, req, wire.dialog)
  PROVE  SystemOn(wire) = wire.system
           \o (IF v \in {"anthropic", "minimax", "google"} THEN <<>> ELSE SystemIn(req))
<1> DEFINE R == {"system"}
           A == TurnsIn(R)
           turns == req.turns
           heard == Kept(turns, A)
           f == MessageOf(v)
           g == [m \in Messages(v, req) |-> TextOf(m.parts)]
           h == [t \in ATurn |-> t.text]
           told == By(v, req, R)
<1>1. turns \in Seq(ATurn)
  BY DEF ARequest
<1>2. heard \in Seq(ATurn)
  BY <1>1, KeptType
<1>3. told \in Seq(WithRole(Messages(v, req), R)) /\ Where(wire.dialog, LAMBDA m : m.role = "system") = told
  <2>1. Where(wire.dialog, LAMBDA m : m.role = "system") = Where(wire.dialog, LAMBDA m : m.role \in R)
    BY DEF Where
  <2> QED
    BY <2>1, DialogBy
<1>4. SystemOn(wire) = wire.system \o Each(g, told)
  <2>1. SystemOn(wire) = wire.system \o [k \in DOMAIN told |-> TextOf(told[k].parts)]
    BY <1>3 DEF SystemOn, Mapped
  <2> HIDE DEF told
  <2>2. \A k \in DOMAIN told : told[k] \in Messages(v, req)
    BY <1>3 DEF WithRole
  <2>3. Each(g, told) = [k \in DOMAIN told |-> TextOf(told[k].parts)]
    BY <2>2 DEF Each
  <2> QED
    BY <2>1, <2>3
<1>5. CASE v \in {"anthropic", "minimax", "google"}
  <2>1. \A t \in ATurn : t \notin TurnsSent(v) \cap HeardIn(v, R)
    BY <1>5 DEF TurnsSent, TurnsIn, HeardIn, HeardAs, Dialogue
  <2>2. Kept(turns, TurnsSent(v) \cap HeardIn(v, R)) = <<>>
    BY <1>1, <2>1, KeptNone
  <2>3. PromptOf(v, req) = <<>> /\ Each(f, <<>>) = <<>>
    BY <1>5 DEF PromptOf, Each
  <2>4. told = <<>> \o <<>>
    BY <2>2, <2>3 DEF By
  <2>5. told = <<>> /\ Each(g, <<>>) = <<>>
    BY <2>4 DEF Each
  <2> QED
    BY <1>4, <1>5, <2>5
<1>6. CASE v \notin {"anthropic", "minimax", "google"}
  <2>1. \A t \in ATurn : t \in TurnsSent(v) \cap HeardIn(v, R) <=> t \in A
    BY <1>6 DEF TurnsSent, TurnsIn, HeardIn, HeardAs, AllVendors, AndSystem
  <2>2. Kept(turns, TurnsSent(v) \cap HeardIn(v, R)) = heard
    <3> HIDE DEF A
    <3> QED
      BY <1>1, <2>1, KeptSame
  <2>3. told = Prompted(req) \o Each(f, heard)
    BY <1>6, <2>2 DEF By, PromptOf
  <2>4. Prompted(req) \in Seq(Messages(v, req)) /\ Each(f, heard) \in Seq(Messages(v, req))
    <3> DEFINE x == SystemMessage(req)
               M == Messages(v, req)
               F == {f[t] : t \in ATurn}
               e == Each(f, heard)
    <3>1. Prompted(req) = <<>> \/ Prompted(req) = <<x>>
      BY PromptMessage
    <3>2. x \in M /\ F \subseteq M
      BY DEF Messages
    <3>3. e \in Seq(F)
      BY <1>2, EachRange
    <3> HIDE DEF x, M, F, e
    <3>4. <<>> \in Seq(M) /\ <<x>> \in Seq(M) /\ e \in Seq(M)
      BY <3>2, <3>3
    <3> QED
      BY <3>1, <3>4 DEF e, M
  <2>5. Each(g, told) = Each(g, Prompted(req)) \o Each(g, Each(f, heard))
    <3>1. EachOfBoth(g, Prompted(req), Each(f, heard))
      <4> HIDE DEF f, g, heard
      <4> QED
        BY <2>4, EachConcat
    <3> QED
      BY <2>3, <3>1 DEF EachOfBoth
  <2>6. Each(g, Prompted(req)) = Said(req.systemPrompt)
    <3>1. CASE req.systemPrompt = NoText
      BY <3>1, PromptMessage DEF Each, Said
    <3>2. CASE req.systemPrompt # NoText
      <4> DEFINE x == SystemMessage(req)
      <4>1. Prompted(req) = <<x>> /\ Said(req.systemPrompt) = <<req.systemPrompt>>
        BY <3>2, PromptMessage DEF Said
      <4>2. g[x] = req.systemPrompt
        BY PromptMessage DEF Messages
      <4> HIDE DEF x, g
      <4> QED
        BY <4>1, <4>2 DEF Each
    <3> QED
      BY <3>1, <3>2
  <2>7. Each(g, Each(f, heard)) = Each(h, heard)
    <3>1. After(h, g, f, ATurn)
      <4> SUFFICES ASSUME NEW t \in ATurn PROVE h[t] = g[f[t]]
        BY DEF After
      <4>1. Tells(v, t, f[t]) /\ f[t] \in Messages(v, req)
        BY MessageSound DEF Messages
      <4> QED
        BY <4>1 DEF Tells
    <3> HIDE DEF f, g, h, heard
    <3> QED
      BY <1>2, <3>1, EachOfEach
  <2>8. SystemIn(req) = Said(req.systemPrompt) \o Each(h, heard)
    <3>1. TurnsBy(turns, R) = heard
      BY <1>1, RolesKept
    <3>2. SystemIn(req) = Said(req.systemPrompt) \o [k \in DOMAIN heard |-> heard[k].text]
      BY <3>1 DEF SystemIn, Mapped
    <3>3. \A k \in DOMAIN heard : heard[k] \in ATurn
      BY <1>2
    <3> HIDE DEF heard
    <3>4. Each(h, heard) = [k \in DOMAIN heard |-> heard[k].text]
      BY <3>3 DEF Each
    <3> QED
      BY <3>2, <3>4
  <2> QED
    BY <1>4, <1>6, <2>5, <2>6, <2>7, <2>8
<1> QED
  BY <1>5, <1>6

\* The user's images that can be read reach the vendors that take any.
LEMMA ImagesBy ==
  ASSUME NEW v \in AllVendors, NEW req \in ARequest, NEW wire, Sends(v, req, wire.dialog)
  PROVE  IF v \in ImageVendors THEN UserImagesOn(wire) = UserImagesIn(req)
         ELSE \A images \in ToSet(UserImagesOn(wire)) : images = <<>>
<1> DEFINE R == {"user"}
           A == TurnsIn(R)
           turns == req.turns
           heard == Kept(turns, A)
           f == MessageOf(v)
           g == [m \in Messages(v, req) |-> Usable(ImagesOf(m.parts))]
           h == [t \in ATurn |-> Usable(t.images)]
           told == By(v, req, R)
<1>1. turns \in Seq(ATurn)
  BY DEF ARequest
<1>2. heard \in Seq(ATurn \cap A)
  BY <1>1, KeptType
<1>3. told \in Seq(WithRole(Messages(v, req), R)) /\ Where(wire.dialog, LAMBDA m : m.role = "user") = told
  <2>1. Where(wire.dialog, LAMBDA m : m.role = "user") = Where(wire.dialog, LAMBDA m : m.role \in R)
    BY DEF Where
  <2> QED
    BY <2>1, DialogBy
<1>4. UserImagesOn(wire) = [k \in DOMAIN told |-> Usable(ImagesOf(told[k].parts))]
  BY <1>3 DEF UserImagesOn, Mapped
<1>5. \A k \in DOMAIN told : told[k] \in Messages(v, req)
  <2> HIDE DEF told
  <2> QED
    BY <1>3 DEF WithRole
<1>6. CASE v \in ImageVendors
  <2>1. \A t \in ATurn : t \in TurnsSent(v) \cap HeardIn(v, R) <=> t \in A
    BY <1>6 DEF ImageVendors, TurnsSent, TurnsIn, HeardIn, HeardAs, AndSystem, Dialogue
  <2>2. Kept(turns, TurnsSent(v) \cap HeardIn(v, R)) = heard
    <3> HIDE DEF A
    <3> QED
      BY <1>1, <2>1, KeptSame
  <2>3. told = Each(f, heard)
    <3>1. told = <<>> \o Each(f, heard)
      BY <2>2 DEF By
    <3>2. Each(f, heard) \in Seq({f[t] : t \in ATurn \cap A})
      BY <1>2, EachRange
    <3> HIDE DEF f, heard, told
    <3> QED
      BY <3>1, <3>2, ConcatEmptySeq
  <2>4. UserImagesOn(wire) = Each(g, told)
    <3> HIDE DEF told
    <3> QED
      BY <1>4, <1>5 DEF Each
  <2>5. Each(g, Each(f, heard)) = Each(h, heard)
    <3>1. After(h, g, f, ATurn \cap A)
      <4> SUFFICES ASSUME NEW t \in ATurn \cap A PROVE h[t] = g[f[t]]
        BY DEF After
      <4>1. Tells(v, t, f[t]) /\ f[t] \in Messages(v, req) /\ t.role = "user"
        BY MessageSound DEF Messages, TurnsIn
      <4> QED
        BY <1>6, <4>1 DEF Tells
    <3> HIDE DEF f, g, h, heard, A
    <3> QED
      BY <1>2, <3>1, EachOfEach
  <2>6. UserImagesIn(req) = Each(h, heard)
    <3>1. TurnsBy(turns, R) = heard
      BY <1>1, RolesKept
    <3>2. UserImagesIn(req) = [k \in DOMAIN heard |-> Usable(heard[k].images)]
      BY <3>1 DEF UserImagesIn, Mapped
    <3>3. \A k \in DOMAIN heard : heard[k] \in ATurn
      <4> HIDE DEF heard, A
      <4> QED
        BY <1>2
    <3> HIDE DEF heard
    <3> QED
      BY <3>2, <3>3 DEF Each
  <2> QED
    BY <1>6, <2>3, <2>4, <2>5, <2>6
<1>7. CASE v \notin ImageVendors
  <2>1. \A m \in Messages(v, req) : Usable(ImagesOf(m.parts)) = <<>>
    <3>1. ASSUME NEW t \in ATurn PROVE Usable(ImagesOf(f[t].parts)) = <<>>
      <4>1. Tells(v, t, f[t])
        BY MessageSound
      <4> QED
        BY <1>7, <4>1 DEF Tells
    <3>2. Usable(ImagesOf(SystemMessage(req).parts)) = <<>>
      <4>1. <<>> \in Seq(ImageKinds)
        OBVIOUS
      <4> QED
        BY <4>1, PromptMessage, UsableTest, KeptEmpty
    <3> QED
      BY <3>1, <3>2 DEF Messages
  <2>2. \A images \in ToSet(UserImagesOn(wire)) : images = <<>>
    <3>1. \A k \in DOMAIN told : Usable(ImagesOf(told[k].parts)) = <<>>
      BY <1>5, <2>1
    <3> HIDE DEF told
    <3>2. DOMAIN UserImagesOn(wire) = DOMAIN told /\ \A k \in DOMAIN told : UserImagesOn(wire)[k] = <<>>
      BY <1>4, <3>1
    <3> DEFINE images == UserImagesOn(wire)
    <3>3. ToSet(images) = {images[k] : k \in DOMAIN images}
      BY DEF ToSet
    <3> HIDE DEF images
    <3> QED
      BY <3>2, <3>3 DEF images
  <2> QED
    BY <1>7, <2>2
<1> QED
  BY <1>6, <1>7

\* The tools of a request: the names as they are, the keywords or those ollama knows.
Offers(v, wireTools, given) ==
  /\ Mapped(LAMBDA tool : tool.name, wireTools) = Mapped(LAMBDA tool : tool.name, given)
  /\ \A k \in DOMAIN given :
       (IF v = "ollama" THEN given[k].keywords \cap OllamaKeywords ELSE given[k].keywords)
         \subseteq wireTools[k].keywords

LEMMA ToolsSent ==
  ASSUME NEW v \in AllVendors, NEW given \in Seq(ATool), NEW req
  PROVE  Offers(v, ToSDKRequest(v, given, req).tools, given)
<1> DEFINE out == ToSDKRequest(v, given, req).tools
<1>1. \A k \in DOMAIN given : given[k] \in ATool
  OBVIOUS
<1>2. CASE v \in {"openai", "kimi", "deepseek", "google", "volcengine"}
  <2>1. out = given
    BY <1>2 DEF ToSDKRequest, OpenAIRequest, KimiRequest, DeepSeekRequest, GoogleRequest, ArkRequest, Wire
  <2> HIDE DEF out
  <2>2. Offers(v, out, given)
    BY <1>2, <2>1 DEF Offers, Mapped
  <2> QED
    BY <2>2 DEF out
<1>3. ASSUME NEW out_, DOMAIN out_ = DOMAIN given,
             \A k \in DOMAIN given :
               /\ out_[k].name = given[k].name
               /\ (IF v = "ollama" THEN given[k].keywords \cap OllamaKeywords ELSE given[k].keywords)
                    \subseteq out_[k].keywords
      PROVE  Offers(v, out_, given)
  BY <1>3 DEF Offers, Mapped
<1>4. CASE v \in {"anthropic", "minimax"}
  <2>1. out = [k \in DOMAIN given |-> ToToolInputSchema(given[k])]
    BY <1>4 DEF ToSDKRequest, AnthropicRequest, MiniMaxRequest, Wire, Mapped
  <2> HIDE DEF out
  <2>2. \A k \in DOMAIN given : out[k].name = given[k].name /\ given[k].keywords \subseteq out[k].keywords
    BY <1>1, <2>1 DEF ToToolInputSchema, ATool
  <2>3. Offers(v, out, given)
    BY <1>3, <1>4, <2>1, <2>2
  <2> QED
    BY <2>3 DEF out
<1>5. CASE v = "ollama"
  <2>1. out = [k \in DOMAIN given |-> ToAPITool(given[k])]
    BY <1>5 DEF ToSDKRequest, OllamaRequest, Wire, Mapped
  <2> HIDE DEF out
  <2>2. \A k \in DOMAIN given : out[k].name = given[k].name
                                /\ given[k].keywords \cap OllamaKeywords \subseteq out[k].keywords
    BY <1>1, <2>1 DEF ToAPITool, ATool
  <2>3. Offers(v, out, given)
    BY <1>3, <1>5, <2>1, <2>2
  <2> QED
    BY <2>3 DEF out
<1> QED
  BY <1>2, <1>4, <1>5 DEF AllVendors

-----------------------------------------------------------------------------
(* The system texts that anthropic and minimax join, and the limit that    *)
(* google converts.                                                        *)

\* The join, text by text.
LEMMA ParagraphAdded ==
  ASSUME NEW joined, NEW text
  PROVE  Paragraph(joined, text) =
           IF joined = <<>> /\ text = NoText THEN <<>> ELSE Append(joined, text)
<1>1. Append(<<>>, text) = <<text>>
  OBVIOUS
<1> QED
  BY <1>1, Zenon DEF Paragraph, Said

LEMMA SaidType ==
  ASSUME NEW S, NEW text \in S
  PROVE  Said(text) \in Seq(S)
<1>1. <<>> \in Seq(S) /\ <<text>> \in Seq(S)
  OBVIOUS
<1> QED
  BY <1>1 DEF Said

JoinGoes(joined, first, texts) ==
  /\ joined[0] = Said(first)
  /\ \A k \in 1..Len(texts) : joined[k] = Paragraph(joined[k - 1], texts[k])

LEMMA JoinedSteps ==
  ASSUME NEW S, NEW first \in S, NEW texts \in Seq(S)
  PROVE  /\ Joined(first, texts) \in [0..Len(texts) -> Seq(S)]
         /\ JoinGoes(Joined(first, texts), first, texts)
<1> DEFINE n == Len(texts)
           A == Seq(S)
           start == Said(first)
           step == [p \in A \X S |-> Paragraph(p[1], p[2])]
           IsJoin(j) == j = [k \in 0..n |-> IF k = 0 THEN start ELSE Paragraph(j[k - 1], texts[k])]
           J == Joined(first, texts)
<1>1. n \in Nat /\ \A k \in 1..n : texts[k] \in S
  OBVIOUS
<1>2. start \in A
  BY SaidType
<1>3. step \in [A \X S -> A]
  <2>1. ASSUME NEW s \in A, NEW x \in S PROVE Paragraph(s, x) \in A
    <3>1. <<>> \in A /\ Append(s, x) \in A
      OBVIOUS
    <3> QED
      BY <3>1, ParagraphAdded
  <2> HIDE DEF A
  <2> QED
    BY <2>1
<1>4. J = CHOOSE j : IsJoin(j)
  BY DEF Joined
<1> HIDE DEF step, A, start
<1>5. PICK r \in [0..Len(texts) -> A] : GoesThrough(r, texts, start, step)
  <2> HIDE DEF n
  <2> QED
    BY <1>2, <1>3, RunExists
<1>6. r \in [0..n -> A] /\ r[0] = start /\ \A k \in 1..n : r[k] = step[<<r[k - 1], texts[k]>>]
  BY <1>5 DEF GoesThrough
<1> HIDE DEF n, J
<1>7. ASSUME NEW k \in 0..n, k # 0 PROVE r[k] = Paragraph(r[k - 1], texts[k])
  <2>1. k \in 1..n /\ k - 1 \in 0..n
    BY <1>1, <1>7
  <2>2. r[k - 1] \in A /\ texts[k] \in S
    BY <1>1, <1>6, <2>1
  <2> QED
    BY <1>6, <2>1, <2>2 DEF step
<1>8. IsJoin(r)
  BY <1>6, <1>7
<1>9. IsJoin(J)
  <2> HIDE DEF IsJoin
  <2> QED
    BY <1>4, <1>8
<1>10. J[0] = start /\ \A k \in 1..n : J[k] = Paragraph(J[k - 1], texts[k])
  <2>1. 0 \in 0..n /\ \A k \in 1..n : k \in 0..n /\ k # 0
    BY <1>1
  <2> QED
    BY <1>9, <2>1
<1>11. \A k \in 0..n : J[k] \in A
  <2> DEFINE P == {k \in 0..n : J[k] \in A}
  <2>1. 0 \in P
    BY <1>1, <1>2, <1>10
  <2>2. ASSUME NEW k \in 0..n, k # n, k \in P PROVE k + 1 \in P
    <3>1. k + 1 \in 1..n /\ k + 1 \in 0..n /\ (k + 1) - 1 = k
      BY <1>1, <2>2
    <3>2. J[k + 1] = Paragraph(J[k], texts[k + 1])
      BY <1>10, <3>1
    <3>3. J[k] \in A /\ texts[k + 1] \in S
      BY <1>1, <2>2, <3>1
    <3>4. Paragraph(J[k], texts[k + 1]) = step[<<J[k], texts[k + 1]>>]
      BY <3>3 DEF step
    <3> QED
      BY <1>3, <3>1, <3>2, <3>3, <3>4
  <2>3. \A k \in 0..n : k \in P
    <3> HIDE DEF P
    <3> QED
      BY <1>1, <2>1, <2>2, UpTo
  <2> QED
    BY <2>3
<1>12. J \in [0..n -> A]
  BY <1>9, <1>11
<1> QED
  BY <1>10, <1>12 DEF n, A, J, start, JoinGoes

\* An element added to the end of a sequence or of two.
LEMMA AppendLaws ==
  ASSUME NEW S, NEW p \in Seq(S), NEW q \in Seq(S), NEW t \in S
  PROVE  /\ Append(q, t) = q \o <<t>>
         /\ p \o Append(q, t) = (p \o q) \o <<t>>
         /\ q \o <<>> = q /\ p \o q \in Seq(S)
<1>1. <<t>> \in Seq(S) /\ Append(q, t) = q \o <<t>>
  BY AppendIsConcat
<1>2. p \o (q \o <<t>>) = (p \o q) \o <<t>>
  BY <1>1, ConcatAssociative
<1>3. q \o <<>> = q
  BY ConcatEmptySeq
<1> QED
  BY <1>1, <1>2, <1>3

\* The join keeps every text that says something.
JoinKeeps(first, texts, T) ==
  Kept(Joined(first, texts)[Len(texts)], T) = Kept(Said(first) \o texts, T)

LEMMA JoinedSound ==
  ASSUME NEW S, NEW first \in S, NEW texts \in Seq(S), NEW T, NoText \notin T
  PROVE  JoinKeeps(first, texts, T)
<1> DEFINE n == Len(texts)
           J == Joined(first, texts)
           K == KeptUpTo(texts, T)
           start == Said(first)
           a == [k \in 0..n |-> Kept(J[k], T)]
           b == [k \in 0..n |-> Kept(start, T) \o K[k]]
<1>1. n \in Nat /\ \A k \in 1..n : texts[k] \in S
  OBVIOUS
<1>2. J \in [0..n -> Seq(S)] /\ JoinGoes(J, first, texts)
  BY JoinedSteps
<1>3. K \in [0..n -> Seq(S \cap T)] /\ Goes(K, texts, T)
  BY KeptSteps
<1>4. start \in Seq(S) /\ Kept(start, T) \in Seq(S)
  BY SaidType, KeptType
<1>5. /\ J[0] = start /\ \A k \in 1..n : J[k] = Paragraph(J[k - 1], texts[k])
      /\ K[0] = <<>>
      /\ \A k \in 1..n : K[k] = IF texts[k] \in T THEN Append(K[k - 1], texts[k]) ELSE K[k - 1]
  BY <1>2, <1>3 DEF JoinGoes, Goes
<1>6. KeptOfBoth(start, texts, T)
  BY <1>4, KeptConcat
<1>7. Kept(texts, T) = K[n]
  BY DEF Kept
<1> HIDE DEF n, J, K, start
<1>8. 0 \in 0..n /\ n \in 0..n /\ \A k \in 1..n : k \in 0..n /\ k - 1 \in 0..n
  BY <1>1
<1>9. a[0] = b[0]
  BY <1>4, <1>5, <1>8, ConcatEmptySeq
<1>10. ASSUME NEW k \in 1..n
       PROVE  \E x : a[k] = a[k - 1] \o x /\ b[k] = b[k - 1] \o x
  <2> DEFINE s == J[k - 1]
             t == texts[k]
             p == Kept(start, T)
             q == K[k - 1]
             u == Kept(s, T)
  <2>1. s \in Seq(S) /\ q \in Seq(S) /\ t \in S
    BY <1>1, <1>2, <1>3, <1>8
  <2>2. /\ J[k] = Paragraph(s, t)
        /\ K[k] = IF t \in T THEN Append(q, t) ELSE q
    BY <1>5
  <2>3. a[k] = Kept(J[k], T) /\ a[k - 1] = u /\ b[k] = p \o K[k] /\ b[k - 1] = p \o q
    BY <1>8
  <2>4. u \in Seq(S)
    BY <2>1, KeptType
  <2> HIDE DEF a, b, s, t, q
  <2>5. KeptLonger(s, t, T)
    BY <2>1, KeptAppend
  <2>6. Kept(J[k], T) = IF t \in T THEN Append(u, t) ELSE u
    <3>1. CASE s = <<>> /\ t = NoText
      <4>1. J[k] = s
        BY <2>2, <3>1, ParagraphAdded
      <4> QED
        BY <3>1, <4>1
    <3>2. CASE ~(s = <<>> /\ t = NoText)
      <4>1. J[k] = Append(s, t)
        BY <2>2, <3>2, ParagraphAdded
      <4> QED
        BY <2>5, <4>1 DEF KeptLonger
    <3> QED
      BY <3>1, <3>2
  <2> HIDE DEF p, u
  <2>7. p \in Seq(S)
    BY <1>4 DEF p
  <2>8. CASE t \in T
    <3>1. Append(u, t) = u \o <<t>>
      BY <2>1, <2>4, AppendLaws
    <3>2. p \o Append(q, t) = (p \o q) \o <<t>>
      BY <2>1, <2>7, AppendLaws
    <3>3. a[k] = Append(u, t) /\ b[k] = p \o Append(q, t)
      BY <2>2, <2>3, <2>6, <2>8, Zenon
    <3>4. a[k] = a[k - 1] \o <<t>> /\ b[k] = b[k - 1] \o <<t>>
      BY <2>3, <3>1, <3>2, <3>3, Zenon
    <3> QED
      BY <3>4
  <2>9. CASE t \notin T
    <3>1. u \o <<>> = u /\ (p \o q) \o <<>> = p \o q
      BY <2>1, <2>4, <2>7, AppendLaws
    <3> QED
      BY <2>2, <2>3, <2>6, <2>9, <3>1
  <2> QED
    BY <2>8, <2>9
<1>11. a[n] = b[n]
  <2> HIDE DEF a, b
  <2> QED
    BY <1>1, <1>9, <1>10, SameSums
<1>12. Kept(J[n], T) = Kept(start, T) \o K[n]
  BY <1>8, <1>11
<1> QED
  BY <1>6, <1>7, <1>12 DEF JoinKeeps, KeptOfBoth, n, J, start

\* Below 2^31 the conversion changes nothing.
LEMMA Int32Exact ==
  ASSUME NEW n \in Nat, n < HalfWord
  PROVE  Int32(n) = n
<1>1. n + HalfWord \in 0..(2 * HalfWord - 1) /\ 2 * HalfWord \in Nat \ {0}
  BY HalfWordAssumption
<1>2. (n + HalfWord) % (2 * HalfWord) = n + HalfWord
  <2> DEFINE a == n + HalfWord
             m == 2 * HalfWord
  <2>1. a \in Int /\ m \in Int /\ 0 <= a /\ a < m
    BY <1>1, HalfWordAssumption
  <2> HIDE DEF a, m
  <2>2. a % m = a
    BY <2>1
  <2> QED
    BY <2>2 DEF a, m
<1> QED
  BY <1>2, HalfWordAssumption DEF Int32

\* What a vendor is sent says what a request says.
Says(v, req, wire) ==
  /\ SaidOn(wire) = SaidIn(v, req)
  /\ CASE v = "google" -> SystemOn(wire) = Said(req.systemPrompt)
       [] v \in {"anthropic", "minimax"} -> Worded(SystemOn(wire)) = Worded(SystemIn(req))
       [] OTHER -> SystemOn(wire) = SystemIn(req)
  /\ IF v \in ImageVendors THEN UserImagesOn(wire) = UserImagesIn(req)
     ELSE \A images \in ToSet(UserImagesOn(wire)) : images = <<>>
  /\ (/\ req.limit > 0 /\ v # "ollama"
      /\ v = "google" => req.limit < HalfWord) => wire.limit = req.limit

\* toSDKRequest of each of the eight adapters, for every request and list of
\* tools: it says what the request says and offers the tools it was given.
THEOREM RequestSound ==
  ASSUME NEW v \in AllVendors, NEW given \in Seq(ATool), NEW req \in ARequest
  PROVE  /\ Says(v, req, ToSDKRequest(v, given, req))
         /\ Offers(v, ToSDKRequest(v, given, req).tools, given)
<1> DEFINE wire == ToSDKRequest(v, given, req)
<1>1. Sends(v, req, wire.dialog)
  BY WireDialog
<1>2. wire.system = CASE v \in {"anthropic", "minimax"} -> LiftedSystem(req)
                      [] v = "google" -> Said(req.systemPrompt)
                      [] OTHER -> <<>>
  BY DEF AllVendors, ToSDKRequest, OpenAIRequest, KimiRequest, DeepSeekRequest, AnthropicRequest,
         MiniMaxRequest, GoogleRequest, ArkRequest, OllamaRequest, Wire
<1>3. (/\ req.limit > 0 /\ v # "ollama"
       /\ v = "google" => req.limit < HalfWord) => wire.limit = req.limit
  <2>1. wire.limit = CASE v = "ollama" -> 0
                       [] v = "google" -> Int32(Limit(req))
                       [] v \in {"anthropic", "minimax"} -> AnthropicLimit(req.limit)
                       [] OTHER -> Limit(req)
    BY DEF AllVendors, ToSDKRequest, OpenAIRequest, KimiRequest, DeepSeekRequest, AnthropicRequest,
           MiniMaxRequest, GoogleRequest, ArkRequest, OllamaRequest, Wire
  <2>2. req.limit \in Int
    BY DEF ARequest
  <2> DEFINE n == req.limit
  <2>3. n > 0 /\ n < HalfWord => Int32(n) = n
    BY <2>2, Int32Exact
  <2>4. n > 0 => Limit(req) = n /\ AnthropicLimit(n) = n
    BY DEF Limit, AnthropicLimit
  <2> HIDE DEF wire
  <2> QED
    BY <2>1, <2>3, <2>4
<1>4. Offers(v, wire.tools, given)
  BY ToolsSent
<1> HIDE DEF wire
<1>5. SaidOn(wire) = SaidIn(v, req)
  BY <1>1, SaysAll
<1>6. IF v \in ImageVendors THEN UserImagesOn(wire) = UserImagesIn(req)
      ELSE \A images \in ToSet(UserImagesOn(wire)) : images = <<>>
  BY <1>1, ImagesBy
<1>7. SystemOn(wire) = wire.system
           \o (IF v \in {"anthropic", "minimax", "google"} THEN <<>> ELSE SystemIn(req))
  BY <1>1, SystemBy
<1>8. /\ Said(req.systemPrompt) \in Seq(STRING)
      /\ SystemIn(req) \in Seq(STRING)
      /\ LiftedSystem(req) \in Seq(STRING)
      /\ Worded(LiftedSystem(req)) = Worded(SystemIn(req))
  <2>1. req.systemPrompt \in STRING /\ req.turns \in Seq(ATurn)
    BY DEF ARequest
  <2>2. Said(req.systemPrompt) \in Seq(STRING)
    <3> DEFINE x == req.systemPrompt
               S == STRING
    <3>1. x \in S /\ Said(x) = IF x = NoText THEN <<>> ELSE <<x>>
      BY <2>1 DEF Said
    <3> HIDE DEF x, S
    <3>2. <<>> \in Seq(S) /\ <<x>> \in Seq(S)
      BY <3>1
    <3>3. Said(x) \in Seq(S)
      BY <3>1, <3>2
    <3> QED
      BY <3>3 DEF x, S
  <2>3. Kept(req.turns, TurnsIn({"system"})) \in Seq(ATurn)
    BY <2>1, KeptType
  <2> DEFINE systems == Kept(req.turns, TurnsIn({"system"}))
             texts == [k \in DOMAIN systems |-> systems[k].text]
  <2>4. SystemIn(req) = Said(req.systemPrompt) \o texts
    BY <2>1, RolesKept DEF SystemIn, Mapped
  <2>5. texts \in Seq(STRING)
    <3> DEFINE n == Len(systems)
               S == STRING
    <3>1. systems \in [1..n -> ATurn] /\ n \in Nat
      BY <2>3
    <3> HIDE DEF systems, n, S
    <3>2. \A k \in 1..n : systems[k].text \in S
      BY <3>1 DEF ATurn, S
    <3>3. texts \in [1..n -> S]
      BY <3>1, <3>2
    <3> HIDE DEF texts
    <3>4. texts \in Seq(S)
      BY <3>1, <3>3
    <3> QED
      BY <3>4 DEF S
  <2>6. LiftedSystem(req) = Joined(req.systemPrompt, texts)[Len(texts)]
    BY <2>1, RolesKept DEF LiftedSystem, Mapped
  <2> HIDE DEF texts
  <2> DEFINE S == STRING
             T == {x \in STRING : x # NoText}
             in == SystemIn(req)
             lifted == LiftedSystem(req)
  <2>7. in \in Seq(S)
    BY <2>2, <2>4, <2>5
  <2>8. lifted \in Seq(S)
    <3>1. req.systemPrompt \in S /\ texts \in Seq(S)
      BY <2>1, <2>5
    <3> HIDE DEF S
    <3>2. Joined(req.systemPrompt, texts) \in [0..Len(texts) -> Seq(S)]
      BY <3>1, JoinedSteps
    <3>3. Len(texts) \in 0..Len(texts)
      BY <3>1
    <3> QED
      BY <2>6, <3>2, <3>3
  <2>9. Kept(lifted, T) = Kept(in, T)
    <3>1. req.systemPrompt \in S /\ texts \in Seq(S) /\ NoText \notin T
      BY <2>1, <2>5
    <3> HIDE DEF S, T
    <3>2. JoinKeeps(req.systemPrompt, texts, T)
      BY <3>1, JoinedSound
    <3> QED
      BY <2>4, <2>6, <3>2 DEF JoinKeeps
  <2>10. ASSUME NEW s \in Seq(S) PROVE Worded(s) = Kept(s, T)
    <3> DEFINE W == {x \in ToSet(s) : x # NoText}
    <3>1. \A x \in S : x \in ToSet(s) => (x \in W <=> x \in T)
      OBVIOUS
    <3>2. Worded(s) = Kept(s, W)
      BY DEF Worded, Where
    <3> HIDE DEF S, T, W
    <3> QED
      BY <3>1, <3>2, KeptRange
  <2> HIDE DEF S, T, in, lifted
  <2>11. Worded(lifted) = Worded(in)
    BY <2>7, <2>8, <2>9, <2>10
  <2> QED
    BY <2>2, <2>7, <2>8, <2>11 DEF S, in, lifted
<1>9. /\ v \in {"anthropic", "minimax"} => Worded(SystemOn(wire)) = Worded(SystemIn(req))
      /\ v \notin {"anthropic", "minimax", "google"} => SystemOn(wire) = SystemIn(req)
  <2>1. CASE v \in {"anthropic", "minimax"}
    <3>1. SystemOn(wire) = LiftedSystem(req) \o <<>>
      BY <1>2, <1>7, <2>1
    <3>2. SystemOn(wire) = LiftedSystem(req)
      BY <1>8, <3>1, ConcatEmptySeq
    <3> QED
      BY <1>8, <2>1, <3>2
  <2>2. CASE v \notin {"anthropic", "minimax", "google"}
    <3>1. SystemOn(wire) = <<>> \o SystemIn(req)
      BY <1>2, <1>7, <2>2
    <3> QED
      BY <1>8, <3>1, ConcatEmptySeq
  <2> QED
    BY <2>1, <2>2
<1>10. v = "google" => SystemOn(wire) = Said(req.systemPrompt)
  <2>1. v = "google" => SystemOn(wire) = Said(req.systemPrompt) \o <<>>
    BY <1>2, <1>7
  <2> QED
    BY <1>8, <2>1, ConcatEmptySeq
<1>11. Says(v, req, wire)
  BY <1>3, <1>5, <1>6, <1>9, <1>10 DEF Says
<1> QED
  BY <1>4, <1>11 DEF wire

-----------------------------------------------------------------------------
(* Requests, failures and images of a call.                                *)

LEMMA OverwrittenSound ==
  ASSUME NEW req \in ARequest
  PROVE  Overwritten(req) \in ARequest
<1> DEFINE turns == req.turns
           n == Len(turns)
           edited_ == [turns EXCEPT ![n] = [turns[n] EXCEPT !.text = EditedText]]
<1>1. /\ req = [systemPrompt |-> req.systemPrompt, turns |-> req.turns, limit |-> req.limit]
      /\ req.systemPrompt \in STRING /\ turns \in Seq(ATurn) /\ req.limit \in Int
  BY DEF ARequest
<1>2. Overwritten(req) = [systemPrompt |-> req.systemPrompt, turns |-> edited_, limit |-> req.limit]
  <2>1. Overwritten(req) = [req EXCEPT !.turns = edited_]
    BY DEF Overwritten
  <2>2. req = [systemPrompt |-> req.systemPrompt, turns |-> req.turns, limit |-> req.limit]
    BY <1>1
  <2> HIDE DEF edited_
  <2> QED
    BY <2>1, <2>2
<1>3. turns \in [1..n -> ATurn] /\ n \in Nat
  BY <1>1
<1> HIDE DEF turns, n
<1>4. edited_ \in [1..n -> ATurn]
  <2>1. \A k \in 1..n : [turns[k] EXCEPT !.text = EditedText] \in ATurn
    BY <1>3, AskedAssumption DEF ATurn
  <2> QED
    BY <1>3, <2>1
<1> HIDE DEF edited_
<1>5. edited_ \in Seq(ATurn)
  BY <1>3, <1>4
<1> QED
  BY <1>1, <1>2, <1>5 DEF ARequest

\* What is told of a status an answer has, and of a failure without one.
AReply == [status : 200..599, retryAfter : BOOLEAN, quota : BOOLEAN, code : Nat,
           blocked : BOOLEAN, items : Seq(Item)]
TellsOf(v, f, e) ==
  /\ e \in Error_
  /\ e.class = "canceled" <=> f.kind = "canceled"
  /\ e.class \in {"transient", "ratelimit"} => Fleeting(f)
  /\ e.class \in {"auth", "invalid"} => Lasting(f) \/ (v = "google" /\ f.kind = "garbled")
  /\ e.class = "plain" =>
       \/ f.kind = "garbled"
       \/ f.kind = "status" /\ f.status \in 501..599 /\ v \notin {"google", "ollama"}
  /\ e.retryAfter => f.retryAfter
  /\ (f.kind = "status" /\ f.status = 429 /\ f.retryAfter) => e.retryAfter \/ v \in {"volcengine", "google"}

LEMMA StatusTold ==
  ASSUME NEW v, NEW f \in AnyFailure, f.kind = "status"
  PROVE  TellsOf(v, f, WrapErr(v, f))
<1> DEFINE routing == Routing(v)
           e == WrapErr(v, f)
<1>1. e = ByStatus(routing, f)
  BY DEF WrapErr, StatusFirst, NetErrors
<1>2. f.status \in 400..599 /\ f.retryAfter \in BOOLEAN /\ f.quota \in BOOLEAN
  BY DEF AnyFailure
<1>3. /\ e.class \in {"auth", "ratelimit", "transient", "invalid", "plain"}
      /\ e.class = "auth" => f.status \in {401, 403}
      /\ e.class \in {"transient", "ratelimit"} => f.status = 429 \/ f.status >= 500
      /\ f.status = 429 => e.class = "ratelimit"
      /\ e.class = "invalid" => f.status \in (400..499) \ {401, 403, 429}
  BY OfStatus
<1>4. routing.header \in BOOLEAN /\ routing.reason \in BOOLEAN
      /\ (routing.header \/ v \in {"volcengine", "google"})
  BY DEF Routing, OpenAIRouting, AnthropicRouting, ArkRouting, GoogleRouting, OllamaRouting
<1>5. 429 \in routing.limits /\ routing.unknown \in {"plain", "invalid"}
  BY RoutingSound DEF Sound
<1>6. e.class = "plain" => f.status \in 501..599 /\ v \notin {"google", "ollama"}
  <2> SUFFICES ASSUME e.class = "plain" PROVE f.status \in 501..599 /\ v \notin {"google", "ollama"}
    OBVIOUS
  <2>1. f.status \notin {401, 403} /\ f.status \notin routing.limits /\ f.status \notin routing.faults
        /\ f.status \notin routing.rest
    BY <1>1, <1>5 DEF ByStatus, Error
  <2>2. (400..499) \ {401, 403, 429} \subseteq routing.rest /\ 500 \in routing.faults
    BY DEF Routing, OpenAIRouting, AnthropicRouting, ArkRouting, GoogleRouting, OllamaRouting, Routed4xx
  <2>3. v \in {"google", "ollama"} => 500..599 \subseteq routing.faults
    BY DEF Routing, GoogleRouting, OllamaRouting
  <2> HIDE DEF routing, e
  <2> QED
    BY <1>2, <1>5, <2>1, <2>2, <2>3
<1> HIDE DEF routing
<1>7. e \in Error_ /\ (e.retryAfter => f.retryAfter)
  <2> DEFINE a == routing.header /\ f.retryAfter
             b == routing.reason /\ f.quota
             limited == [class |-> "ratelimit", retryAfter |-> a, quota |-> b]
  <2>1. e = limited \/ e \in {Error("auth"), Error("transient"), Error("invalid"), Error(routing.unknown)}
    BY <1>1 DEF ByStatus
  <2>2. a \in BOOLEAN /\ b \in BOOLEAN /\ (a => f.retryAfter)
    OBVIOUS
  <2> HIDE DEF a, b, e
  <2>3. CASE e = limited
    BY <2>2, <2>3 DEF Error_, Classes
  <2>4. CASE e \in {Error("auth"), Error("transient"), Error("invalid"), Error(routing.unknown)}
    <3>1. PICK c \in {"auth", "transient", "invalid", "plain"} : e = Error(c)
      BY <1>5, <2>4
    <3>2. e = [class |-> c, retryAfter |-> FALSE, quota |-> FALSE]
      BY <3>1 DEF Error
    <3>3. e \in Error_
      BY <3>2 DEF Error_, Classes
    <3>4. e.retryAfter = FALSE
      BY <3>2
    <3> QED
      BY <3>3, <3>4
  <2> QED
    BY <2>1, <2>3, <2>4
<1>8. (f.status = 429 /\ f.retryAfter) => e.retryAfter \/ v \in {"volcengine", "google"}
  <2> SUFFICES ASSUME f.status = 429, f.retryAfter, v \notin {"volcengine", "google"}
               PROVE  e.retryAfter
    OBVIOUS
  <2> DEFINE a == routing.header /\ f.retryAfter
  <2>1. a = TRUE
    BY <1>4
  <2>2. e = [class |-> "ratelimit", retryAfter |-> a, quota |-> routing.reason /\ f.quota]
    <3> DEFINE limited == [class |-> "ratelimit", retryAfter |-> a, quota |-> routing.reason /\ f.quota]
    <3>1. e = limited \/ e \in {Error("auth"), Error("transient"), Error("invalid"), Error(routing.unknown)}
      BY <1>1 DEF ByStatus
    <3> HIDE DEF e, limited
    <3>2. \A c \in {"auth", "transient", "invalid", "plain"} : e # Error(c)
      BY <1>3 DEF Error
    <3>3. e = limited
      BY <1>5, <3>1, <3>2
    <3> QED
      BY <3>3 DEF limited
  <2> HIDE DEF a, e
  <2>3. e.retryAfter = TRUE
    BY <2>1, <2>2
  <2> QED
    BY <2>3
<1> HIDE DEF e
<1>9. /\ e.class # "canceled"
      /\ e.class \in {"transient", "ratelimit"} => Fleeting(f)
      /\ e.class \in {"auth", "invalid"} => Lasting(f)
  BY <1>2, <1>3 DEF Fleeting, Lasting
<1> QED
  BY <1>6, <1>7, <1>8, <1>9 DEF TellsOf, e

LEMMA FailureTold ==
  ASSUME NEW v, NEW kind \in {"canceled", "deadline", "net", "garbled"}
  PROVE  TellsOf(v, Failure(kind), WrapErr(v, Failure(kind)))
<1> DEFINE f == Failure(kind)
<1>1. f \in AnyFailure /\ f.kind = kind /\ f.status = 0 /\ ~f.retryAfter
  BY DEF Failure, AnyFailure, Kinds
<1> HIDE DEF f
<1>2. WrapErr(v, f) = CASE kind = "canceled" -> Error("canceled")
                        [] kind \in {"deadline", "net"} -> Error("transient")
                        [] OTHER -> Error(Routing(v).unknown)
  BY <1>1, WithoutStatus
<1>3. Routing(v).unknown \in {"plain", "invalid"} /\ (Routing(v).unknown = "invalid" => v = "google")
  BY DEF Routing, OpenAIRouting, AnthropicRouting, ArkRouting, GoogleRouting, OllamaRouting
<1>4. TellsOf(v, f, WrapErr(v, f))
  <2>1. CASE kind = "canceled"
    BY <1>1, <1>2, <2>1 DEF TellsOf, Error, Error_, Classes
  <2>2. CASE kind \in {"deadline", "net"}
    BY <1>1, <1>2, <2>2 DEF TellsOf, Error, Error_, Classes, Fleeting
  <2>3. CASE kind = "garbled"
    BY <1>1, <1>2, <1>3, <2>3 DEF TellsOf, Error, Error_, Classes
  <2> QED
    BY <2>1, <2>2, <2>3
<1> QED
  BY <1>4 DEF f

\* The advice is right about a context that ended, a connection that failed and
\* an answer that does not parse.
LEMMA FailureAdvised ==
  ASSUME NEW kind \in {"canceled", "deadline", "net", "garbled"},
         kind = "canceled" => ctxErr = "canceled"
  PROVE  LET f == Failure(kind) IN
         Classified(f) \in Error_ /\ AdviceIsRight(f, Classified(f))
<1> DEFINE f == Failure(kind)
           e == Classified(f)
<1>1. f.kind = kind /\ f.status = 0
  BY DEF Failure
<1> HIDE DEF f
<1>2. CASE Raw(op)
  <2>1. e = IF kind = "canceled" THEN Error("canceled") ELSE Error("plain")
    BY <1>1, <1>2 DEF Classified, PostJSONError
  <2> HIDE DEF e
  <2>2. e \in Error_ /\ e.class \in {"canceled", "plain"} /\ e.retryAfter = FALSE
        /\ (e.class = "canceled" => kind = "canceled")
    BY <2>1 DEF Error, Error_, Classes
  <2>3. AdviceIsRight(f, e)
    BY <1>1, <1>2, <2>2 DEF AdviceIsRight
  <2> QED
    BY <2>2, <2>3 DEF e, f
<1>3. CASE ~Raw(op)
  <2>1. e = WrapErr(vendor, f)
    BY <1>1, <1>3 DEF Classified
  <2>2. TellsOf(vendor, f, e)
    BY <2>1, FailureTold DEF f
  <2> HIDE DEF e
  <2>3. ~f.retryAfter
    BY DEF f, Failure
  <2>4. AdviceIsRight(f, e)
    BY <1>1, <2>2, <2>3 DEF AdviceIsRight, TellsOf
  <2> QED
    BY <2>2, <2>4 DEF e, f, TellsOf
<1> QED
  BY <1>2, <1>3

\* And about what an answer refuses.
LEMMA RefusalAdvised ==
  ASSUME NEW r \in AReply, reply = <<r>>, NEW f \in Failures(r)
  PROVE  Classified(f) \in Error_ /\ AdviceIsRight(f, Classified(f))
<1> DEFINE e == Classified(f)
<1>1. r.status \in 200..599 /\ r.retryAfter \in BOOLEAN /\ r.quota \in BOOLEAN /\ r.code \in Nat /\ reply[1] = r
      /\ reply # <<>>
  BY DEF AReply
<1>2. CASE r.status >= 400
  <2>1. f = [kind |-> "status", status |-> r.status, code |-> 0, retryAfter |-> r.retryAfter, quota |-> r.quota]
    BY <1>2 DEF Failures, StatusFailure, Failure
  <2>2. f \in AnyFailure /\ f.kind = "status" /\ f.retryAfter = r.retryAfter
    BY <1>1, <1>2, <2>1 DEF AnyFailure, Kinds
  <2>3. CASE Raw(op)
    <3>1. e = Error("transient")
      BY <2>2, <2>3 DEF Classified, PostJSONError
    <3> HIDE DEF e
    <3>2. e \in Error_ /\ e.class = "transient" /\ e.retryAfter = FALSE
      BY <3>1 DEF Error, Error_, Classes
    <3>3. AdviceIsRight(f, e)
      BY <2>2, <2>3, <3>2 DEF AdviceIsRight
    <3> QED
      BY <3>2, <3>3 DEF e
  <2>4. CASE ~Raw(op)
    <3>1. e = WrapErr(vendor, f)
      BY <2>2, <2>4 DEF Classified
    <3>2. TellsOf(vendor, f, e)
      BY <2>2, <3>1, StatusTold
    <3> HIDE DEF e
    <3>3. AdviceIsRight(f, e)
      BY <1>1, <2>2, <3>2 DEF AdviceIsRight, TellsOf
    <3> QED
      BY <3>2, <3>3 DEF e, TellsOf
  <2> QED
    BY <2>3, <2>4
<1>3. ASSUME f.kind \in {"blocked", "undecodable"}
      PROVE  e \in Error_ /\ AdviceIsRight(f, e)
  <2>1. e = Error("invalid")
    BY <1>3 DEF Classified
  <2> HIDE DEF e
  <2>2. e \in Error_ /\ e.class = "invalid" /\ e.retryAfter = FALSE
    BY <2>1 DEF Error, Error_, Classes
  <2> QED
    BY <1>3, <2>2 DEF AdviceIsRight, Lasting
<1>4. CASE r.status < 400 /\ Raw(op) /\ r.code # 0
  <2>1. f = [kind |-> "code", status |-> 0, code |-> r.code, retryAfter |-> FALSE, quota |-> FALSE]
    BY <1>1, <1>4 DEF Failures, Refusals, CodeFailure, Failure
  <2>2. e = BaseRespError(r.code)
    BY <1>4, <2>1 DEF Classified, PostJSONError
  <2>3. f.kind = "code" /\ f.code = r.code /\ f.retryAfter = FALSE
    BY <2>1
  <2>4. \/ r.code \in {1002, 1039} /\ e = Error("ratelimit")
        \/ r.code \in {1013, 1027} /\ e = Error("transient")
        \/ r.code \notin {1002, 1039, 1013, 1027} /\ e \in {Error("auth"), Error("invalid")}
    BY <1>1, <2>2 DEF BaseRespError
  <2> HIDE DEF e
  <2>5. e \in Error_ /\ e.retryAfter = FALSE
    <3>1. PICK c \in {"auth", "ratelimit", "transient", "invalid"} : e = Error(c)
      BY <2>4
    <3> QED
      BY <3>1 DEF Error, Error_, Classes
  <2>6. \/ r.code \in {1002, 1039, 1013, 1027} /\ e.class \in {"ratelimit", "transient"}
        \/ r.code \notin {1002, 1039, 1013, 1027} /\ e.class \in {"auth", "invalid"}
    BY <2>4 DEF Error
  <2> QED
    BY <2>3, <2>5, <2>6 DEF AdviceIsRight, Fleeting, Lasting, e
<1>5. CASE r.status < 400 /\ ~(Raw(op) /\ r.code # 0)
  <2>1. f \in {Failure("blocked"), Failure("undecodable")}
    BY <1>1, <1>5 DEF Failures, Refusals
  <2>2. f.kind \in {"blocked", "undecodable"}
    BY <2>1 DEF Failure
  <2> QED
    BY <1>3, <2>2
<1> QED
  BY <1>1, <1>2, <1>4, <1>5

-----------------------------------------------------------------------------
(* Images of an answer.                                                    *)

Shown == {"bytes", "url"}
UsableItems ==
  {i \in Item : ~i.nil /\ ((vendor # "minimax" /\ i.b64 = "good") \/ (vendor # "google" /\ i.url))}
BestOf(i) == IF vendor # "minimax" /\ i.b64 = "good" THEN "bytes" ELSE "url"

HandsOn(images, usable) ==
  Where(images, LAMBDA i : i # "empty") = [k \in DOMAIN usable |-> BestOf(usable[k])]

LEMMA HandedOnBy ==
  ASSUME NEW items \in Seq(Item), NEW images
  PROVE  ImagesHandedOn(images, items) <=> HandsOn(images, Kept(items, UsableItems))
<1> DEFINE U == UsableItems
           T == {i \in ToSet(items) : ~i.nil /\ ((vendor # "minimax" /\ i.b64 = "good") \/ (vendor # "google" /\ i.url))}
<1>1. ImagesHandedOn(images, items) <=> HandsOn(images, Kept(items, T))
  BY DEF ImagesHandedOn, HandsOn, Where, Mapped, BestOf
<1>2. \A i \in Item : i \in ToSet(items) => (i \in T <=> i \in U)
  BY DEF UsableItems
<1> HIDE DEF T, U
<1>3. Kept(items, T) = Kept(items, U)
  BY <1>2, KeptRange
<1> QED
  BY <1>1, <1>3 DEF U

\* An adapter that picks items and makes an image of each hands on the usable
\* ones if these are the ones it picks and does not make an empty image of.
LEMMA PickedHandedOn ==
  ASSUME NEW S, S \subseteq Item, NEW items \in Seq(S), NEW A, NEW f,
         \A i \in S : f[i] \in {"bytes", "url", "empty"},
         \A i \in S : i \in UsableItems <=> i \in A /\ f[i] # "empty",
         \A i \in UsableItems \cap S : f[i] = BestOf(i),
         NEW images, images = Each(f, Kept(items, A))
  PROVE  images \in Images /\ ImagesHandedOn(images, items)
<1> DEFINE U == UsableItems
           g == [i \in Item |-> BestOf(i)]
           picked == Kept(items, A)
           usable == Kept(items, U)
<1>1. picked \in Seq(S)
  BY KeptType
<1>2. images \in Seq({"bytes", "url", "empty"})
  <2> DEFINE R == {f[i] : i \in S}
             X == {"bytes", "url", "empty"}
  <2>1. images \in Seq(R)
    BY <1>1, EachRange
  <2>2. R \subseteq X
    OBVIOUS
  <2> HIDE DEF R, X
  <2>3. images \in Seq(X)
    BY <2>1, <2>2
  <2> QED
    BY <2>3 DEF X
<1>3. Where(images, LAMBDA i : i # "empty") = Kept(images, Shown)
  <2> DEFINE T == {i \in ToSet(images) : i # "empty"}
  <2>1. Where(images, LAMBDA i : i # "empty") = Kept(images, T)
    BY DEF Where
  <2>2. \A i \in {"bytes", "url", "empty"} : i \in ToSet(images) => (i \in T <=> i \in Shown)
    BY DEF Shown
  <2> HIDE DEF T
  <2>3. Kept(images, T) = Kept(images, Shown)
    BY <1>2, <2>2, KeptRange
  <2> QED
    BY <2>1, <2>3
<1> DEFINE B == {i \in S : f[i] # "empty"}
<1>4. Kept(images, Shown) = Each(f, Kept(picked, B))
  <2>1. Passes(f, S, B, Shown)
    BY DEF Passes, Shown
  <2> HIDE DEF B, picked
  <2>2. Kept(Each(f, picked), Shown) = Each(f, Kept(picked, B))
    BY <1>1, <2>1, KeptEach
  <2> QED
    BY <2>2 DEF picked
<1>5. Kept(picked, B) = usable
  <2>1. Kept(picked, B) = Kept(items, A \cap B)
    <3> HIDE DEF B
    <3> QED
      BY KeptTwice
  <2>2. \A i \in S : i \in A \cap B <=> i \in U
    OBVIOUS
  <2> HIDE DEF B, U
  <2>3. Kept(items, A \cap B) = Kept(items, U)
    BY <2>2, KeptSame
  <2> QED
    BY <2>1, <2>3
<1>6. usable \in Seq(S \cap U)
  <2> HIDE DEF U
  <2> QED
    BY KeptType
<1>7. \A k \in DOMAIN usable : usable[k] \in S \cap U
  <2> HIDE DEF usable, U
  <2> QED
    BY <1>6
<1>8. Each(f, usable) = [k \in DOMAIN usable |-> BestOf(usable[k])]
  <2> HIDE DEF usable
  <2> QED
    BY <1>7 DEF Each
<1>9. ImagesHandedOn(images, items) <=> HandsOn(images, usable)
  <2>1. items \in Seq(Item)
    OBVIOUS
  <2> QED
    BY <2>1, HandedOnBy
<1> QED
  BY <1>2, <1>3, <1>4, <1>5, <1>8, <1>9 DEF Images, HandsOn

\* GenerateImage of the four vendors that have it: from every answer without a
\* failure, all images and in order.
LEMMA AnswerHandedOn ==
  ASSUME "GenerateImage" \in Ops(vendor), op = "GenerateImage", NEW r \in AReply, Failures(r) = {}
  PROVE  ImagesFrom(r.items) \in Images /\ ImagesHandedOn(ImagesFrom(r.items), r.items)
<1> DEFINE items == r.items
           given == ImagesFrom(items)
           NotNil == {i \in Item : ~i.nil}
           Good == {i \in Item : i.b64 = "good"}
           ByURL == {i \in Item : i.url}
<1>1. items \in Seq(Item) /\ vendor \in {"openai", "minimax", "google", "volcengine"}
  BY DEF AReply, Ops
<1>2. \A i \in Item : i.nil \in BOOLEAN /\ i.b64 \in {"none", "good", "bad"} /\ i.url \in BOOLEAN
                      /\ (i.nil => i.b64 = "none" /\ ~i.url)
  BY DEF Item
<1> HIDE DEF items
<1>3. Present(items) = Kept(items, NotNil)
  <2> DEFINE T == {i \in ToSet(items) : ~i.nil}
  <2>1. Present(items) = Kept(items, T)
    BY DEF Present, Where
  <2>2. \A i \in Item : i \in ToSet(items) => (i \in T <=> i \in NotNil)
    OBVIOUS
  <2> HIDE DEF T, NotNil
  <2> QED
    BY <1>1, <2>1, <2>2, KeptRange
<1>4. Where(items, LAMBDA i : i.b64 = "good") = Kept(items, Good)
  <2> DEFINE T == {i \in ToSet(items) : i.b64 = "good"}
  <2>1. Where(items, LAMBDA i : i.b64 = "good") = Kept(items, T)
    BY DEF Where
  <2>2. \A i \in Item : i \in ToSet(items) => (i \in T <=> i \in Good)
    OBVIOUS
  <2> HIDE DEF T, Good
  <2>3. Kept(items, T) = Kept(items, Good)
    BY <1>1, <2>2, KeptRange
  <2> QED
    BY <2>1, <2>3
<1>5. Where(items, LAMBDA i : i.url) = Kept(items, ByURL)
  <2> DEFINE T == {i \in ToSet(items) : i.url}
  <2>1. Where(items, LAMBDA i : i.url) = Kept(items, T)
    BY DEF Where
  <2>2. \A i \in Item : i \in ToSet(items) => (i \in T <=> i \in ByURL)
    OBVIOUS
  <2> HIDE DEF T, ByURL
  <2>3. Kept(items, T) = Kept(items, ByURL)
    BY <1>1, <2>2, KeptRange
  <2> QED
    BY <2>1, <2>3
<1>6. ASSUME NEW A PROVE \A k \in DOMAIN Kept(items, A) : Kept(items, A)[k] \in Item
  <2>1. Kept(items, A) \in Seq(Item)
    BY <1>1, KeptType
  <2> QED
    BY <2>1
<1>7. CASE vendor = "openai"
  <2> DEFINE f == [i \in Item |-> SDKImage(i)]
  <2>1. given = [k \in DOMAIN items |-> SDKImage(items[k])]
    BY <1>7 DEF ImagesFrom, Mapped
  <2>2. Kept(items, Item) = items
    BY <1>1, KeptAll
  <2>3. given = Each(f, Kept(items, Item))
    BY <1>1, <2>1, <2>2 DEF Each
  <2>4. /\ \A i \in Item : f[i] \in {"bytes", "url", "empty"}
        /\ \A i \in Item : i \in UsableItems <=> i \in Item /\ f[i] # "empty"
        /\ \A i \in UsableItems : f[i] = BestOf(i)
    BY <1>2, <1>7 DEF SDKImage, UsableItems, BestOf
  <2> HIDE DEF given, f
  <2>5. given \in Images /\ ImagesHandedOn(given, items)
    BY <1>1, <2>3, <2>4, PickedHandedOn
  <2> QED
    BY <2>5 DEF given, items
<1>8. CASE vendor = "google" /\ cfg.model = "imagen"
  <2> DEFINE f == [i \in Item |-> BytesImage(i)]
  <2>1. given = [k \in DOMAIN Kept(items, NotNil) |-> BytesImage(Kept(items, NotNil)[k])]
    BY <1>3, <1>8 DEF ImagesFrom, Mapped
  <2>2. /\ \A i \in Item : f[i] \in {"bytes", "url", "empty"}
        /\ \A i \in Item : i \in UsableItems <=> i \in NotNil /\ f[i] # "empty"
        /\ \A i \in UsableItems : f[i] = BestOf(i)
    BY <1>2, <1>8 DEF BytesImage, UsableItems, BestOf
  <2> HIDE DEF given, NotNil
  <2>3. given = Each(f, Kept(items, NotNil))
    BY <1>6, <2>1 DEF Each
  <2> HIDE DEF f
  <2>4. given \in Images /\ ImagesHandedOn(given, items)
    BY <1>1, <2>2, <2>3, PickedHandedOn
  <2> QED
    BY <2>4 DEF given, items
<1>9. CASE vendor = "google" /\ cfg.model # "imagen"
  <2> DEFINE f == [i \in Item |-> BytesImage(i)]
  <2>1. given = [k \in DOMAIN Kept(items, Good) |-> BytesImage(Kept(items, Good)[k])]
    BY <1>4, <1>9 DEF ImagesFrom, Mapped
  <2>2. /\ \A i \in Item : f[i] \in {"bytes", "url", "empty"}
        /\ \A i \in Item : i \in UsableItems <=> i \in Good /\ f[i] # "empty"
        /\ \A i \in UsableItems : f[i] = BestOf(i)
    BY <1>2, <1>9 DEF BytesImage, UsableItems, BestOf
  <2> HIDE DEF given, Good
  <2>3. given = Each(f, Kept(items, Good))
    BY <1>6, <2>1 DEF Each
  <2> HIDE DEF f
  <2>4. given \in Images /\ ImagesHandedOn(given, items)
    BY <1>1, <2>2, <2>3, PickedHandedOn
  <2> QED
    BY <2>4 DEF given, items
<1>10. CASE vendor = "minimax"
  <2> DEFINE f == [i \in Item |-> "url"]
  <2>1. given = [k \in DOMAIN Kept(items, ByURL) |-> "url"]
    BY <1>5, <1>10 DEF ImagesFrom, Mapped
  <2>2. /\ \A i \in Item : f[i] \in {"bytes", "url", "empty"}
        /\ \A i \in Item : i \in UsableItems <=> i \in ByURL /\ f[i] # "empty"
        /\ \A i \in UsableItems : f[i] = BestOf(i)
    BY <1>2, <1>10 DEF UsableItems, BestOf
  <2> HIDE DEF given, ByURL
  <2>3. given = Each(f, Kept(items, ByURL))
    BY <1>6, <2>1 DEF Each
  <2> HIDE DEF f
  <2>4. given \in Images /\ ImagesHandedOn(given, items)
    BY <1>1, <2>2, <2>3, PickedHandedOn
  <2> QED
    BY <2>4 DEF given, items
<1>11. CASE vendor = "volcengine"
  <2> DEFINE S == {i \in Item : ~i.nil /\ i.b64 # "bad"}
             f == [i \in Item |-> ArkImage(i)]
             p == Kept(items, NotNil)
  <2>1. given = [k \in DOMAIN p |-> ArkImage(p[k])]
    BY <1>3, <1>11 DEF ImagesFrom, Mapped
  <2>2. ~(\E i \in ToSet(p) : i.b64 = "bad")
    <3>1. ~Raw(op)
      BY <1>11 DEF Raw
    <3>2. ~(\E i \in ToSet(Present(items)) : i.b64 = "bad")
      BY <1>11, <3>1 DEF Failures, Refusals, items
    <3> QED
      BY <1>3, <3>2
  <2>3. p \in Seq(Item \cap NotNil)
    <3> HIDE DEF NotNil
    <3> QED
      BY <1>1, KeptType
  <2>4. /\ \A i \in S : f[i] \in {"bytes", "url", "empty"}
        /\ \A i \in S : i \in UsableItems <=> i \in S /\ f[i] # "empty"
        /\ \A i \in UsableItems \cap S : f[i] = BestOf(i)
    BY <1>2, <1>11 DEF ArkImage, UsableItems, BestOf
  <2>5. \A i \in Item : i \in NotNil \cap UsableItems <=> i \in UsableItems
    BY DEF UsableItems
  <2>6. S \subseteq Item
    OBVIOUS
  <2> HIDE DEF p, given
  <2>7. p \in [1..Len(p) -> S] /\ Len(p) \in Nat
    <3>1. \A k \in 1..Len(p) : p[k] \in ToSet(p) /\ p[k] \in Item \cap NotNil
      BY <2>3 DEF ToSet
    <3> QED
      BY <2>2, <2>3, <3>1
  <2>8. p \in Seq(S)
    <3> HIDE DEF S
    <3> QED
      BY <2>7
  <2>9. given = Each(f, p)
    <3>1. \A k \in DOMAIN p : p[k] \in Item
      BY <2>3
    <3> QED
      BY <2>1, <3>1 DEF Each
  <2> HIDE DEF S, f, NotNil
  <2>10. Kept(p, S) = p
    BY <2>8, KeptAll
  <2>11. given \in Images /\ ImagesHandedOn(given, p)
    BY <2>4, <2>6, <2>8, <2>9, <2>10, PickedHandedOn
  <2>12. Kept(p, UsableItems) = Kept(items, UsableItems)
    <3>1. Kept(p, UsableItems) = Kept(items, NotNil \cap UsableItems)
      BY <1>1, KeptTwice DEF p
    <3>2. Kept(items, NotNil \cap UsableItems) = Kept(items, UsableItems)
      BY <1>1, <2>5, KeptSame
    <3> QED
      BY <3>1, <3>2
  <2>13. ImagesHandedOn(given, items) <=> ImagesHandedOn(given, p)
    <3>1. p \in Seq(Item)
      BY <2>6, <2>8
    <3> QED
      BY <1>1, <2>12, <3>1, HandedOnBy
  <2> QED
    BY <2>11, <2>13 DEF given, items
<1> QED
  BY <1>1, <1>7, <1>8, <1>9, <1>10, <1>11

-----------------------------------------------------------------------------
(* The inductive invariant.                                                *)

\* Where a call is tells what it has: nothing before the method is called, no
\* translated request before a late translator's first request, no response but
\* while one is read, and no failure before the return.
Coherent ==
  /\ pc = "idle" => asked \in Asked /\ op = "none" /\ built = NotBuilt
  /\ pc \in {"opened", "streaming"} => op = "Stream"
  /\ pc \in {"sent", "reading"} => op \in Ops(vendor) \ {"Stream"}
  /\ pc = "opened" /\ TranslatesLate => built = NotBuilt
  /\ pc \in {"idle", "opened", "streaming", "sent"} => reply = <<>>
  /\ pc = "reading" => \E r \in Replies : reply = <<r>>
  /\ pc # "returned" => failure = <<>>
  /\ tools = boundAs

IInv == TypeOK /\ Coherent /\ SentAsMeant /\ ReturnedSound

LEMMA ConfigKnown ==
  ASSUME cfg \in Configs
  PROVE  vendor \in AllVendors /\ cfg.timeout \in {-1, 0, 30} /\ cfg.client \in {"none", "timed"}
BY ConfigAssumption, VendorAssumption DEF vendor

LEMMA AskedKnown ==
  ASSUME NEW req \in Asked \cup {Overwritten(r) : r \in Asked}
  PROVE  req \in ARequest
<1>1. Asked \subseteq ARequest
  BY AskedAssumption DEF ARequest
<1>2. CASE req \in Asked
  BY <1>1, <1>2
<1>3. CASE req \in {Overwritten(r) : r \in Asked}
  <2>1. PICK r \in Asked : req = Overwritten(r)
    BY <1>3
  <2> QED
    BY <1>1, <2>1, OverwrittenSound
<1> QED
  BY <1>2, <1>3

\* A request built from what the adapter has says what it was built from.
LEMMA BuildSays ==
  ASSUME cfg \in Configs, tools \in {<<>>, GivenTools, EditedTools}, NEW req \in ARequest, NEW method,
         NEW k \in DOMAIN Build(method, req).body
  PROVE  LET wire == Build(method, req).body[k] IN
         Says(vendor, req, wire) /\ Offers(vendor, wire.tools, tools)
<1> DEFINE x == ToSDKRequest(vendor, tools, req)
<1>1. vendor \in AllVendors
  BY ConfigKnown
<1>2. tools \in Seq(ATool)
  <2>1. <<>> \in Seq(ATool)
    OBVIOUS
  <2> QED
    BY <2>1, AskedAssumption
<1>3. Says(vendor, req, x) /\ Offers(vendor, x.tools, tools)
  BY <1>1, <1>2, RequestSound
<1>4. Build(method, req).body = IF IsChat(method) THEN <<x>> ELSE <<>>
  BY DEF Build, ToolsInUse
<1> HIDE DEF x
<1>5. Build(method, req).body[k] = x
  BY <1>4
<1> QED
  BY <1>3, <1>5

LEMMA BuildTyped ==
  ASSUME NEW req, NEW method
  PROVE  /\ Build(method, req).headers \in {"given", "edited"} /\ Len(Build(method, req).body) <= 1
         /\ Build(method, req).headers = "given" \/ vendor = "ollama" \/ (vendor = "minimax" /\ method \in {"Embed", "GenerateImage"})
<1>1. Len(<<ToSDKRequest(vendor, ToolsInUse, req)>>) = 1 /\ Len(<<>>) = 0
  OBVIOUS
<1> QED
  BY <1>1 DEF Build, HeadersFor, OwnHeaders, SharesHeaders, Raw

\* What SentAsMeant says, with the names of the theorem on requests.
MeansIt ==
  /\ \A k \in DOMAIN built.body :
       /\ \E req \in Meant : Says(vendor, req, built.body[k])
       /\ Offers(vendor, built.body[k].tools, boundAs)
  /\ built.headers = "given" \/ vendor = "ollama" \/ (vendor = "minimax" /\ op \in {"Embed", "GenerateImage"})

LEMMA SentBy == SentAsMeant <=> MeansIt
BY DEF MeansIt, SentAsMeant, SaysWhatWasMeant, OffersBoundTools, Says, Offers, Raw, ImageVendors

\* Steps that leave the request alone.
LEMMA SameRequest ==
  ASSUME SentAsMeant, UNCHANGED <<callers, op, asked, built>>
  PROVE  SentAsMeant'
<1>1. (SentAsMeant <=> MeansIt) /\ (SentAsMeant <=> MeansIt)'
  BY SentBy, PTL
<1>2. MeansIt /\ UNCHANGED <<callers, op, asked, built>> => MeansIt'
  BY DEF MeansIt, Meant, OwnRequest, TranslatesLate, vendor, callers
<1> QED
  BY <1>1, <1>2

LEMMA InitHolds == Init => IInv
<1> SUFFICES ASSUME Init PROVE IInv
  OBVIOUS
<1>1. timeout \in {-1, 30, 60} \/ (timeout = 0 /\ vendor = "ollama" /\ cfg.client = "timed")
  BY ConfigKnown DEF Init, KeptTimeout, DefaultTimeout, vendor
<1>2. built.headers = "given" /\ built.body = <<>> /\ Len(built.body) = 0 /\ DOMAIN built.body = {}
  BY DEF Init, NotBuilt
<1>3. TypeOK
  BY <1>1, <1>2 DEF Init, TypeOK, Edits, Nothing
<1>4. Coherent
  BY DEF Init, Coherent
<1>5. SentAsMeant
  BY <1>2 DEF SentAsMeant
<1>6. ReturnedSound
  BY DEF Init, ReturnedSound
<1> QED
  BY <1>3, <1>4, <1>5, <1>6 DEF IInv

LEMMA EditStep == IInv /\ Edit => IInv'
<1> SUFFICES ASSUME IInv, Edit PROVE IInv'
  OBVIOUS
<1> USE DEF IInv
<1>1. TypeOK'
  BY DEF Edit, TypeOK, vendor
<1>2. Coherent'
  BY DEF Edit, Coherent, TypeOK, vendor, TranslatesLate
<1>3. SentAsMeant'
  <2>1. CASE built = NotBuilt
    <3>1. built'.headers = "given" /\ DOMAIN built'.body = {}
      BY <2>1 DEF Edit, NotBuilt
    <3> QED
      BY <3>1 DEF SentAsMeant
  <2>2. CASE built # NotBuilt
    <3>1. pc = "opened" /\ ~TranslatesLate
      BY <2>2 DEF Edit, Coherent
    <3>2. Meant' = Meant
      BY <3>1 DEF Edit, Meant, TranslatesLate, vendor
    <3>3. (SentAsMeant <=> MeansIt) /\ (SentAsMeant <=> MeansIt)'
      BY SentBy, PTL
    <3>4. MeansIt => MeansIt'
      BY <3>2 DEF Edit, MeansIt, vendor
    <3> QED
      BY <3>3, <3>4
  <2> QED
    BY <2>1, <2>2
<1>4. ReturnedSound'
  BY DEF Edit, ReturnedSound
<1> QED
  BY <1>1, <1>2, <1>3, <1>4

LEMMA WithToolsStep == IInv /\ WithTools => IInv'
<1> SUFFICES ASSUME IInv, WithTools PROVE IInv'
  OBVIOUS
<1> USE DEF IInv
<1>1. TypeOK'
  BY DEF WithTools, TypeOK, vendor, OwnTools
<1>2. Coherent'
  BY DEF WithTools, Coherent, TypeOK, vendor, TranslatesLate
<1>3. SentAsMeant'
  <2>1. built' = NotBuilt
    BY DEF WithTools, Coherent
  <2>2. built'.headers = "given" /\ DOMAIN built'.body = {}
    BY <2>1 DEF NotBuilt
  <2> QED
    BY <2>2 DEF SentAsMeant
<1>4. ReturnedSound'
  BY DEF WithTools, ReturnedSound
<1> QED
  BY <1>1, <1>2, <1>3, <1>4

LEMMA UnsupportedStep ==
  ASSUME NEW method \in Ops(vendor) \cup {"WithTools"}
  PROVE  IInv /\ Unsupported(method) => IInv'
<1> SUFFICES ASSUME IInv, Unsupported(method) PROVE IInv'
  OBVIOUS
<1> USE DEF IInv
<1>1. Error("unsupported") \in Error_
  BY DEF Error, Error_, Classes
<1>2. TypeOK'
  BY <1>1 DEF Unsupported, TypeOK, vendor, callers
<1>3. Coherent'
  BY DEF Unsupported, Coherent, TypeOK, vendor, TranslatesLate, callers
<1>4. built' = NotBuilt
  BY DEF Unsupported, Coherent
<1>5. SentAsMeant'
  <2>1. built'.headers = "given" /\ DOMAIN built'.body = {}
    BY <1>4 DEF NotBuilt
  <2> QED
    BY <2>1 DEF SentAsMeant
<1>6. ReturnedSound'
  <2>1. failure' = <<>> /\ got'.class = "error"
    BY DEF Unsupported, Coherent
  <2> QED
    BY <1>4, <2>1 DEF ReturnedSound
<1> QED
  BY <1>2, <1>3, <1>5, <1>6

LEMMA EmbedNothingStep == IInv /\ EmbedNothing => IInv'
<1> SUFFICES ASSUME IInv, EmbedNothing PROVE IInv'
  OBVIOUS
<1> USE DEF IInv
<1>1. TypeOK'
  <2>1. got'.class = "ok" /\ got'.images = <<>> /\ <<>> \in Images
    BY DEF EmbedNothing, Answer, Images
  <2> QED
    BY <2>1 DEF EmbedNothing, TypeOK, vendor, callers
<1>2. Coherent'
  BY DEF EmbedNothing, Coherent, TypeOK, vendor, TranslatesLate, callers
<1>3. SentAsMeant'
  <2>1. built' = NotBuilt
    BY DEF EmbedNothing, Coherent
  <2>2. built'.headers = "given" /\ DOMAIN built'.body = {}
    BY <2>1 DEF NotBuilt
  <2> QED
    BY <2>2 DEF SentAsMeant
<1>4. ReturnedSound'
  <2>1. reply' = <<>> /\ got'.class = "ok"
    BY DEF EmbedNothing, Coherent, Answer
  <2> QED
    BY <2>1 DEF ReturnedSound
<1> QED
  BY <1>1, <1>2, <1>3, <1>4

LEMMA SendStep ==
  ASSUME NEW method \in {"Generate", "Embed", "GenerateImage"}
  PROVE  IInv /\ Send(method) => IInv'
<1> SUFFICES ASSUME IInv, Send(method) PROVE IInv'
  OBVIOUS
<1> USE DEF IInv
<1> DEFINE req == OwnRequest(asked)
<1>1. asked \in Asked /\ req \in Asked \cup {Overwritten(r) : r \in Asked}
  BY DEF Send, Coherent, OwnRequest
<1>2. req \in ARequest
  BY <1>1, AskedKnown
<1>3. /\ asked' = req /\ built' = Build(method, req) /\ op' = method /\ pc' = "sent"
      /\ vendor' = vendor /\ boundAs' = tools /\ UNCHANGED <<callers, ctxErr, reply, failure, got>>
  BY DEF Send, Coherent, vendor, callers
<1> HIDE DEF req
<1>4. TypeOK'
  <2>1. built'.headers \in {"given", "edited"} /\ Len(built'.body) <= 1
    BY <1>3, BuildTyped
  <2>2. op' \in Ops(vendor)'
    BY <1>3 DEF Send
  <2> QED
    BY <1>1, <1>3, <2>1, <2>2 DEF TypeOK, vendor, callers
<1>5. Coherent'
  <2>1. method \in Ops(vendor)' \ {"Stream"}
    BY <1>3 DEF Send
  <2> QED
    BY <1>3, <2>1 DEF Send, Coherent, callers
<1>6. SentAsMeant'
  <2>1. (SentAsMeant <=> MeansIt)'
    BY SentBy, PTL
  <2>2. cfg \in Configs /\ tools \in {<<>>, GivenTools, EditedTools}
    BY DEF TypeOK
  <2>3. \A k \in DOMAIN built'.body : Says(vendor', asked', built'.body[k]) /\ Offers(vendor', built'.body[k].tools, boundAs')
    BY <1>2, <1>3, <2>2, BuildSays
  <2>4. asked' \in Meant'
    BY DEF Meant
  <2>5. built'.headers = "given" \/ vendor' = "ollama" \/ (vendor' = "minimax" /\ op' \in {"Embed", "GenerateImage"})
    BY <1>3, BuildTyped
  <2>6. MeansIt'
    BY <2>3, <2>4, <2>5 DEF MeansIt
  <2> QED
    BY <2>1, <2>6
<1>7. ReturnedSound'
  BY <1>3 DEF ReturnedSound
<1> QED
  BY <1>4, <1>5, <1>6, <1>7

LEMMA StreamStep == IInv /\ Stream => IInv'
<1> SUFFICES ASSUME IInv, Stream PROVE IInv'
  OBVIOUS
<1> USE DEF IInv
<1> DEFINE req == OwnRequest(asked)
<1>1. asked \in Asked /\ req \in Asked \cup {Overwritten(r) : r \in Asked} /\ built = NotBuilt
  BY DEF Stream, Coherent, OwnRequest
<1>2. req \in ARequest
  BY <1>1, AskedKnown
<1>3. /\ asked' = req /\ op' = "Stream" /\ pc' = "opened"
      /\ built' = IF TranslatesLate THEN NotBuilt ELSE Build("Stream", req)
      /\ vendor' = vendor /\ boundAs' = tools /\ UNCHANGED <<callers, ctxErr, reply, failure, got>>
  BY <1>1 DEF Stream, Coherent, vendor, callers
<1>4. NotBuilt.headers = "given" /\ Len(NotBuilt.body) = 0 /\ DOMAIN NotBuilt.body = {}
  BY DEF NotBuilt
<1> HIDE DEF req
<1>5. TypeOK'
  <2>1. built'.headers \in {"given", "edited"} /\ Len(built'.body) <= 1
    BY <1>3, <1>4, BuildTyped
  <2>2. op' \in Ops(vendor)'
    BY <1>3 DEF Ops
  <2> QED
    BY <1>1, <1>3, <2>1, <2>2 DEF TypeOK, vendor, callers
<1>6. Coherent'
  <2>1. TranslatesLate' <=> TranslatesLate
    BY <1>3 DEF TranslatesLate
  <2> QED
    BY <1>3, <2>1 DEF Stream, Coherent, callers
<1>7. SentAsMeant'
  <2>1. (SentAsMeant <=> MeansIt)'
    BY SentBy, PTL
  <2>2. cfg \in Configs /\ tools \in {<<>>, GivenTools, EditedTools}
    BY DEF TypeOK
  <2>3. \A k \in DOMAIN built'.body : Says(vendor', asked', built'.body[k]) /\ Offers(vendor', built'.body[k].tools, boundAs')
    BY <1>2, <1>3, <1>4, <2>2, BuildSays
  <2>4. asked' \in Meant'
    BY DEF Meant
  <2>5. built'.headers = "given" \/ vendor' = "ollama"
    BY <1>3, <1>4, BuildTyped
  <2>6. MeansIt'
    BY <2>3, <2>4, <2>5 DEF MeansIt
  <2> QED
    BY <2>1, <2>6
<1>8. ReturnedSound'
  BY <1>3 DEF ReturnedSound
<1> QED
  BY <1>5, <1>6, <1>7, <1>8

LEMMA OpenStreamStep == IInv /\ OpenStream => IInv'
<1> SUFFICES ASSUME IInv, OpenStream PROVE IInv'
  OBVIOUS
<1> USE DEF IInv
<1> DEFINE req == OwnRequest(asked)
<1>1. asked \in ARequest /\ req \in ARequest
  <2>1. asked \in ARequest
    BY AskedKnown DEF TypeOK
  <2> QED
    BY <2>1, OverwrittenSound DEF OwnRequest
<1>2. /\ built' = IF TranslatesLate THEN Build("Stream", req) ELSE built
      /\ pc' = "streaming" /\ op = "Stream" /\ boundAs = tools
      /\ UNCHANGED <<callers, op, asked, ctxErr, reply, failure, got>>
  BY DEF OpenStream, Coherent, vendor
<1>3. vendor' = vendor /\ boundAs' = tools /\ (TranslatesLate' <=> TranslatesLate) /\ req' = req
  BY <1>2 DEF vendor, callers, TranslatesLate, OwnRequest
<1> HIDE DEF req
<1>4. TypeOK'
  <2>1. built'.headers \in {"given", "edited"} /\ Len(built'.body) <= 1
    BY <1>2, BuildTyped DEF TypeOK
  <2> QED
    BY <1>2, <2>1 DEF TypeOK, vendor, callers
<1>5. Coherent'
  BY <1>2, <1>3 DEF OpenStream, Coherent, callers
<1>6. SentAsMeant'
  <2>1. CASE TranslatesLate
    <3>1. (SentAsMeant <=> MeansIt)'
      BY SentBy, PTL
    <3>2. cfg \in Configs /\ tools \in {<<>>, GivenTools, EditedTools}
      BY DEF TypeOK
    <3>3. \A k \in DOMAIN built'.body : Says(vendor', req, built'.body[k]) /\ Offers(vendor', built'.body[k].tools, boundAs')
      BY <1>1, <1>2, <1>3, <2>1, <3>2, BuildSays
    <3>4. req \in Meant'
      <4>1. Meant' = {asked'} \cup {req'}
        BY <1>2, <1>3, <2>1 DEF Meant, req
      <4> QED
        BY <1>3, <4>1
    <3>5. built'.headers = "given" \/ vendor' = "ollama"
      BY <1>2, <1>3, <2>1, BuildTyped
    <3>6. MeansIt'
      BY <3>3, <3>4, <3>5 DEF MeansIt
    <3> QED
      BY <3>1, <3>6
  <2>2. CASE ~TranslatesLate
    <3>1. UNCHANGED <<callers, op, asked, built>>
      BY <1>2, <2>2
    <3> QED
      BY <3>1, SameRequest
  <2> QED
    BY <2>1, <2>2
<1>7. ReturnedSound'
  BY <1>2 DEF ReturnedSound
<1> QED
  BY <1>4, <1>5, <1>6, <1>7

\* The context ends while the call is under way.
LEMMA ContextStep ==
  IInv /\ (TimerFires \/ \E err \in {"canceled", "deadline"} : CallerEnds(err)) => IInv'
<1> SUFFICES ASSUME IInv, TimerFires \/ \E err \in {"canceled", "deadline"} : CallerEnds(err) PROVE IInv'
  OBVIOUS
<1> USE DEF IInv
<1>1. /\ InFlight /\ ctxErr' \in {"canceled", "deadline"}
      /\ UNCHANGED <<callers, op, asked, pc, built, reply, failure, got>>
  BY DEF TimerFires, CallerEnds
<1>2. TypeOK'
  BY <1>1 DEF TypeOK, vendor, callers
<1>3. Coherent'
  BY <1>1 DEF Coherent, vendor, TranslatesLate, callers
<1>4. SentAsMeant'
  BY <1>1, SameRequest
<1>5. ReturnedSound'
  BY <1>1 DEF ReturnedSound, InFlight
<1> QED
  BY <1>2, <1>3, <1>4, <1>5

LEMMA RespondStep ==
  ASSUME NEW r \in Replies
  PROVE  IInv /\ Respond(r) => IInv'
<1> SUFFICES ASSUME IInv, Respond(r) PROVE IInv'
  OBVIOUS
<1> USE DEF IInv
<1>1. TypeOK'
  <2>1. reply'[1] \in Replies
    BY DEF Respond
  <2> QED
    BY <2>1 DEF Respond, TypeOK, vendor, callers
<1>2. Coherent'
  BY DEF Respond, Coherent, vendor, TranslatesLate, callers
<1>3. SentAsMeant'
  BY SameRequest DEF Respond
<1>4. ReturnedSound'
  BY DEF Respond, ReturnedSound
<1> QED
  BY <1>1, <1>2, <1>3, <1>4

\* A call that returns a problem it gives the right advice about.
LEMMA ProblemStep ==
  ASSUME IInv, NEW f, Classified(f) \in Error_, AdviceIsRight(f, Classified(f)), ReturnProblem(f)
  PROVE  IInv'
<1> USE DEF IInv
<1> DEFINE e == Classified(f)
<1>1. /\ failure' = <<f>> /\ got' = [class |-> "error", error |-> e] /\ pc' = "returned"
      /\ UNCHANGED <<callers, op, asked, built, ctxErr, reply>>
  BY DEF ReturnProblem, Problem
<1>2. got'.class = "error" /\ got'.error = e /\ failure'[1] = f
  BY <1>1
<1>3. TypeOK'
  BY <1>1, <1>2 DEF TypeOK, vendor, callers
<1>4. Coherent'
  BY <1>1 DEF Coherent, callers
<1>5. SentAsMeant'
  BY <1>1, SameRequest
<1>6. ReturnedSound'
  <2> HIDE DEF e
  <2>1. AdviceIsRight(f, e)
    BY DEF e
  <2>3. AdviceIsRight(failure[1], got.error)'
    BY <1>1, <1>2, <2>1 DEF AdviceIsRight, Raw, vendor, callers
  <2>4. failure' # <<>>
    BY <1>1
  <2> QED
    BY <1>2, <2>3, <2>4 DEF ReturnedSound
<1> QED
  BY <1>3, <1>4, <1>5, <1>6

LEMMA EndsWithContextStep == IInv /\ EndsWithContext => IInv'
<1> SUFFICES ASSUME IInv, EndsWithContext PROVE IInv'
  OBVIOUS
<1>1. ctxErr \in {"canceled", "deadline"} /\ ReturnProblem(Failure(ctxErr))
  BY DEF EndsWithContext, IInv, TypeOK
<1>2. PICK kind \in {"canceled", "deadline"} : kind = ctxErr
  BY <1>1
<1>3. Classified(Failure(kind)) \in Error_ /\ AdviceIsRight(Failure(kind), Classified(Failure(kind)))
  BY <1>2, FailureAdvised
<1> QED
  BY <1>1, <1>2, <1>3, ProblemStep

LEMMA BreaksStep == IInv /\ Breaks => IInv'
<1> SUFFICES ASSUME IInv, Breaks PROVE IInv'
  OBVIOUS
<1>1. PICK kind \in {"net", "garbled"} : ReturnProblem(Failure(kind))
  BY DEF Breaks
<1>2. Classified(Failure(kind)) \in Error_ /\ AdviceIsRight(Failure(kind), Classified(Failure(kind)))
  BY FailureAdvised
<1> QED
  BY <1>1, <1>2, ProblemStep

\* Whether images are handed on depends on the vendor alone.
HandedOn(v, images, items) ==
  LET usable == Where(items, LAMBDA item :
        ~item.nil /\ ((v # "minimax" /\ item.b64 = "good") \/ (v # "google" /\ item.url)))
  IN  Where(images, LAMBDA i : i # "empty")
        = Mapped(LAMBDA item : IF v # "minimax" /\ item.b64 = "good" THEN "bytes" ELSE "url", usable)

LEMMA HandedOnVendor ==
  ASSUME NEW images, NEW items
  PROVE  ImagesHandedOn(images, items) <=> HandedOn(vendor, images, items)
BY DEF ImagesHandedOn, HandedOn

ReplyHandedOn == ImagesHandedOn(got.images, reply[1].items) <=> HandedOn(vendor, got.images, reply[1].items)

LEMMA ReplyHandedOnHolds == ReplyHandedOn /\ ReplyHandedOn'
<1>1. ReplyHandedOn
  BY HandedOnVendor DEF ReplyHandedOn
<1> QED
  BY <1>1, PTL

\* The response being read.
LEMMA ReplyKnown ==
  ASSUME Coherent, pc = "reading"
  PROVE  reply[1] \in AReply /\ reply = <<reply[1]>>
<1>1. PICK r \in Replies : reply = <<r>>
  BY DEF Coherent
<1>2. r \in AReply
  BY ReplyAssumption DEF AReply
<1> QED
  BY <1>1, <1>2

LEMMA ReadFailureStep == IInv /\ ReadFailure => IInv'
<1> SUFFICES ASSUME IInv, ReadFailure PROVE IInv'
  OBVIOUS
<1>1. PICK f \in Failures(reply[1]) : ReturnProblem(f)
  BY DEF ReadFailure
<1>2. reply[1] \in AReply /\ reply = <<reply[1]>>
  BY ReplyKnown DEF ReadFailure, IInv
<1>3. Classified(f) \in Error_ /\ AdviceIsRight(f, Classified(f))
  BY <1>1, <1>2, RefusalAdvised
<1> QED
  BY <1>1, <1>3, ProblemStep

LEMMA ReadAnswerStep == IInv /\ ReadAnswer => IInv'
<1> SUFFICES ASSUME IInv, ReadAnswer PROVE IInv'
  OBVIOUS
<1> USE DEF IInv
<1> DEFINE r == reply[1]
           images == IF op = "GenerateImage" THEN ImagesFrom(r.items) ELSE <<>>
<1>1. /\ got' = [class |-> "ok", images |-> images] /\ pc' = "returned" /\ pc = "reading" /\ Failures(r) = {}
      /\ UNCHANGED <<callers, op, asked, built, ctxErr, reply, failure>>
  BY DEF ReadAnswer, Answer
<1>2. r \in AReply /\ r.status \in 200..599 /\ r.code \in Nat
  BY <1>1, ReplyKnown DEF AReply
<1>3. op = "GenerateImage" => images \in Images /\ ImagesHandedOn(images, r.items)
  <2>1. op \in Ops(vendor)
    BY <1>1 DEF Coherent
  <2> QED
    BY <1>1, <1>2, <2>1, AnswerHandedOn
<1>4. images \in Images
  <2>1. <<>> \in Images
    BY DEF Images
  <2> QED
    BY <1>3, <2>1
<1>5. r.status < 400 /\ (Raw(op) => r.code = 0)
  <2>1. r.status < 400
    <3>1. r.status >= 400 => Failures(r) = {StatusFailure(r)}
      BY DEF Failures
    <3> HIDE DEF r
    <3>2. ~(r.status >= 400)
      BY <1>1, <3>1
    <3> QED
      BY <1>2, <3>2
  <2>2. Refusals(r) = {}
    BY <1>1, <2>1, <1>2 DEF Failures
  <2> QED
    BY <2>1, <2>2 DEF Refusals
<1> HIDE DEF images, r
<1>6. got'.class = "ok" /\ got'.images = images /\ reply' = reply /\ reply'[1] = r
  BY <1>1 DEF r
<1>7. TypeOK'
  BY <1>1, <1>4, <1>6 DEF TypeOK, vendor, callers
<1>8. Coherent'
  BY <1>1 DEF Coherent, callers
<1>9. SentAsMeant'
  BY <1>1, SameRequest
<1>10. ReturnedSound'
  <2>1. Raw(op)' => r.code = 0
    BY <1>1, <1>5 DEF Raw, vendor, callers
  <2>2. op' = "GenerateImage" => ImagesHandedOn(got.images, reply[1].items)'
    <3> SUFFICES ASSUME op' = "GenerateImage" PROVE ImagesHandedOn(got.images, reply[1].items)'
      OBVIOUS
    <3>1. HandedOn(vendor, images, r.items)
      BY <1>1, <1>3, HandedOnVendor
    <3>2. HandedOn(vendor', got'.images, reply'[1].items)
      BY <1>1, <1>6, <3>1 DEF vendor, callers
    <3> QED
      BY <3>2, ReplyHandedOnHolds DEF ReplyHandedOn
  <2> QED
    BY <1>5, <1>6, <2>1, <2>2 DEF ReturnedSound
<1> QED
  BY <1>7, <1>8, <1>9, <1>10

LEMMA Stutters == IInv /\ UNCHANGED vars => IInv'
<1> SUFFICES ASSUME IInv, UNCHANGED vars PROVE IInv'
  OBVIOUS
<1> USE DEF IInv
<1>1. UNCHANGED <<callers, op, asked, pc, built, ctxErr, reply, failure, got>>
  BY DEF vars
<1>2. TypeOK'
  BY <1>1 DEF TypeOK, vendor, callers
<1>3. Coherent'
  BY <1>1 DEF Coherent, vendor, TranslatesLate, callers
<1>4. SentAsMeant'
  BY <1>1, SameRequest
<1>5. ReturnedSound'
  <2>1. ReplyHandedOn /\ ReplyHandedOn'
    BY ReplyHandedOnHolds
  <2>2. ImagesHandedOn(got.images, reply[1].items) => ImagesHandedOn(got.images, reply[1].items)'
    BY <1>1, <2>1 DEF ReplyHandedOn, vendor, callers
  <2>3. AdviceIsRight(failure[1], got.error) => AdviceIsRight(failure[1], got.error)'
    BY <1>1 DEF AdviceIsRight, Raw, vendor, callers
  <2> QED
    BY <1>1, <2>2, <2>3 DEF ReturnedSound, Raw, vendor, callers
<1> QED
  BY <1>2, <1>3, <1>4, <1>5

LEMMA Inductive == IInv /\ [Next]_vars => IInv'
<1> SUFFICES ASSUME IInv, [Next]_vars PROVE IInv'
  OBVIOUS
<1>1. CASE Edit
  BY <1>1, EditStep
<1>2. CASE WithTools
  BY <1>2, WithToolsStep
<1>3. CASE \E method \in Ops(vendor) \cup {"WithTools"} : Unsupported(method)
  BY <1>3, UnsupportedStep
<1>4. CASE Generate \/ Embed \/ GenerateImage
  BY <1>4, SendStep DEF Generate, Embed, GenerateImage
<1>5. CASE Stream
  BY <1>5, StreamStep
<1>6. CASE OpenStream
  BY <1>6, OpenStreamStep
<1>7. CASE EmbedNothing
  BY <1>7, EmbedNothingStep
<1>8. CASE TimerFires \/ \E err \in {"canceled", "deadline"} : CallerEnds(err)
  BY <1>8, ContextStep
<1>9. CASE EndsWithContext
  BY <1>9, EndsWithContextStep
<1>10. CASE Breaks
  BY <1>10, BreaksStep
<1>11. CASE \E r \in Replies : Respond(r)
  BY <1>11, RespondStep
<1>12. CASE ReadFailure
  BY <1>12, ReadFailureStep
<1>13. CASE ReadAnswer
  BY <1>13, ReadAnswerStep
<1>14. CASE Finished \/ UNCHANGED vars
  BY <1>14, Stutters DEF Finished
<1> QED
  BY <1>1, <1>2, <1>3, <1>4, <1>5, <1>6, <1>7, <1>8, <1>9, <1>10, <1>11, <1>12, <1>13, <1>14 DEF Next

LEMMA Invariance == Spec => []IInv
<1>1. Init => IInv
  BY InitHolds
<1>2. IInv /\ [Next]_vars => IInv'
  BY Inductive
<1> QED
  BY <1>1, <1>2, PTL DEF Spec

-----------------------------------------------------------------------------

\* Types, and no timeout of New is 0 but that of an ollama client with its own:
\* for every configuration, request and answer.
THEOREM TypeCorrect == Spec => []TypeOK
BY Invariance, PTL DEF IInv

\* What is built for any vendor is what the caller asked for, whatever it does to
\* its own data afterwards (toSDKRequest, WithTools and Stream of the adapters).
THEOREM SentAsMeantHolds == Spec => []SentAsMeant
BY Invariance, PTL DEF IInv

\* What a call returns is right about what happened, and the images of an answer
\* are handed on, whatever the vendor answers and however it races with the timer
\* and the caller (wrapErr, postJSON and GenerateImage of the adapters).
THEOREM ReturnedSoundHolds == Spec => []ReturnedSound
BY Invariance, PTL DEF IInv
=============================================================================
