------------------------------ MODULE ErrorMap ------------------------------
(***************************************************************************)
(* How the adapters classify a failed call: wrapErr of each vendor with    *)
(* the two shared mappings of internal/compat, and the raw HTTP client of  *)
(* minimax with its base_resp.                                             *)
(*                                                                         *)
(* The class is what a caller decides by: a transient error or a rate      *)
(* limit is worth another try, the others are not, and a "plain" error     *)
(* says nothing.                                                           *)
(***************************************************************************)
EXTENDS Naturals

\* What an SDK reports: the context's error, a status with its Retry-After and
\* quota mark, a failed connection, anything else (a body that does not parse).
Failure(kind) == [kind |-> kind, status |-> 0, code |-> 0, retryAfter |-> FALSE, quota |-> FALSE]
StatusFailure(reply) ==
  [Failure("status") EXCEPT !.status = reply.status, !.retryAfter = reply.retryAfter,
                            !.quota = reply.quota]
CodeFailure(code) == [Failure("code") EXCEPT !.code = code]

Classes == {"auth", "ratelimit", "transient", "invalid", "canceled", "unsupported", "plain"}
Error(class) == [class |-> class, retryAfter |-> FALSE, quota |-> FALSE]

-----------------------------------------------------------------------------
(* The routing tables.  limits and faults: statuses that are rate limits   *)
(* and transient errors; rest: statuses that are invalid requests; header  *)
(* and reason: whether Retry-After and an exhausted quota are told;        *)
(* unknown: the class of an error that is nothing of this.                 *)

Routed4xx == (400..499) \ {401, 403, 429}

OpenAIRouting ==
  [limits |-> {429}, faults |-> {500, 502, 503, 504}, rest |-> Routed4xx,
   header |-> TRUE, reason |-> TRUE, unknown |-> "plain"]
AnthropicRouting ==
  [limits |-> {429, 529}, faults |-> {500, 502, 503, 504}, rest |-> Routed4xx,
   header |-> TRUE, reason |-> FALSE, unknown |-> "plain"]
ArkRouting ==
  [limits |-> {429}, faults |-> {500, 502, 503, 504}, rest |-> Routed4xx,
   header |-> FALSE, reason |-> FALSE, unknown |-> "plain"]
GoogleRouting ==
  [limits |-> {429}, faults |-> 500..599, rest |-> (0..499) \ {401, 403, 429},
   header |-> FALSE, reason |-> FALSE, unknown |-> "invalid"]
OllamaRouting ==
  [limits |-> {429}, faults |-> 500..599, rest |-> Routed4xx,
   header |-> TRUE, reason |-> FALSE, unknown |-> "plain"]

Routing(vendor) ==
  CASE vendor \in {"openai", "deepseek", "kimi"} -> OpenAIRouting
    [] vendor \in {"anthropic", "minimax"} -> AnthropicRouting
    [] vendor = "volcengine" -> ArkRouting
    [] vendor = "google" -> GoogleRouting
    [] OTHER -> OllamaRouting

ByStatus(routing, f) ==
  CASE f.status \in {401, 403} -> Error("auth")
    [] f.status \in routing.limits ->
         [class |-> "ratelimit", retryAfter |-> routing.header /\ f.retryAfter,
          quota |-> routing.reason /\ f.quota]
    [] f.status \in routing.faults -> Error("transient")
    [] f.status \in routing.rest -> Error("invalid")
    [] OTHER -> Error(routing.unknown)

\* The context first, then the status, then the network: what the client reports
\* of an ended context is a net.Error as well, and without the first two tests
\* it would be taken for one.
NetErrors == {"net", "canceled", "deadline"}
StatusFirst(vendor, f) ==
  CASE f.kind = "status" -> ByStatus(Routing(vendor), f)
    [] f.kind \in NetErrors -> Error("transient")
    [] OTHER -> Error(Routing(vendor).unknown)
WrapErrNetFirst(vendor, f) ==
  CASE f.kind \in NetErrors -> Error("transient")
    [] f.kind = "canceled" -> Error("canceled")
    [] OTHER -> StatusFirst(vendor, f)
WrapErr(vendor, f) ==
  CASE f.kind = "canceled" -> Error("canceled")
    [] f.kind = "deadline" -> Error("transient")
    [] OTHER -> StatusFirst(vendor, f)

-----------------------------------------------------------------------------
(* The raw endpoints of minimax.                                           *)

\* A logical failure in an answer of status 200.
BaseRespError(code) ==
  CASE code = 1004 -> Error("auth")
    [] code \in {1002, 1039} -> Error("ratelimit")
    [] code \in {1013, 1027} -> Error("transient")
    [] OTHER -> Error("invalid")

\* postJSON calls every status from 400 on transient and passes what the client
\* reports on: a cancelled context can still be told, a deadline or a failed
\* connection has no class.
PostJSONError(f) ==
  CASE f.kind = "code" -> BaseRespError(f.code)
    [] f.kind = "status" -> Error("transient")
    [] f.kind = "canceled" -> Error("canceled")
    [] OTHER -> Error("plain")

-----------------------------------------------------------------------------
(* What happened, whoever reports it: a failure that may pass, or one that *)
(* the same request will meet again.                                       *)

Fleeting(f) ==
  \/ f.kind \in {"deadline", "net"}
  \/ f.kind = "status" /\ (f.status = 429 \/ f.status >= 500)
  \/ f.kind = "code" /\ f.code \in {1002, 1039, 1013, 1027}
Lasting(f) ==
  \/ f.kind \in {"blocked", "undecodable"}
  \/ f.kind = "status" /\ f.status \in (400..499) \ {429}
  \/ f.kind = "code" /\ f.code \notin {1002, 1039, 1013, 1027}
=============================================================================
