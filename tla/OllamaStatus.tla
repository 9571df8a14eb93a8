---------------------------- MODULE OllamaStatus ----------------------------
(***************************************************************************)
(* How the ollama adapter learns the status of a failed request.  Its SDK  *)
(* drops it, so the transport writes status and Retry-After of every       *)
(* response to two fields that all calls of the adapter share, Generate,   *)
(* Stream and Embed, and wrapErr reads them when a call has failed.        *)
(*                                                                         *)
(* Processes: callers, each making one call after the other.               *)
(***************************************************************************)
EXTENDS Naturals

CONSTANTS
  Callers,    \* goroutines using one adapter, or copies of it made by WithTools
  Statuses,   \* HTTP statuses of responses
  Headers,    \* values of Retry-After
  Empty,      \* "", what a response without the header has
  MaxCalls    \* bound: calls a caller makes

ASSUME StatusAssumption ==
  /\ Statuses \subseteq 200..599
  /\ Empty \in Headers /\ "nil" \notin Headers
  /\ MaxCalls \in Nat

\* How a call can fail without a response, with an error status, while the
\* body of a successful one is read.
LostKinds == {"canceled", "deadline", "net", "other"}
RefusedKinds(status) ==
  {IF status = 401 THEN "auth" ELSE "status", "canceled", "deadline", "net"}
Kinds == LostKinds \cup {"auth", "status"}
KindsAfter(status) == IF status >= 400 THEN RefusedKinds(status) ELSE LostKinds

NoResponse == [status |-> 0, retryAfter |-> Empty]
Response == [status : Statuses, retryAfter : Headers]
Classes == {"none", "raw", "auth", "invalid", "transient", "rate_limit"}
Error(class, retryAfter) == [class |-> class, retryAfter |-> retryAfter]

VARIABLES
  lastStatus,      \* the field of the same name, 0 before the first response
  lastRetryAfter,  \* the field of the same name, "nil" before the first response
  pc,              \* where each caller is
  calls,           \* calls started
  own,             \* history: the response to the caller's current call
  kind,            \* the error of Chat or Embed
  result,          \* what the call returned
  disturbed        \* history: another response was stored over the caller's own

vars == <<lastStatus, lastRetryAfter, pc, calls, own, kind, result, disturbed>>

Init ==
  /\ lastStatus = 0
  /\ lastRetryAfter = "nil"
  /\ pc = [c \in Callers |-> "idle"]
  /\ calls = [c \in Callers |-> 0]
  /\ own = [c \in Callers |-> NoResponse]
  /\ kind = [c \in Callers |-> "none"]
  /\ result = [c \in Callers |-> Error("none", Empty)]
  /\ disturbed = [c \in Callers |-> FALSE]

Goto(c, place) == pc' = [pc EXCEPT ![c] = place]
Returns(c, class, retryAfter) ==
  /\ result' = [result EXCEPT ![c] = Error(class, retryAfter)]
  /\ Goto(c, "idle")

\* Callers whose own response is in the shared fields, or was until now.
Disturbs(c) ==
  disturbed' = [d \in Callers |->
                  disturbed[d] \/ (d # c /\ pc[d] \in {"store", "body", "wrap", "limit"})]

-----------------------------------------------------------------------------
(* The transport, during Chat or Embed.                                    *)

Call(c) ==
  /\ pc[c] = "idle"
  /\ calls[c] < MaxCalls
  /\ calls' = [calls EXCEPT ![c] = @ + 1]
  /\ own' = [own EXCEPT ![c] = NoResponse]
  /\ kind' = [kind EXCEPT ![c] = "none"]
  /\ result' = [result EXCEPT ![c] = Error("none", Empty)]
  /\ disturbed' = [disturbed EXCEPT ![c] = FALSE]
  /\ Goto(c, "trip")
  /\ UNCHANGED <<lastStatus, lastRetryAfter>>

\* RoundTrip returned no response: nothing is stored.
TripFails(c) ==
  /\ pc[c] = "trip"
  /\ \E k \in LostKinds : kind' = [kind EXCEPT ![c] = k]
  /\ Goto(c, "wrap")
  /\ UNCHANGED <<lastStatus, lastRetryAfter, calls, own, result, disturbed>>

TripResponds(c) ==
  /\ pc[c] = "trip"
  /\ \E r \in Response :
       /\ own' = [own EXCEPT ![c] = r]
       /\ lastStatus' = r.status
  /\ Disturbs(c)
  /\ Goto(c, "store")
  /\ UNCHANGED <<lastRetryAfter, calls, kind, result>>

KeepIfAbsent(header) == IF header = Empty THEN lastRetryAfter ELSE header
Stored(header) == header

\* The second of the two stores.
StoreRetryAfter(c) ==
  /\ pc[c] = "store"
  /\ lastRetryAfter' = Stored(own[c].retryAfter)
  /\ Disturbs(c)
  /\ Goto(c, "body")
  /\ UNCHANGED <<lastStatus, calls, own, kind, result>>

CallSucceeds(c) ==
  /\ pc[c] = "body"
  /\ own[c].status < 400
  /\ Goto(c, "idle")
  /\ UNCHANGED <<lastStatus, lastRetryAfter, calls, own, kind, result, disturbed>>

CallFails(c) ==
  /\ pc[c] = "body"
  /\ \E k \in KindsAfter(own[c].status) : kind' = [kind EXCEPT ![c] = k]
  /\ Goto(c, "wrap")
  /\ UNCHANGED <<lastStatus, lastRetryAfter, calls, own, result, disturbed>>

-----------------------------------------------------------------------------
(* wrapErr.                                                                *)

\* The class of an error of kind k, read with that status; an api.StatusError
\* brings its own when none was captured.
ByStatus(k, status) ==
  CASE status \in {401, 403} -> "auth"
    [] status = 429 -> "rate_limit"
    [] status \in 500..599 -> "transient"
    [] status \in 400..499 \ {401, 403, 429} -> "invalid"
    [] OTHER -> IF k = "net" THEN "transient" ELSE "raw"
ByStatusFirst(k, status) == ByStatus(k, status)
Class(k, status) ==
  CASE k = "canceled" -> "raw"
    [] k = "deadline" -> "transient"
    [] k = "auth" -> "auth"
    [] OTHER -> ByStatus(k, status)

Captured(c) == IF lastStatus = 0 /\ kind[c] = "status" THEN own[c].status ELSE lastStatus

\* Everything up to the load of lastRetryAfter, in which only lastStatus is
\* shared.
WrapErr(c) ==
  /\ pc[c] = "wrap"
  /\ Class(kind[c], Captured(c)) # "rate_limit"
  /\ Returns(c, Class(kind[c], Captured(c)), Empty)
  /\ UNCHANGED <<lastStatus, lastRetryAfter, calls, own, kind, disturbed>>

WrapRateLimit(c) ==
  /\ pc[c] = "wrap"
  /\ Class(kind[c], Captured(c)) = "rate_limit"
  /\ Goto(c, "limit")
  /\ UNCHANGED <<lastStatus, lastRetryAfter, calls, own, kind, result, disturbed>>

Unchecked(pointer) == pointer
Deref(pointer) == IF pointer = "nil" THEN Empty ELSE pointer

LoadRetryAfter(c) ==
  /\ pc[c] = "limit"
  /\ Returns(c, "rate_limit", Deref(lastRetryAfter))
  /\ UNCHANGED <<lastStatus, lastRetryAfter, calls, own, kind, disturbed>>

Finished ==
  /\ \A c \in Callers : pc[c] = "idle" /\ calls[c] = MaxCalls
  /\ UNCHANGED vars

Next ==
  \/ \E c \in Callers :
       \/ Call(c) \/ TripFails(c) \/ TripResponds(c) \/ StoreRetryAfter(c)
       \/ CallSucceeds(c) \/ CallFails(c)
       \/ WrapErr(c) \/ WrapRateLimit(c) \/ LoadRetryAfter(c)
  \/ Finished

Spec == Init /\ [][Next]_vars

-----------------------------------------------------------------------------
(* Properties.                                                             *)

\* Types; a Retry-After that wrapErr lifts is never the nil of a field that no
\* response was stored in, though the status beside it may already be another's.
TypeOK ==
  /\ lastStatus \in Statuses \cup {0}
  /\ lastRetryAfter \in Headers \cup {"nil"}
  /\ pc \in [Callers -> {"idle", "trip", "store", "body", "wrap", "limit"}]
  /\ calls \in [Callers -> 0..MaxCalls]
  /\ own \in [Callers -> Response \cup {NoResponse}]
  /\ kind \in [Callers -> Kinds \cup {"none"}]
  /\ result \in [Callers -> [class : Classes, retryAfter : Headers]]
  /\ disturbed \in [Callers -> BOOLEAN]

\* The failure of a call whose response nobody stored over is classified by
\* that response: its status and its Retry-After, also when it had none and
\* the response before it did.
UndisturbedIsOwn ==
  \A c \in Callers :
    result[c].class # "none" /\ own[c] # NoResponse /\ ~disturbed[c] =>
      result[c] = Error(Class(kind[c], own[c].status),
                        IF Class(kind[c], own[c].status) = "rate_limit" THEN own[c].retryAfter ELSE Empty)

\* Cancellation, a deadline and an authorization error say themselves what they
\* are: whatever other calls stored, they are reported as such.
SelfEvidentSurvives ==
  \A c \in Callers : result[c].class # "none" =>
    /\ kind[c] = "canceled" => result[c].class = "raw"
    /\ kind[c] = "deadline" => result[c].class = "transient"
    /\ kind[c] = "auth" => result[c].class = "auth"

\* errors.go: the Retry-After of a RateLimitError "cannot bleed from a prior
\* request": it is the one this call's response had.
RetryAfterIsOwn ==
  \A c \in Callers : result[c].retryAfter \in {Empty, own[c].retryAfter}
=============================================================================
