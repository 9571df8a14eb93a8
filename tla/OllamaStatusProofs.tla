------------------------- MODULE OllamaStatusProofs -------------------------
(***************************************************************************)
(* The shared status of the ollama adapter for any number of callers and   *)
(* calls, any statuses and headers.                                        *)
(***************************************************************************)
EXTENDS OllamaStatus, TLAPS

\* Results are those of returned calls, and a call is in a stage only with what
\* the stages before it left.
StageInv ==
  \A c \in Callers :
    /\ pc[c] # "idle" => result[c].class = "none"
    /\ pc[c] = "trip" => own[c] = NoResponse
    /\ pc[c] \in {"store", "body"} => own[c] \in Response
    /\ pc[c] \in {"wrap", "limit"} => kind[c] \in Kinds
    /\ pc[c] = "limit" => kind[c] \notin {"canceled", "deadline", "auth"}

\* Until it returns, an undisturbed call finds in the shared fields what its own
\* response brought.
OwnInv ==
  \A c \in Callers :
    own[c] # NoResponse /\ ~disturbed[c] =>
      /\ pc[c] \in {"store", "body", "wrap", "limit"} => lastStatus = own[c].status
      /\ pc[c] \in {"body", "wrap", "limit"} => lastRetryAfter = own[c].retryAfter
      /\ pc[c] = "limit" => Class(kind[c], own[c].status) = "rate_limit"

IInv == TypeOK /\ StageInv /\ OwnInv /\ UndisturbedIsOwn /\ SelfEvidentSurvives

\* What wrapErr makes of an error is always one of its classes.
LEMMA ClassType == \A k, status : Class(k, status) \in Classes \ {"none"}
<1> QED
  BY DEF Class, ByStatus, Classes

LEMMA RateLimitKinds ==
  \A k, status : Class(k, status) = "rate_limit" => k \notin {"canceled", "deadline", "auth"}
<1> QED
  BY DEF Class

LEMMA InitIInv == Init => IInv
<1> SUFFICES ASSUME Init PROVE IInv
  OBVIOUS
<1>1. TypeOK
  BY StatusAssumption DEF Init, TypeOK, Error, Classes
<1>2. StageInv /\ OwnInv /\ UndisturbedIsOwn /\ SelfEvidentSurvives
  BY DEF Init, StageInv, OwnInv, UndisturbedIsOwn, SelfEvidentSurvives, Error
<1> QED
  BY <1>1, <1>2 DEF IInv

LEMMA CallIInv == ASSUME IInv, NEW c \in Callers, Call(c) PROVE IInv'
<1>a. calls[c] + 1 \in 0..MaxCalls
  BY StatusAssumption DEF StatusAssumption, Call, IInv, TypeOK
<1>1. TypeOK'
  BY StatusAssumption DEF Call, Goto, IInv, TypeOK, Error, Classes
<1>2. StageInv'
  BY DEF Call, Goto, IInv, TypeOK, StageInv, Error
<1>3. OwnInv'
  BY DEF Call, Goto, IInv, TypeOK, OwnInv
<1>4. UndisturbedIsOwn'
  BY DEF Call, IInv, TypeOK, UndisturbedIsOwn, Error
<1>5. SelfEvidentSurvives'
  BY DEF Call, IInv, SelfEvidentSurvives, Error
<1> QED
  BY <1>1, <1>2, <1>3, <1>4, <1>5 DEF IInv

LEMMA TripFailsIInv == ASSUME IInv, NEW c \in Callers, TripFails(c) PROVE IInv'
<1>a. PICK k \in LostKinds : kind' = [kind EXCEPT ![c] = k]
  BY DEF TripFails
<1>b. k \in Kinds
  BY DEF Kinds
<1>c. /\ pc[c] = "trip" /\ pc' = [pc EXCEPT ![c] = "wrap"]
      /\ UNCHANGED <<lastStatus, lastRetryAfter, calls, own, result, disturbed>>
  BY DEF TripFails, Goto
<1>d. own[c] = NoResponse
  BY <1>c DEF IInv, StageInv
<1>1. TypeOK'
  BY <1>a, <1>b, <1>c DEF IInv, TypeOK
<1>2. StageInv'
  BY <1>a, <1>b, <1>c DEF IInv, TypeOK, StageInv
<1>3. OwnInv'
  BY <1>a, <1>c, <1>d DEF IInv, OwnInv
<1>4. UndisturbedIsOwn'
  BY <1>a, <1>c, <1>d DEF IInv, UndisturbedIsOwn, Error
<1>5. SelfEvidentSurvives'
  BY <1>a, <1>c DEF IInv, StageInv, SelfEvidentSurvives
<1> QED
  BY <1>1, <1>2, <1>3, <1>4, <1>5 DEF IInv

LEMMA TripRespondsIInv == ASSUME IInv, NEW c \in Callers, TripResponds(c) PROVE IInv'
<1>a. PICK r \in Response : own' = [own EXCEPT ![c] = r] /\ lastStatus' = r.status
  BY DEF TripResponds
<1>b. r.status \in Statuses
  BY DEF Response
<1>c. /\ pc[c] = "trip" /\ pc' = [pc EXCEPT ![c] = "store"] /\ Disturbs(c)
      /\ UNCHANGED <<lastRetryAfter, calls, kind, result>>
  BY DEF TripResponds, Goto
<1>1. TypeOK'
  BY <1>a, <1>b, <1>c DEF Disturbs, IInv, TypeOK
<1>2. StageInv'
  BY <1>a, <1>c DEF IInv, TypeOK, StageInv
<1>3. OwnInv'
  BY <1>a, <1>c DEF Disturbs, IInv, TypeOK, OwnInv
<1>4. UndisturbedIsOwn'
  BY <1>a, <1>c DEF Disturbs, IInv, TypeOK, StageInv, UndisturbedIsOwn, Error
<1>5. SelfEvidentSurvives'
  BY <1>c DEF IInv, SelfEvidentSurvives
<1> QED
  BY <1>1, <1>2, <1>3, <1>4, <1>5 DEF IInv

LEMMA StoreRetryAfterIInv == ASSUME IInv, NEW c \in Callers, StoreRetryAfter(c) PROVE IInv'
<1>1. TypeOK'
  BY DEF StoreRetryAfter, Goto, Disturbs, Stored, IInv, TypeOK, StageInv, Response
<1>2. StageInv'
  BY DEF StoreRetryAfter, Goto, IInv, StageInv
<1>3. OwnInv'
  BY DEF StoreRetryAfter, Goto, Disturbs, Stored, IInv, TypeOK, OwnInv
<1>4. UndisturbedIsOwn'
  BY DEF StoreRetryAfter, Disturbs, IInv, UndisturbedIsOwn, Error
<1>5. SelfEvidentSurvives'
  BY DEF StoreRetryAfter, IInv, SelfEvidentSurvives
<1> QED
  BY <1>1, <1>2, <1>3, <1>4, <1>5 DEF IInv

LEMMA CallSucceedsIInv == ASSUME IInv, NEW c \in Callers, CallSucceeds(c) PROVE IInv'
<1>1. TypeOK'
  BY DEF CallSucceeds, Goto, IInv, TypeOK
<1>2. StageInv'
  BY DEF CallSucceeds, Goto, IInv, StageInv
<1>3. OwnInv'
  BY DEF CallSucceeds, Goto, IInv, OwnInv
<1>4. UndisturbedIsOwn'
  BY DEF CallSucceeds, IInv, UndisturbedIsOwn, Error
<1>5. SelfEvidentSurvives'
  BY DEF CallSucceeds, IInv, SelfEvidentSurvives
<1> QED
  BY <1>1, <1>2, <1>3, <1>4, <1>5 DEF IInv

LEMMA CallFailsIInv == ASSUME IInv, NEW c \in Callers, CallFails(c) PROVE IInv'
<1>a. PICK k \in KindsAfter(own[c].status) : kind' = [kind EXCEPT ![c] = k]
  BY DEF CallFails
<1>b. k \in Kinds
  BY DEF Kinds, KindsAfter, RefusedKinds, LostKinds
<1>c. /\ pc[c] = "body" /\ pc' = [pc EXCEPT ![c] = "wrap"]
      /\ UNCHANGED <<lastStatus, lastRetryAfter, calls, own, result, disturbed>>
  BY DEF CallFails, Goto
<1>1. TypeOK'
  BY <1>a, <1>b, <1>c DEF IInv, TypeOK
<1>2. StageInv'
  BY <1>a, <1>b, <1>c DEF IInv, TypeOK, StageInv
<1>3. OwnInv'
  BY <1>a, <1>c DEF IInv, OwnInv
<1>4. UndisturbedIsOwn'
  BY <1>a, <1>c DEF IInv, StageInv, UndisturbedIsOwn, Error
<1>5. SelfEvidentSurvives'
  BY <1>a, <1>c DEF IInv, StageInv, SelfEvidentSurvives
<1> QED
  BY <1>1, <1>2, <1>3, <1>4, <1>5 DEF IInv

LEMMA WrapErrIInv == ASSUME IInv, NEW c \in Callers, WrapErr(c) PROVE IInv'
<1>1. TypeOK'
  BY StatusAssumption, ClassType DEF WrapErr, Goto, Returns, IInv, TypeOK, Error
<1>2. StageInv'
  BY DEF WrapErr, Goto, Returns, IInv, TypeOK, StageInv, Error
<1>3. OwnInv'
  BY DEF WrapErr, Goto, Returns, IInv, TypeOK, OwnInv
<1>4. UndisturbedIsOwn'
  BY DEF WrapErr, Returns, IInv, TypeOK, OwnInv, UndisturbedIsOwn, Captured, Error
<1>5. SelfEvidentSurvives'
  BY DEF WrapErr, Returns, IInv, TypeOK, SelfEvidentSurvives, Error, Class
<1> QED
  BY <1>1, <1>2, <1>3, <1>4, <1>5 DEF IInv

LEMMA WrapRateLimitIInv == ASSUME IInv, NEW c \in Callers, WrapRateLimit(c) PROVE IInv'
<1>a. kind[c] \notin {"canceled", "deadline", "auth"}
  BY RateLimitKinds DEF WrapRateLimit
<1>b. own[c] # NoResponse /\ ~disturbed[c] => Class(kind[c], own[c].status) = "rate_limit"
  BY DEF WrapRateLimit, Captured, IInv, OwnInv
<1>1. TypeOK'
  BY DEF WrapRateLimit, Goto, IInv, TypeOK
<1>2. StageInv'
  BY <1>a DEF WrapRateLimit, Goto, IInv, TypeOK, StageInv
<1>3. OwnInv'
  BY <1>b DEF WrapRateLimit, Goto, IInv, TypeOK, OwnInv
<1>4. UndisturbedIsOwn'
  BY DEF WrapRateLimit, IInv, UndisturbedIsOwn, Error
<1>5. SelfEvidentSurvives'
  BY DEF WrapRateLimit, IInv, SelfEvidentSurvives
<1> QED
  BY <1>1, <1>2, <1>3, <1>4, <1>5 DEF IInv

LEMMA LoadRetryAfterIInv == ASSUME IInv, NEW c \in Callers, LoadRetryAfter(c) PROVE IInv'
<1>a. own[c] # NoResponse /\ ~disturbed[c] => Deref(lastRetryAfter) = own[c].retryAfter
  BY StatusAssumption DEF StatusAssumption, LoadRetryAfter, IInv, TypeOK, OwnInv, Response, Deref
<1>b. /\ pc[c] = "limit"
      /\ result' = [result EXCEPT ![c] = [class |-> "rate_limit", retryAfter |-> Deref(lastRetryAfter)]]
      /\ pc' = [pc EXCEPT ![c] = "idle"]
      /\ UNCHANGED <<lastStatus, lastRetryAfter, calls, own, kind, disturbed>>
  BY DEF LoadRetryAfter, Returns, Goto, Error
<1>c. Deref(lastRetryAfter) \in Headers
  BY StatusAssumption DEF StatusAssumption, IInv, TypeOK, Deref
<1>1. TypeOK'
  BY <1>b, <1>c DEF IInv, TypeOK, Classes
<1>2. StageInv'
  BY <1>b DEF IInv, TypeOK, StageInv
<1>3. OwnInv'
  BY <1>b DEF IInv, TypeOK, OwnInv
<1>4. UndisturbedIsOwn'
  BY <1>a, <1>b DEF IInv, TypeOK, OwnInv, UndisturbedIsOwn, Error
<1>5. SelfEvidentSurvives'
  BY <1>b DEF IInv, TypeOK, StageInv, SelfEvidentSurvives
<1> QED
  BY <1>1, <1>2, <1>3, <1>4, <1>5 DEF IInv

\* The invariant is inductive: no step breaks it.
LEMMA StepIInv == IInv /\ [Next]_vars => IInv'
<1> SUFFICES ASSUME IInv, [Next]_vars PROVE IInv'
  OBVIOUS
<1>1. CASE UNCHANGED vars
  BY <1>1 DEF vars, IInv, TypeOK, StageInv, OwnInv, UndisturbedIsOwn, SelfEvidentSurvives
<1>2. ASSUME NEW c \in Callers,
             \/ Call(c) \/ TripFails(c) \/ TripResponds(c) \/ StoreRetryAfter(c)
             \/ CallSucceeds(c) \/ CallFails(c)
             \/ WrapErr(c) \/ WrapRateLimit(c) \/ LoadRetryAfter(c)
      PROVE IInv'
  BY <1>2, CallIInv, TripFailsIInv, TripRespondsIInv, StoreRetryAfterIInv, CallSucceedsIInv,
     CallFailsIInv, WrapErrIInv, WrapRateLimitIInv, LoadRetryAfterIInv
<1> QED
  BY <1>1, <1>2 DEF Next, Finished

\* The inductive invariant holds in every reachable state.
THEOREM Invariance == Spec => []IInv
<1> QED
  BY InitIInv, StepIInv, PTL DEF Spec

\* Fields keep their types and no nil is lifted, however the two stores of one
\* call and the two loads of another interleave.
THEOREM TypeCorrect == Spec => []TypeOK
<1>1. IInv => TypeOK
  BY DEF IInv
<1> QED
  BY <1>1, Invariance, PTL

\* A failure whose response nobody stored over is classified by that response.
THEOREM UndisturbedIsOwnHolds == Spec => []UndisturbedIsOwn
<1>1. IInv => UndisturbedIsOwn
  BY DEF IInv
<1> QED
  BY <1>1, Invariance, PTL

\* Cancellation, deadline and authorization errors are reported as such
\* whatever other calls stored.
THEOREM SelfEvidentSurvivesHolds == Spec => []SelfEvidentSurvives
<1>1. IInv => SelfEvidentSurvives
  BY DEF IInv
<1> QED
  BY <1>1, Invariance, PTL
=============================================================================
