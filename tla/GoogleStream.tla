---------------------------- MODULE GoogleStream ----------------------------
(***************************************************************************)
(* The stream reader of the google adapter: a pull iterator under the      *)
(* mutex, no retry, a Done returned when the iterator is exhausted, and a  *)
(* context of its own with a deadline, to be cancelled exactly once        *)
(* however the stream ends.                                                *)
(*                                                                         *)
(* Processes: a consumer, which may go on calling Next whatever it got;    *)
(* goroutines calling Close; the owner of the context; the timer.          *)
(***************************************************************************)
EXTENDS Naturals, Sequences

CONSTANTS
  Chunk,              \* chunks of an answer
  Bodies,             \* answers
  Event,              \* K1 events
  TrState, TrInit,    \* lastFinish and lastUsage, and their value in a new reader
  ChunkEvents(_, _),  \* events a chunk becomes, in a state
  ChunkAfter(_, _),   \* the state afterwards
  EndEvent(_),        \* the Done of an exhausted iterator
  Closers             \* goroutines that call Close

ASSUME TranslatorAssumption ==
  /\ Bodies \subseteq Seq(Chunk)
  /\ TrInit \in TrState
  /\ \A st \in TrState :
       /\ EndEvent(st) \in Event
       /\ \A c \in Chunk : ChunkEvents(st, c) \in Seq(Event) /\ ChunkAfter(st, c) \in TrState

VARIABLES
  mu,         \* r.mu: "free", or "next" while Next holds it
  iter,       \* r.next and r.stop: "none", "live" or "stopped"
  queue, closed,  \* fields of the same names
  tr,         \* lastFinish, lastUsage
  released,   \* cancel of withTimeout was called
  npc,        \* where the consumer is in Next
  cpc,        \* where each closer is in Close
  timed,      \* a timeout is configured
  cancelled,  \* the reader's context is done: cancelled by its owner or expired
  body,       \* the server's answer
  pos,        \* chunks of it pulled
  delivered,  \* history: events returned
  ending,     \* history: how the stream ended first
  eof         \* history: io.EOF was returned

reader == <<iter, queue, closed, tr, released>>
history == <<delivered, ending, eof>>
vars == <<mu, reader, npc, cpc, timed, cancelled, body, pos, history>>

Init ==
  /\ mu = "free"
  /\ iter = "none"
  /\ queue = <<>>
  /\ closed = FALSE
  /\ tr = TrInit
  /\ released = FALSE
  /\ npc = "outside"
  /\ cpc = [c \in Closers |-> "idle"]
  /\ timed \in BOOLEAN
  /\ cancelled = FALSE
  /\ body \in Bodies
  /\ pos = 0
  /\ delivered = <<>>
  /\ ending = "none"
  /\ eof = FALSE

\* Next returns and its deferred Unlock runs.
ReturnHoldingLock == mu' = mu /\ npc' = "outside"
Return == mu' = "free" /\ npc' = "outside"

\* The iterator is stopped and the context released: the three ways out.
EndLeavingOpen(why) ==
  iter' = "stopped" /\ released' = TRUE /\ closed' = closed /\ ending' = why
EndForgettingCancel(why) ==
  iter' = "stopped" /\ released' = released /\ closed' = TRUE /\ ending' = why
End(why) ==
  /\ iter' = IF iter = "none" THEN "none" ELSE "stopped"
  /\ released' = TRUE
  /\ closed' = TRUE
  /\ ending' = why

-----------------------------------------------------------------------------
(* The consumer.                                                           *)

NextCall ==
  /\ npc = "outside"
  /\ npc' = "lock"
  /\ UNCHANGED <<mu, reader, cpc, timed, cancelled, body, pos, history>>

NextLock ==
  /\ npc = "lock"
  /\ mu = "free"
  /\ mu' = "next"
  /\ npc' = "loop"
  /\ UNCHANGED <<reader, cpc, timed, cancelled, body, pos, history>>

NextClosed ==
  /\ npc = "loop"
  /\ closed
  /\ eof' = TRUE
  /\ Return
  /\ UNCHANGED <<reader, cpc, timed, cancelled, body, pos, delivered, ending>>

NextPop ==
  /\ npc = "loop"
  /\ ~closed
  /\ queue # <<>>
  /\ queue' = Tail(queue)
  /\ delivered' = Append(delivered, Head(queue))
  /\ Return
  /\ UNCHANGED <<iter, closed, tr, released, cpc, timed, cancelled, body, pos, ending, eof>>

\* Open the iterator if there is none, and block in its next.
NextPull ==
  /\ npc = "loop"
  /\ ~closed
  /\ queue = <<>>
  /\ iter' = IF iter = "none" THEN "live" ELSE iter
  /\ npc' = "pull"
  /\ UNCHANGED <<mu, queue, closed, tr, released, cpc, timed, cancelled, body, pos, history>>

PullChunk ==
  /\ npc = "pull"
  /\ pos < Len(body)
  /\ pos' = pos + 1
  /\ queue' = queue \o ChunkEvents(tr, body[pos + 1])
  /\ tr' = ChunkAfter(tr, body[pos + 1])
  /\ npc' = "loop"
  /\ UNCHANGED <<mu, iter, closed, released, cpc, timed, cancelled, body, history>>

\* Exhausted: the Done is returned in the same call.
PullExhausted ==
  /\ npc = "pull"
  /\ pos = Len(body)
  /\ End("done")
  /\ delivered' = Append(delivered, EndEvent(tr))
  /\ Return
  /\ UNCHANGED <<queue, tr, cpc, timed, cancelled, body, pos, eof>>

\* The request or the body failed, or the context is done.
PullError ==
  /\ npc = "pull"
  /\ End("failed")
  /\ Return
  /\ UNCHANGED <<queue, tr, cpc, timed, cancelled, body, pos, delivered, eof>>

-----------------------------------------------------------------------------
(* Close, cancellation and the timer.                                      *)

CloseCall(c) ==
  /\ cpc[c] = "idle"
  /\ cpc' = [cpc EXCEPT ![c] = "lock"]
  /\ UNCHANGED <<mu, reader, npc, timed, cancelled, body, pos, history>>

CloseRun(c) ==
  /\ cpc[c] = "lock"
  /\ mu = "free"
  /\ cpc' = [cpc EXCEPT ![c] = "done"]
  /\ \/ closed /\ UNCHANGED <<iter, closed, released, ending>>
     \/ ~closed /\ End("closed")
  /\ UNCHANGED <<mu, queue, tr, npc, timed, cancelled, body, pos, delivered, eof>>

Cancel ==
  /\ ~cancelled
  /\ cancelled' = TRUE
  /\ UNCHANGED <<mu, reader, npc, cpc, timed, body, pos, history>>

\* The deadline of withTimeout, which runs until it is released.
NoDeadline == FALSE
Deadline == timed /\ ~released

Expire ==
  /\ Deadline
  /\ ~cancelled
  /\ cancelled' = TRUE
  /\ UNCHANGED <<mu, reader, npc, cpc, timed, body, pos, history>>

Next ==
  \/ NextCall \/ NextLock \/ NextClosed \/ NextPop \/ NextPull
  \/ PullChunk \/ PullExhausted \/ PullError
  \/ \E c \in Closers : CloseCall(c) \/ CloseRun(c)
  \/ Cancel \/ Expire

Spec == Init /\ [][Next]_vars

(* What is fair: the steps of a started Next that wait for nobody, the     *)
(* timer, a pull whose context is done, and a Close that waits for the     *)
(* mutex, which Go hands to a starved waiter.                              *)
Fairness ==
  /\ WF_vars(NextLock)
  /\ WF_vars(NextClosed \/ NextPop \/ NextPull)
  /\ WF_vars(Expire)
  /\ WF_vars(cancelled /\ (PullError \/ PullExhausted))
  /\ \A c \in Closers : SF_vars(CloseRun(c))

FairSpec == Spec /\ Fairness

-----------------------------------------------------------------------------
(* Properties.                                                             *)

\* Types; the mutex is held exactly while Next runs.
TypeOK ==
  /\ mu = IF npc \in {"loop", "pull"} THEN "next" ELSE "free"
  /\ iter \in {"none", "live", "stopped"}
  /\ queue \in Seq(Event)
  /\ closed \in BOOLEAN
  /\ tr \in TrState
  /\ released \in BOOLEAN
  /\ npc \in {"outside", "lock", "loop", "pull"}
  /\ cpc \in [Closers -> {"idle", "lock", "done"}]
  /\ timed \in BOOLEAN /\ cancelled \in BOOLEAN
  /\ body \in Bodies
  /\ pos \in 0..Len(body)
  /\ delivered \in Seq(Event)
  /\ ending \in {"none", "done", "failed", "closed"}
  /\ eof \in BOOLEAN

\* However the stream ended, its iterator is stopped and its timer released,
\* and neither happens to a stream that goes on: a context cancelled too early
\* truncates the answer.
Released ==
  IF ending = "none" THEN iter # "stopped" /\ ~released ELSE iter # "live" /\ released

\* After the Done, an error or Close no event is delivered and nothing is
\* pulled, however often Next is called.
EndIsFinal == [][ending # "none" => UNCHANGED <<delivered, pos, ending>>]_vars

\* With a timeout, or once the context is cancelled, a started Next and a
\* waiting Close return, even when the server is silent.
CallsReturn ==
  /\ (timed \/ cancelled) /\ npc # "outside" ~> npc = "outside"
  /\ \A c \in Closers : (timed \/ cancelled) /\ cpc[c] = "lock" ~> cpc[c] = "done"
=============================================================================
