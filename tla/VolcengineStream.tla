-------------------------- MODULE VolcengineStream --------------------------
(***************************************************************************)
(* The stream reader of the volcengine adapter.  It differs from the loop  *)
(* of SSELoop in two places: opening the stream is a request of its own    *)
(* that blocks under the mutex, can fail, and shares the single retry; and *)
(* the Done does not come from the server but is made at the end of the    *)
(* body, once per reader.                                                  *)
(*                                                                         *)
(* Processes: the single consumer, goroutines calling Close, the owner of  *)
(* the context, the server.                                                *)
(***************************************************************************)
EXTENDS Naturals, Sequences, FiniteSets

CONSTANTS
  Chunk,              \* chunks of a chat stream
  Bodies,             \* bodies the server can send
  Event,              \* K1 events
  IsDone(_),          \* ev.Kind == llm.EventDone
  TrState, TrInit,    \* the translator's fields, and their value in a new reader
  ChunkEvents(_, _),  \* events a chunk becomes, in a state
  ChunkAfter(_, _),   \* the state afterwards
  EndEvent(_),        \* doneEvent()
  Closers,            \* goroutines that call Close
  Habits,             \* when the consumer stops calling Next
  MaxOpens            \* bound: no new Next of a past_end consumer after so many requests

ASSUME TranslatorAssumption ==
  /\ Bodies \subseteq Seq(Chunk)
  /\ TrInit \in TrState
  /\ \A st \in TrState :
       /\ EndEvent(st) \in Event /\ IsDone(EndEvent(st))
       /\ \A c \in Chunk :
            /\ ChunkEvents(st, c) \in Seq(Event)
            /\ \A k \in DOMAIN ChunkEvents(st, c) : ~IsDone(ChunkEvents(st, c)[k])
            /\ ChunkAfter(st, c) \in TrState

ASSUME HabitAssumption == Habits \subseteq {"until_eof", "past_end"}

VARIABLES
  habit,                      \* what the consumer does
  mu,                         \* r.mu: "free", or "next" while Next holds it
  stream,                     \* r.stream: 0 is nil, else the request it reads
  queue,                      \* r.queue, each event tagged with its request
  retried, deliveredByte, closed, doneEmitted,  \* fields of the same names
  tr,                         \* toolIndexes, usage, lastFinish
  start,                      \* history: tr when the current stream was opened
  npc,                        \* where the consumer is in Next
  cpc,                        \* where each closer is in Close
  cancelled,                  \* the context given to Stream is cancelled
  served,                     \* body chosen by the server for each request
  pos,                        \* chunks of the current body read
  atEof,                      \* the current body was read to its end
  live,                       \* history: streams opened and not closed
  delivered,                  \* history: events returned, with their request
  outcome                     \* history: what the last Next returned

reader == <<queue, retried, deliveredByte, closed, doneEmitted, tr>>
upstream == <<stream, served, pos, atEof, live, start>>
vars == <<habit, mu, reader, npc, cpc, cancelled, upstream, delivered, outcome>>

Init ==
  /\ habit \in Habits
  /\ mu = "free"
  /\ stream = 0
  /\ queue = <<>>
  /\ retried = FALSE /\ deliveredByte = FALSE /\ closed = FALSE /\ doneEmitted = FALSE
  /\ tr = TrInit /\ start = TrInit
  /\ npc = "outside"
  /\ cpc = [c \in Closers |-> "idle"]
  /\ cancelled = FALSE
  /\ served = <<>>
  /\ pos = 0
  /\ atEof = FALSE
  /\ live = {}
  /\ delivered = <<>>
  /\ outcome = "none"

Tag(evs) == [i \in DOMAIN evs |-> [req |-> Len(served), ev |-> evs[i]]]
Body == served[Len(served)]

-----------------------------------------------------------------------------
(* The consumer.                                                           *)

Disciplined == habit = "until_eof"

ReturnHoldingLock(out) == mu' = mu /\ outcome' = out /\ npc' = "outside"
\* Next returns and its deferred Unlock runs.
Return(out) ==
  /\ mu' = "free"
  /\ outcome' = out
  /\ npc' = IF out \notin {"event", "none"} /\ Disciplined THEN "over" ELSE "outside"

NextCall ==
  /\ npc = "outside"
  /\ ~Disciplined => Len(served) < MaxOpens
  /\ npc' = "lock"
  /\ UNCHANGED <<habit, mu, reader, cpc, cancelled, upstream, delivered, outcome>>

NextLock ==
  /\ npc = "lock"
  /\ mu = "free"
  /\ mu' = "next"
  /\ npc' = "loop"
  /\ UNCHANGED <<habit, reader, cpc, cancelled, upstream, delivered, outcome>>

NextClosed ==
  /\ npc = "loop"
  /\ closed
  /\ Return("closed")
  /\ UNCHANGED <<habit, reader, cpc, cancelled, upstream, delivered>>

NextPop ==
  /\ npc = "loop"
  /\ ~closed
  /\ queue # <<>>
  /\ queue' = Tail(queue)
  /\ deliveredByte' = (deliveredByte \/ ~IsDone(Head(queue).ev))
  /\ delivered' = Append(delivered, Head(queue))
  /\ Return("event")
  /\ UNCHANGED <<habit, retried, closed, doneEmitted, tr, cpc, cancelled, upstream>>

\* No stream: send a request and wait for the response.
NextOpen ==
  /\ npc = "loop"
  /\ ~closed
  /\ queue = <<>>
  /\ stream = 0
  /\ \E body \in Bodies : served' = Append(served, body)
  /\ npc' = "open"
  /\ UNCHANGED <<habit, mu, reader, cpc, cancelled, stream, pos, atEof, live, start,
                 delivered, outcome>>

OpenSucceeds ==
  /\ npc = "open"
  /\ stream' = Len(served)
  /\ live' = live \cup {Len(served)}
  /\ pos' = 0
  /\ start' = tr
  /\ atEof' = FALSE
  /\ npc' = "recv"
  /\ UNCHANGED <<habit, mu, reader, cpc, cancelled, served, delivered, outcome>>

MayRetryOften == ~deliveredByte
MayRetryAnyTime == ~retried
MayRetry == ~deliveredByte /\ ~retried

\* What follows a failed open and a failed read alike.
RetryOrFail ==
  \/ MayRetry /\ retried' = TRUE /\ npc' = "loop" /\ UNCHANGED <<mu, outcome>>
  \/ ~MayRetry /\ Return("error") /\ UNCHANGED retried

OpenFails ==
  /\ npc = "open"
  /\ RetryOrFail
  /\ UNCHANGED <<habit, queue, deliveredByte, closed, doneEmitted, tr, cpc, cancelled, upstream,
                 delivered>>

\* An open stream: block in Recv.
NextRecv ==
  /\ npc = "loop"
  /\ ~closed
  /\ queue = <<>>
  /\ stream # 0
  /\ npc' = "recv"
  /\ UNCHANGED <<habit, mu, reader, cpc, cancelled, upstream, delivered, outcome>>

RecvChunk ==
  /\ npc = "recv"
  /\ pos < Len(Body)
  /\ queue' = queue \o Tag(ChunkEvents(tr, Body[pos + 1]))
  /\ tr' = ChunkAfter(tr, Body[pos + 1])
  /\ pos' = pos + 1
  /\ npc' = "loop"
  /\ UNCHANGED <<habit, mu, retried, deliveredByte, closed, doneEmitted, cpc, cancelled, stream,
                 served, atEof, live, start, delivered, outcome>>

NeverEmitted == TRUE
FirstEnd == ~doneEmitted

\* io.EOF the first time: the Done is queued and the stream stays open.
RecvFirstEof ==
  /\ npc = "recv"
  /\ pos = Len(Body)
  /\ FirstEnd
  /\ doneEmitted' = TRUE
  /\ queue' = queue \o Tag(<<EndEvent(tr)>>)
  /\ atEof' = TRUE
  /\ npc' = "loop"
  /\ UNCHANGED <<habit, mu, retried, deliveredByte, closed, tr, cpc, cancelled, stream, served,
                 pos, live, start, delivered, outcome>>

ForgetStream == stream' = 0 /\ live' = live
DropStream == stream' = 0 /\ live' = live \ {stream}

\* io.EOF again, after the Done was returned.
RecvEof ==
  /\ npc = "recv"
  /\ pos = Len(Body)
  /\ ~FirstEnd
  /\ DropStream
  /\ atEof' = TRUE
  /\ Return("eof")
  /\ UNCHANGED <<habit, reader, cpc, cancelled, served, pos, start, delivered>>

\* Recv fails: the body broke or the context was cancelled.  A body read to its
\* end goes on reporting the end.
RecvError ==
  /\ npc = "recv"
  /\ ~atEof
  /\ DropStream
  /\ RetryOrFail
  /\ UNCHANGED <<habit, queue, deliveredByte, closed, doneEmitted, tr, cpc, cancelled, served,
                 pos, atEof, start, delivered>>

-----------------------------------------------------------------------------
(* Close and cancellation.                                                 *)

CloseCall(c) ==
  /\ cpc[c] = "idle"
  /\ cpc' = [cpc EXCEPT ![c] = "lock"]
  /\ UNCHANGED <<habit, mu, reader, npc, cancelled, upstream, delivered, outcome>>

\* The body of Close, which does not block once it has the mutex.
CloseRun(c) ==
  /\ cpc[c] = "lock"
  /\ mu = "free"
  /\ closed' = TRUE
  /\ DropStream
  /\ cpc' = [cpc EXCEPT ![c] = "done"]
  /\ UNCHANGED <<habit, mu, queue, retried, deliveredByte, doneEmitted, tr, npc, cancelled,
                 served, pos, atEof, start, delivered, outcome>>

Cancel ==
  /\ ~cancelled
  /\ cancelled' = TRUE
  /\ UNCHANGED <<habit, mu, reader, npc, cpc, upstream, delivered, outcome>>

Finished ==
  /\ npc = "over" \/ (npc = "outside" /\ ~Disciplined /\ Len(served) >= MaxOpens)
  /\ \A c \in Closers : cpc[c] = "done"
  /\ UNCHANGED vars

Next ==
  \/ NextCall \/ NextLock \/ NextClosed \/ NextPop
  \/ NextOpen \/ OpenSucceeds \/ OpenFails
  \/ NextRecv \/ RecvChunk \/ RecvFirstEof \/ RecvEof \/ RecvError
  \/ \E c \in Closers : CloseCall(c) \/ CloseRun(c)
  \/ Cancel
  \/ Finished

Spec == Init /\ [][Next]_vars

(* What is fair: steps of a started Next that do not wait for anybody, and *)
(* a wait for the server that ends once the context is cancelled.          *)
Fairness ==
  /\ WF_vars(NextLock)
  /\ WF_vars(NextClosed \/ NextPop \/ NextOpen \/ NextRecv)
  /\ WF_vars(cancelled /\ (OpenFails \/ RecvError \/ RecvFirstEof \/ RecvEof))

FairSpec == Spec /\ Fairness

-----------------------------------------------------------------------------
(* Properties.                                                             *)

\* Types; the mutex is held exactly while Next runs, waiting for a response
\* included.
TypeOK ==
  /\ habit \in Habits
  /\ mu = IF npc \in {"loop", "open", "recv"} THEN "next" ELSE "free"
  /\ stream \in {0, Len(served)}
  /\ queue \in Seq([req : Nat \ {0}, ev : Event])
  /\ retried \in BOOLEAN /\ deliveredByte \in BOOLEAN
  /\ closed \in BOOLEAN /\ doneEmitted \in BOOLEAN
  /\ tr \in TrState /\ start \in TrState
  /\ npc \in {"outside", "lock", "loop", "open", "recv", "over"}
  /\ cpc \in [Closers -> {"idle", "lock", "done"}]
  /\ cancelled \in BOOLEAN /\ atEof \in BOOLEAN
  /\ served \in Seq(Bodies)
  /\ pos \in Nat
  /\ live \subseteq Nat
  /\ delivered \in Seq([req : Nat \ {0}, ev : Event])
  /\ outcome \in {"none", "event", "eof", "closed", "error"}

\* A failed open and a failed read share one retry: a consumer that stops at
\* the end causes two requests at most.
AtMostOneRetry == Disciplined => Len(served) <= 2

\* Every stream opened is closed when the reader forgets it, on each of its
\* four ways out; a reader that ended, failed or was closed holds none.
NoStreamLeak ==
  /\ live \subseteq {stream}
  /\ outcome \in {"eof", "closed", "error"} /\ Disciplined => live = {}
  /\ closed => live = {}

\* The Done that Next makes, though Recv reports the end twice and Next can be
\* called again after it: a consumer that stops at the end got one, as the last
\* event; one that goes on is sent a second answer, and never a second Done.
OneDone ==
  /\ \A j, k \in DOMAIN delivered : IsDone(delivered[j].ev) /\ IsDone(delivered[k].ev) => j = k
  /\ Disciplined =>
       /\ outcome = "eof" => \E k \in DOMAIN delivered : IsDone(delivered[k].ev)
       /\ \A k \in DOMAIN delivered : IsDone(delivered[k].ev) => k = Len(delivered)

\* A started Next, blocked in the request or in a read, returns once the
\* context is cancelled, retries included.
NextReturnsOnceCancelled ==
  npc \in {"lock", "loop", "open", "recv"} /\ cancelled ~> npc \in {"outside", "over"}
=============================================================================
