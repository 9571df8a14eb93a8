------------------------------ MODULE SSELoop ------------------------------
(***************************************************************************)
(* The pull reader shared by the five adapters built on an SSE stream of   *)
(* the vendor SDK: openai, deepseek and kimi (OpenAI chunks), anthropic    *)
(* and minimax (Anthropic events).  The five readers are the same code up  *)
(* to the translator from upstream chunks to K1 events, which is a         *)
(* parameter here; the definitions cite openai/openai.go.                  *)
(*                                                                         *)
(* Processes: the single consumer calling Next, any number of goroutines   *)
(* calling Close, the owner of the context who may cancel it, and the      *)
(* upstream server.  Next keeps r.mu during the blocking upstream read.    *)
(***************************************************************************)
EXTENDS Naturals, Sequences, FiniteSets

CONSTANTS
  Dialects,             \* families of upstream formats
  Chunk(_),             \* chunks a server of a dialect can send
  Scripts(_),           \* the bodies it can send, each a sequence of chunks
  Event,                \* K1 events
  IsDone(_),            \* ev.Kind == llm.EventDone
  TrState(_),           \* states of the translator's fields of the reader
  TrInit(_),            \* their value in a new reader
  ChunkEvents(_, _, _), \* events a chunk is translated to, in a state
  ChunkState(_, _, _),  \* state the translation of a chunk leaves behind
  Closers,              \* goroutines that call Close
  Habits,               \* when the consumer stops calling Next
  MaxOpens              \* bound: no new Next once this many requests were sent

ASSUME TranslatorAssumption ==
  \A d \in Dialects :
    /\ Scripts(d) \subseteq Seq(Chunk(d))
    /\ TrInit(d) \in TrState(d)
    /\ \A st \in TrState(d), c \in Chunk(d) :
         /\ ChunkEvents(d, st, c) \in Seq(Event)
         /\ ChunkState(d, st, c) \in TrState(d)

ASSUME HabitAssumption == Habits \subseteq {"until_done", "until_eof", "past_end"}

ASSUME MaxOpensAssumption == MaxOpens \in Nat \ {0}

VARIABLES
  dialect,        \* which adapter this is
  habit,          \* what its consumer does
  mu,             \* r.mu: "free", or "next" while Next holds it
  stream,         \* r.stream: 0 is nil, else the number of the request it reads
  queue,          \* r.queue, each event tagged with the request it came from
  retried, deliveredByte, closed,  \* the fields of the same names
  tr,             \* the translator's fields (lastFinish, toolIndexes, ...)
  npc,            \* where the consumer is: outside Next, in Lock, in the loop,
                  \* in stream.Next, or done with the reader
  cpc,            \* where each closer is
  cancelled,      \* the caller's context is cancelled
  served,         \* body the server chose for each request sent so far
  pos,            \* chunks of the current body already read
  live,           \* history: requests whose stream is not closed yet
  delivered,      \* history: events Next returned, tagged with their request
  outcome         \* history: what the last Next returned

reader == <<stream, queue, retried, deliveredByte, closed, tr>>
server == <<served, pos, live>>
vars == <<dialect, habit, mu, reader, npc, cpc, cancelled, server, delivered, outcome>>

Requests == 1..Len(served)
Tagged == [req : Nat \ {0}, ev : Event]

Init ==
  /\ dialect \in Dialects
  /\ habit \in Habits
  /\ mu = "free"
  /\ stream = 0
  /\ queue = <<>>
  /\ retried = FALSE
  /\ deliveredByte = FALSE
  /\ closed = FALSE
  /\ tr = TrInit(dialect)
  /\ npc = "outside"
  /\ cpc = [c \in Closers |-> "idle"]
  /\ cancelled = FALSE
  /\ served = <<>>
  /\ pos = 0
  /\ live = {}
  /\ delivered = <<>>
  /\ outcome = "none"

-----------------------------------------------------------------------------
(* The consumer.  "until_done" stops at the first Done, end or error;      *)
(* "until_eof" at the first end or error, as a drain loop does;            *)
(* "past_end" keeps calling.                                               *)

Stops(out) ==
  \/ out \in {"eof", "closed", "error"} /\ habit # "past_end"
  \/ out = "done" /\ habit = "until_done"

ReturnHoldingLock(out) ==
  /\ mu' = mu
  /\ outcome' = out
  /\ npc' = IF Stops(out) THEN "over" ELSE "outside"

\* Next returns: the deferred Unlock runs.
Return(out) ==
  /\ mu' = "free"
  /\ outcome' = out
  /\ npc' = IF Stops(out) THEN "over" ELSE "outside"

\* The consumer calls Next and waits for the mutex.
NextCall ==
  /\ npc = "outside"
  /\ habit = "past_end" => Len(served) < MaxOpens
  /\ npc' = "lock"
  /\ UNCHANGED <<dialect, habit, mu, reader, cpc, cancelled, server, delivered, outcome>>

NextLock ==
  /\ npc = "lock"
  /\ mu = "free"
  /\ mu' = "next"
  /\ npc' = "loop"
  /\ UNCHANGED <<dialect, habit, reader, cpc, cancelled, server, delivered, outcome>>

\* if r.closed { return io.EOF }; the history tells this io.EOF from the end
\* of a body.
NextClosed ==
  /\ npc = "loop"
  /\ closed
  /\ Return("closed")
  /\ UNCHANGED <<dialect, habit, reader, cpc, cancelled, server, delivered>>

\* Only content makes a retry impossible: Done does not.
CountsAsByte(ev) == ~IsDone(ev)

PopKeepingHead == queue' = queue
PopHead == queue' = Tail(queue)

\* The head of the queue is returned.
NextPop ==
  /\ npc = "loop"
  /\ ~closed
  /\ queue # <<>>
  /\ PopHead
  /\ deliveredByte' = (deliveredByte \/ CountsAsByte(Head(queue).ev))
  /\ delivered' = Append(delivered, Head(queue))
  /\ Return(IF IsDone(Head(queue).ev) THEN "done" ELSE "event")
  /\ UNCHANGED <<dialect, habit, stream, retried, closed, tr, cpc, cancelled, server>>

\* Nothing queued: open the upstream stream if there is none (a new request,
\* whose body the server picks) and block in stream.Next.
NextRead ==
  /\ npc = "loop"
  /\ ~closed
  /\ queue = <<>>
  /\ npc' = "recv"
  /\ \/ /\ stream # 0
        /\ UNCHANGED <<stream, server>>
     \/ /\ stream = 0
        /\ \E body \in Scripts(dialect) : served' = Append(served, body)
        /\ stream' = Len(served) + 1
        /\ live' = live \cup {Len(served) + 1}
        /\ pos' = 0
  /\ UNCHANGED <<dialect, habit, mu, queue, retried, deliveredByte, closed, tr,
                 cpc, cancelled, delivered, outcome>>

TagAll(evs) == [i \in DOMAIN evs |-> [req |-> Len(served), ev |-> evs[i]]]

\* stream.Next() is true: translate the chunk and go round the loop.
RecvChunk ==
  /\ npc = "recv"
  /\ pos < Len(served[Len(served)])
  /\ LET c == served[Len(served)][pos + 1]
     IN  /\ queue' = queue \o TagAll(ChunkEvents(dialect, tr, c))
         /\ tr' = ChunkState(dialect, tr, c)
  /\ pos' = pos + 1
  /\ npc' = "loop"
  /\ UNCHANGED <<dialect, habit, mu, stream, retried, deliveredByte, closed, cpc,
                 cancelled, served, live, delivered, outcome>>

\* _ = r.stream.Close(); r.stream = nil
ForgetStream == /\ stream' = 0
                /\ live' = live
DropStream == /\ stream' = 0
              /\ live' = live \ {stream}

\* stream.Next() is false and stream.Err() is nil: the body ended.
RecvEnd ==
  /\ npc = "recv"
  /\ pos = Len(served[Len(served)])
  /\ DropStream
  /\ Return("eof")
  /\ UNCHANGED <<dialect, habit, queue, retried, deliveredByte, closed, tr, cpc,
                 cancelled, served, pos, delivered>>

MayRetryAnyTime == ~retried
MayRetryTwice == ~deliveredByte
MayRetry == ~deliveredByte /\ ~retried

\* stream.Next() is false with an error: a failed request, a broken body or a
\* cancelled context, at any point of the body.
RecvError ==
  /\ npc = "recv"
  /\ DropStream
  /\ \/ /\ MayRetry
        /\ retried' = TRUE
        /\ npc' = "loop"
        /\ UNCHANGED <<mu, outcome>>
     \/ /\ ~MayRetry
        /\ Return("error")
        /\ UNCHANGED retried
  /\ UNCHANGED <<dialect, habit, queue, deliveredByte, closed, tr, cpc, cancelled,
                 served, pos, delivered>>

-----------------------------------------------------------------------------
(* Close and cancellation.                                                 *)

CloseCall(c) ==
  /\ cpc[c] = "idle"
  /\ cpc' = [cpc EXCEPT ![c] = "lock"]
  /\ UNCHANGED <<dialect, habit, mu, reader, npc, cancelled, server, delivered, outcome>>

CloseIgnoringLock(c) ==
  /\ cpc[c] = "lock"
  /\ closed' = TRUE
  /\ DropStream
  /\ cpc' = [cpc EXCEPT ![c] = "done"]
  /\ UNCHANGED <<dialect, habit, mu, queue, retried, deliveredByte, tr, npc, cancelled,
                 served, pos, delivered, outcome>>

\* The body of Close runs under r.mu and does not block, so it is one step.
CloseRun(c) ==
  /\ cpc[c] = "lock"
  /\ mu = "free"
  /\ closed' = TRUE
  /\ DropStream
  /\ cpc' = [cpc EXCEPT ![c] = "done"]
  /\ UNCHANGED <<dialect, habit, mu, queue, retried, deliveredByte, tr, npc, cancelled,
                 served, pos, delivered, outcome>>

\* The owner of the context cancels it.
Cancel ==
  /\ ~cancelled
  /\ cancelled' = TRUE
  /\ UNCHANGED <<dialect, habit, mu, reader, npc, cpc, server, delivered, outcome>>

Finished ==
  /\ npc = "over" \/ (npc = "outside" /\ habit = "past_end" /\ Len(served) >= MaxOpens)
  /\ \A c \in Closers : cpc[c] = "done"
  /\ cancelled
  /\ UNCHANGED vars

Next ==
  \/ NextCall \/ NextLock \/ NextClosed \/ NextPop \/ NextRead
  \/ RecvChunk \/ RecvEnd \/ RecvError
  \/ \E c \in Closers : CloseCall(c) \/ CloseRun(c)
  \/ Cancel
  \/ Finished

Spec == Init /\ [][Next]_vars

(* What is fair: a goroutine that can run does (weak fairness of the steps *)
(* of a started Next); a waiter of a Go mutex gets it in the end, which    *)
(* its starvation mode gives (strong fairness of Close); a blocked read    *)
(* fails once the context is cancelled.  Nothing makes the consumer call   *)
(* Next, an owner cancel, or a server answer.                              *)
Fairness ==
  /\ WF_vars(NextLock)
  /\ WF_vars(NextClosed \/ NextPop \/ NextRead)
  /\ WF_vars(cancelled /\ RecvError)
  /\ \A c \in Closers : SF_vars(CloseRun(c))

FairSpec == Spec /\ Fairness

-----------------------------------------------------------------------------
(* Properties.                                                             *)

\* The types of the reader's fields, the history included; the mutex is held
\* exactly while Next runs, whichever way it returns.
TypeOK ==
  /\ dialect \in Dialects
  /\ habit \in Habits
  /\ mu = IF npc \in {"loop", "recv"} THEN "next" ELSE "free"
  /\ served \in Seq(Scripts(dialect))
  /\ stream \in {0, Len(served)}
  /\ queue \in Seq(Tagged)
  /\ retried \in BOOLEAN
  /\ deliveredByte \in BOOLEAN
  /\ closed \in BOOLEAN
  /\ tr \in TrState(dialect)
  /\ npc \in {"outside", "lock", "loop", "recv", "over"}
  /\ cpc \in [Closers -> {"idle", "lock", "done"}]
  /\ cancelled \in BOOLEAN
  /\ pos \in Nat
  /\ live \subseteq Nat
  /\ delivered \in Seq(Tagged)
  /\ outcome \in {"none", "event", "done", "eof", "closed", "error"}

Disciplined == habit # "past_end"

\* The retry rule of Next: what the consumer was given comes from one request.
\* Content of two completions is never spliced, whatever fails and whenever;
\* the only event of another request it can see is a Done.
SingleSource ==
  Disciplined =>
    \A i, j \in DOMAIN delivered :
      ~IsDone(delivered[i].ev) /\ ~IsDone(delivered[j].ev)
        => delivered[i].req = delivered[j].req

\* A consumer that stops at the end sees at most one retry: two requests.
AtMostOneRetry == Disciplined => Len(served) <= 2

\* No upstream stream is lost open: every stream opened and not closed is the
\* one the reader still holds, and a reader that ended, failed or was closed
\* holds none.
NoStreamLeak ==
  /\ live \subseteq {stream}
  /\ outcome \in {"eof", "closed", "error"} /\ Disciplined => live = {}
  /\ closed => live = {}

\* Once Close has taken effect nothing reaches the consumer and no request is
\* sent, whatever Next was doing when Close was called.
QuietAfterClose ==
  [][closed => /\ delivered' = delivered
               /\ served' = served
               /\ pos' = pos]_vars

\* Once the context is cancelled a started Next returns, and a goroutine in
\* Close gets through, even if that Next was blocked on a silent server.
CallsReturnOnceCancelled ==
  /\ npc \in {"lock", "loop", "recv"} /\ cancelled ~> npc \in {"outside", "over"}
  /\ \A c \in Closers : cpc[c] = "lock" /\ cancelled ~> cpc[c] = "done"

-----------------------------------------------------------------------------
(* What the documents of the repository say and the code does not do.      *)

\* "EventDone is terminal per K1 contract; subsequent reads should return
\* io.EOF" (internal/contract/contract.go): nothing is returned after a Done,
\* neither to a consumer that reads on to the end nor to one that calls Next
\* again after io.EOF.
DoneIsLast ==
  \A i \in DOMAIN delivered : IsDone(delivered[i].ev) => i = Len(delivered)

\* "the lock is shaped to allow concurrent Close() from another goroutine to
\* win the race" (CONVENTIONS.md): a Close that waits for the mutex closes the
\* reader, with no help from the server or from the context's owner.
CloseWins == \A c \in Closers : cpc[c] = "lock" ~> closed
=============================================================================
