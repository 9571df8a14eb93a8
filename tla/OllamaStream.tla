---------------------------- MODULE OllamaStream ----------------------------
(***************************************************************************)
(* The stream of the Ollama adapter.  Stream starts a goroutine, the       *)
(* producer, that runs the SDK's Chat call; the callback hands each frame  *)
(* over respCh (capacity 1), and when Chat returns the goroutine puts its  *)
(* error in errCh (capacity 1) and closes both channels.  Next takes the   *)
(* frames from respCh; r.mu is held only around short accesses to the      *)
(* fields, never while blocked, so a locked section is one step here.      *)
(*                                                                         *)
(* Processes: producer, the single consumer calling Next, goroutines       *)
(* calling Close, the owner of the parent context, the server.             *)
(***************************************************************************)
EXTENDS Naturals, Sequences

CONSTANTS
  Modes,           \* tools bound or not, and the parser of the model
  Frame,           \* frames of a chat stream
  Bodies(_),       \* bodies a server can answer with, sequences of frames
  IsLast(_),       \* resp.Done
  Event,           \* K1 events
  TrState,         \* values of r.contentBuf and r.nextIdx
  FrameEvents(_, _, _),  \* events ingest appends for a frame, in a state
  FrameAfter(_, _, _),   \* contentBuf and nextIdx after it
  Run(_, _),       \* the whole translation of a body: see RunAssumption
  Closers,         \* goroutines that call Close
  Habits           \* when the consumer stops calling Next

ASSUME HabitAssumption == Habits \subseteq {"until_eof", "past_end"}

\* A server sends nothing after a frame with Done.
ASSUME BodyAssumption ==
  \A m \in Modes : \A b \in Bodies(m) :
    /\ b \in Seq(Frame)
    /\ \A k \in DOMAIN b : IsLast(b[k]) \in BOOLEAN /\ (IsLast(b[k]) => k = Len(b))

\* Run(m, b)[k] is what the first k frames of b become: the translator's state
\* and all the events so far.
ASSUME RunAssumption ==
  \A m \in Modes : \A b \in Bodies(m) :
    /\ Run(m, b)[0].evs = <<>>
    /\ \A k \in 0..Len(b) : Run(m, b)[k].evs \in Seq(Event) /\ Run(m, b)[k].st \in TrState
    /\ \A k \in 1..Len(b) :
         LET prev == Run(m, b)[k - 1]
         IN  /\ FrameEvents(m, prev.st, b[k]) \in Seq(Event)
             /\ Run(m, b)[k].evs = prev.evs \o FrameEvents(m, prev.st, b[k])
             /\ Run(m, b)[k].st = FrameAfter(m, prev.st, b[k])

VARIABLES
  mode,       \* r.hasTools and r.strategy
  habit,      \* what the consumer does
  body,       \* the server's answer
  pos,        \* frames of it the SDK has read
  ppc,        \* the producer: reading, in the callback's select, reporting the
              \* error, closing respCh, or gone
  perr,       \* error Chat returned
  respCh, respClosed,  \* the two channels
  errCh, errClosed,
  ctxDone,    \* r.ctx is cancelled, by Close or by its parent
  closed, done, pending, tr,  \* the fields of the reader
  npc,        \* the consumer, by the line of Next it is at
  resp,       \* <<>>, or the frame Next received and has not ingested yet
  cpc,        \* the closers
  ingested,   \* history: frames ingested
  delivered,  \* history: events Next returned
  outcome     \* history: what the last Next returned

producer == <<mode, body, pos, ppc, perr>>
channels == <<respCh, respClosed, errCh, errClosed>>
reader == <<closed, done, pending, tr, ingested>>
consumer == <<habit, npc, resp, delivered, outcome>>
vars == <<producer, channels, ctxDone, reader, consumer, cpc>>

Init ==
  /\ mode \in Modes
  /\ habit \in Habits
  /\ body \in Bodies(mode)
  /\ pos = 0
  /\ ppc = "read"
  /\ perr = "nil"
  /\ respCh = <<>> /\ respClosed = FALSE
  /\ errCh = <<>> /\ errClosed = FALSE
  /\ ctxDone = FALSE
  /\ closed = FALSE
  /\ done = FALSE
  /\ pending = <<>>
  /\ tr = Run(mode, body)[0].st
  /\ npc = "outside"
  /\ resp = <<>>
  /\ cpc = [c \in Closers |-> "idle"]
  /\ ingested = 0
  /\ delivered = <<>>
  /\ outcome = "none"

-----------------------------------------------------------------------------
(* The producer.                                                           *)

\* The SDK reads a frame and calls the callback.
ChatRead ==
  /\ ppc = "read"
  /\ pos < Len(body)
  /\ pos' = pos + 1
  /\ ppc' = "send"
  /\ UNCHANGED <<mode, body, perr, channels, ctxDone, reader, consumer, cpc>>

\* The callback's select: the send and the cancelled context may both be ready.
SendUnbounded == respCh' = Append(respCh, body[pos])
Send == Len(respCh) < 1 /\ respCh' = Append(respCh, body[pos])

CallbackSend ==
  /\ ppc = "send"
  /\ Send
  /\ ppc' = "read"
  /\ UNCHANGED <<mode, body, pos, perr, respClosed, errCh, errClosed, ctxDone, reader,
                 consumer, cpc>>

ChatReturns(err) ==
  /\ ppc' = "report"
  /\ perr' = err
  /\ UNCHANGED <<mode, body, pos, channels, ctxDone, reader, consumer, cpc>>

BlindCallback == FALSE /\ ChatReturns("ctx")
CallbackCancelled ==
  /\ ppc = "send"
  /\ ctxDone
  /\ ChatReturns("ctx")

\* The body ended.
ChatEnds ==
  /\ ppc = "read"
  /\ pos = Len(body)
  /\ ChatReturns("nil")

\* The request or the body failed.
ChatFails ==
  /\ ppc = "read"
  /\ ChatReturns("upstream")

\* The context was cancelled during the read; Next allows for a Chat that
\* returns no error then.
ChatCancelled ==
  /\ ppc = "read"
  /\ ctxDone
  /\ \E err \in {"ctx", "nil"} : ChatReturns(err)

\* errCh has room for the only value ever sent.
Report ==
  /\ ppc = "report"
  /\ errCh' = Append(errCh, perr)
  /\ errClosed' = TRUE
  /\ ppc' = "close"
  /\ UNCHANGED <<mode, body, pos, perr, respCh, respClosed, ctxDone, reader, consumer, cpc>>

\* The deferred close of respCh.
CloseRespCh ==
  /\ ppc = "close"
  /\ respClosed' = TRUE
  /\ ppc' = "exited"
  /\ UNCHANGED <<mode, body, pos, perr, respCh, errCh, errClosed, ctxDone, reader, consumer,
                 cpc>>

-----------------------------------------------------------------------------
(* The consumer.                                                           *)

NextCall ==
  /\ npc = "outside"
  /\ npc' = "check"
  /\ UNCHANGED <<producer, channels, ctxDone, reader, habit, resp, delivered, outcome, cpc>>

Return(out) ==
  /\ outcome' = out
  /\ npc' = IF habit = "until_eof" /\ out # "event" THEN "over" ELSE "outside"

\* The first locked section returns io.EOF when closed, before anything else.
NextClosed ==
  /\ npc = "check"
  /\ closed
  /\ Return("closed")
  /\ UNCHANGED <<producer, channels, ctxDone, reader, habit, resp, delivered, cpc>>

PendingFirst == TRUE
Open == ~closed

PopHead == pending' = Tail(pending)

NextPop ==
  /\ npc = "check"
  /\ Open
  /\ pending # <<>>
  /\ PopHead
  /\ delivered' = Append(delivered, Head(pending))
  /\ Return("event")
  /\ UNCHANGED <<producer, channels, ctxDone, closed, done, tr, ingested, habit, resp, cpc>>

NextDone ==
  /\ npc = "check"
  /\ ~closed
  /\ pending = <<>>
  /\ done
  /\ Return("eof")
  /\ UNCHANGED <<producer, channels, ctxDone, reader, habit, resp, delivered, cpc>>

NextUnlock ==
  /\ npc = "check"
  /\ ~closed
  /\ pending = <<>>
  /\ ~done
  /\ npc' = "ctx"
  /\ UNCHANGED <<producer, channels, ctxDone, reader, habit, resp, delivered, outcome, cpc>>

SelectOnly == FALSE
CtxErr == ctxDone

\* if err := r.ctx.Err(); err != nil, then the select.
NextCtx ==
  /\ npc = "ctx"
  /\ \/ CtxErr /\ Return("error")
     \/ ~CtxErr /\ npc' = "select" /\ UNCHANGED outcome
  /\ UNCHANGED <<producer, channels, ctxDone, reader, habit, resp, delivered, cpc>>

SelectCtx ==
  /\ npc = "select"
  /\ ctxDone
  /\ Return("error")
  /\ UNCHANGED <<producer, channels, ctxDone, reader, habit, resp, delivered, cpc>>

SelectResp ==
  /\ npc = "select"
  /\ respCh # <<>>
  /\ resp' = <<Head(respCh)>>
  /\ respCh' = Tail(respCh)
  /\ npc' = "ingest"
  /\ UNCHANGED <<producer, respClosed, errCh, errClosed, ctxDone, reader, habit, delivered,
                 outcome, cpc>>

\* Waiting on errCh in the same select, which the comment in Next warns of.
ErrReady == errCh # <<>>
\* A closed channel is drained before it reports that it is closed.
RespDrained == respClosed /\ respCh = <<>>

SelectClosed ==
  /\ npc = "select"
  /\ RespDrained
  /\ npc' = "err"
  /\ UNCHANGED <<producer, channels, ctxDone, reader, habit, resp, delivered, outcome, cpc>>

\* ingest takes the lock again: the reader may have been closed meanwhile.
Ingest ==
  /\ npc = "ingest"
  /\ pending' = pending \o FrameEvents(mode, tr, resp[1])
  /\ tr' = FrameAfter(mode, tr, resp[1])
  /\ done' = (done \/ IsLast(resp[1]))
  /\ ingested' = ingested + 1
  /\ resp' = <<>>
  /\ npc' = "check"
  /\ UNCHANGED <<producer, channels, ctxDone, closed, habit, delivered, outcome, cpc>>

IgnoreErr(e) == FALSE
Fails(e) == e # "nil"

\* <-r.errCh: the error of Chat the first time, nil from the closed channel
\* afterwards.
ReadErr ==
  /\ npc = "err"
  /\ errCh # <<>> \/ errClosed
  /\ LET e == IF errCh = <<>> THEN "nil" ELSE Head(errCh)
     IN  \/ Fails(e) /\ Return("error")
         \/ ~Fails(e) /\ npc' = "ctx2" /\ UNCHANGED outcome
  /\ errCh' = IF errCh = <<>> THEN <<>> ELSE Tail(errCh)
  /\ UNCHANGED <<producer, respCh, respClosed, errClosed, ctxDone, reader, habit, resp,
                 delivered, cpc>>

TrustNilError == FALSE
EndedByCtx == ctxDone

\* No error: the context decides whether this was the end.
RecheckCtx ==
  /\ npc = "ctx2"
  /\ \/ EndedByCtx /\ Return("error")
     \/ ~EndedByCtx /\ npc' = "mark" /\ UNCHANGED outcome
  /\ UNCHANGED <<producer, channels, ctxDone, reader, habit, resp, delivered, cpc>>

MarkDone ==
  /\ npc = "mark"
  /\ done' = TRUE
  /\ Return("eof")
  /\ UNCHANGED <<producer, channels, ctxDone, closed, pending, tr, ingested, habit, resp,
                 delivered, cpc>>

-----------------------------------------------------------------------------
(* Close and cancellation.                                                 *)

NoCancel == ctxDone' = ctxDone
CancelCtx == ctxDone' = TRUE

\* Only the first Close does anything.
Close(c) ==
  /\ cpc[c] = "idle"
  /\ cpc' = [cpc EXCEPT ![c] = "done"]
  /\ \/ closed /\ UNCHANGED <<closed, ctxDone>>
     \/ ~closed /\ closed' = TRUE /\ CancelCtx
  /\ UNCHANGED <<producer, channels, done, pending, tr, ingested, consumer>>

\* The owner of the context given to Stream cancels it, or its deadline passes.
ParentCancel ==
  /\ ~ctxDone
  /\ ctxDone' = TRUE
  /\ UNCHANGED <<producer, channels, reader, consumer, cpc>>

Finished ==
  /\ npc = "over"
  /\ ppc = "exited"
  /\ \A c \in Closers : cpc[c] = "done"
  /\ UNCHANGED vars

NextSteps ==
  \/ NextClosed \/ NextPop \/ NextDone \/ NextUnlock \/ NextCtx
  \/ SelectCtx \/ SelectResp \/ SelectClosed \/ Ingest
  \/ ReadErr \/ RecheckCtx \/ MarkDone

Next ==
  \/ ChatRead \/ CallbackSend \/ CallbackCancelled
  \/ ChatEnds \/ ChatFails \/ ChatCancelled
  \/ Report \/ CloseRespCh
  \/ NextCall \/ NextSteps
  \/ \E c \in Closers : Close(c)
  \/ ParentCancel
  \/ Finished

Spec == Init /\ [][Next]_vars

(* What is fair: goroutines that can run do, and a read of the body whose  *)
(* context is cancelled returns.  Nothing makes the server answer, the     *)
(* consumer call Next, or anybody Close or cancel.                         *)
Fairness ==
  /\ WF_vars(CallbackSend \/ CallbackCancelled)
  /\ WF_vars(ChatCancelled)
  /\ WF_vars(Report \/ CloseRespCh)
  /\ WF_vars(NextSteps)

FairSpec == Spec /\ Fairness

-----------------------------------------------------------------------------
(* Properties.                                                             *)

\* Types, with the capacity of the channels: the producer's only error fits.
TypeOK ==
  /\ mode \in Modes
  /\ habit \in Habits
  /\ body \in Bodies(mode)
  /\ pos \in 0..Len(body)
  /\ ppc \in {"read", "send", "report", "close", "exited"}
  /\ perr \in {"nil", "upstream", "ctx"}
  /\ respCh \in Seq(Frame) /\ Len(respCh) <= 1
  /\ errCh \in Seq({"nil", "upstream", "ctx"}) /\ Len(errCh) <= 1
  /\ respClosed \in BOOLEAN /\ errClosed \in BOOLEAN /\ ctxDone \in BOOLEAN
  /\ closed \in BOOLEAN /\ done \in BOOLEAN
  /\ pending \in Seq(Event)
  /\ tr \in TrState
  /\ npc \in {"outside", "check", "ctx", "select", "ingest", "err", "ctx2", "mark", "over"}
  /\ resp \in Seq(Frame) /\ Len(resp) = (IF npc = "ingest" THEN 1 ELSE 0)
  /\ cpc \in [Closers -> {"idle", "done"}]
  /\ ingested \in 0..Len(body)
  /\ delivered \in Seq(Event)
  /\ outcome \in {"none", "event", "eof", "closed", "error"}

Disciplined == habit = "until_eof"

\* io.EOF to a consumer that stops there means the whole answer was delivered:
\* no frame was still in respCh, in the producer's callback or unread when the
\* end of the stream was signalled, and the context was not what ended it.
EofIsComplete ==
  outcome = "eof" /\ Disciplined =>
    ingested = Len(body) /\ delivered = Run(mode, body)[Len(body)].evs

\* A failed request or body reaches the consumer as an error, not as the end,
\* unless the Done frame had come.
FailureSurfaces ==
  outcome = "eof" /\ Disciplined /\ perr = "upstream" =>
    Len(body) > 0 /\ IsLast(body[Len(body)])

\* Once closed, no event is delivered: not the queued ones, nor those of a
\* frame that Next holds between its two locked sections.
QuietAfterClose == [][closed => delivered' = delivered]_vars

\* A consumer that calls Next again after the end, an error or Close gets no
\* event any more, although frames may still wait in respCh.
EndIsFinal == [][(outcome \in {"eof", "error", "closed"}) => delivered' = delivered]_vars

\* After Close, or once the parent context is cancelled, the producer
\* goroutine is gone in the end, even if nobody reads respCh.
ProducerExits == closed \/ ctxDone ~> ppc = "exited"

\* Close needs no help: a Next that waits for a silent server returns.
CloseUnblocksNext == closed /\ npc # "outside" ~> npc \in {"outside", "over"}

=============================================================================
