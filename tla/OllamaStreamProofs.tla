------------------------- MODULE OllamaStreamProofs -------------------------
(***************************************************************************)
(* The Ollama stream of OllamaStream for every translator, every answer of *)
(* the server and any number of goroutines calling Close.  The argument    *)
(* for the end of the stream: respCh is only closed after errCh has the    *)
(* error of Chat (ProducerInv), so a consumer that finds respCh closed and *)
(* drained has taken every frame the SDK read (FlowInv), and reads the     *)
(* error before it can decide that the stream ended (ConsumerInv).         *)
(***************************************************************************)
EXTENDS OllamaContract, TranslationTheorems, FiniteSetTheorems

\* Frames on their way: read by the SDK = ingested, in the hand of Next, in
\* respCh and in the callback; only a cancelled callback drops one.
InFlight == Len(resp) + Len(respCh) + (IF ppc = "send" THEN 1 ELSE 0)

FlowInv ==
  /\ ingested + InFlight <= pos
  /\ perr # "ctx" => ingested + InFlight = pos
  /\ Len(resp) = 1 => resp[1] = body[ingested + 1]
  /\ Len(respCh) = 1 => respCh[1] = body[ingested + Len(resp) + 1]

\* No frame is lost, reordered or translated in a state another frame left.
NothingLost ==
  /\ delivered \o pending = Run(mode, body)[ingested].evs
  /\ tr = Run(mode, body)[ingested].st

\* What the producer has reported at each of its steps.
ProducerInv ==
  /\ ppc \in {"read", "send"} => perr = "nil"
  /\ ppc \in {"read", "send", "report"} => errCh = <<>>
  /\ errClosed <=> ppc \in {"close", "exited"}
  /\ respClosed <=> ppc = "exited"
  /\ perr = "nil" /\ ppc \notin {"read", "send"} => pos = Len(body) \/ ctxDone
  /\ perr = "ctx" => ctxDone
  /\ closed => ctxDone

LastIngested == ingested = Len(body) /\ Len(body) > 0 /\ IsLast(body[Len(body)])
AllIngested == ingested = Len(body) /\ perr = "nil" /\ ppc = "exited"

\* What the consumer knows at each line of Next.
ConsumerInv ==
  /\ npc \notin {"outside", "check", "over"} => pending = <<>> /\ ~done
  /\ npc \in {"err", "ctx2", "mark"} => respClosed /\ respCh = <<>>
  /\ Disciplined =>
       /\ ppc \in {"close", "exited"} /\ npc \notin {"ctx2", "mark", "over"} => errCh = <<perr>>
       /\ npc \in {"ctx2", "mark"} => perr = "nil"
       /\ npc = "mark" => AllIngested
       /\ done /\ npc # "over" => LastIngested
       /\ outcome \in {"eof", "error", "closed"} => npc = "over"
       /\ outcome = "eof" => pending = <<>> /\ (AllIngested \/ LastIngested)

\* After a final answer of Next nothing can be queued any more.
FinalInv ==
  outcome \in {"eof", "error", "closed"} =>
    \/ closed
    \/ /\ pending = <<>>
       /\ npc # "ingest"
       /\ \/ done
          \/ ctxDone /\ npc # "select"
          \/ respClosed /\ respCh = <<>>

IInv == TypeOK /\ FlowInv /\ NothingLost /\ ProducerInv /\ ConsumerInv /\ FinalInv

LEMMA AtMostOne ==
  ASSUME NEW S, NEW s \in Seq(S), Len(s) <= 1
  PROVE  Len(s) \in {0, 1} /\ (Len(s) = 1 <=> s # <<>>)
<1> DEFINE n == Len(s)
<1>1. n \in Nat /\ n <= 1
  OBVIOUS
<1>2. n = 0 \/ n = 1
  <2> HIDE DEF n
  <2> QED
    BY <1>1
<1>3. s # <<>> => n # 0
  BY EmptySeq
<1>4. s = <<>> => n = 0
  <2>1. Len(<<>>) = 0
    BY EmptySeq, SMT
  <2> QED
    BY <2>1
<1> QED
  BY <1>2, <1>3, <1>4

\* What the sizes of the hands the frames pass through can be.
LEMMA Sizes ==
  ASSUME TypeOK
  PROVE  /\ body \in Seq(Frame) /\ Len(body) \in Nat /\ pos \in Nat /\ ingested \in Nat
         /\ Len(resp) \in {0, 1} /\ (Len(resp) = 1 <=> npc = "ingest")
         /\ Len(respCh) \in {0, 1} /\ (Len(respCh) = 1 <=> respCh # <<>>)
         /\ Len(errCh) \in {0, 1} /\ (Len(errCh) = 1 <=> errCh # <<>>)
         /\ InFlight \in Nat /\ InFlight >= Len(resp) + Len(respCh)
         /\ (ppc = "send" => InFlight = Len(resp) + Len(respCh) + 1)
         /\ (ppc # "send" => InFlight = Len(resp) + Len(respCh))
<1>1. body \in Seq(Frame)
  BY BodyAssumption DEF TypeOK
<1>2. Len(body) \in Nat /\ pos \in Nat /\ ingested \in Nat
  BY <1>1 DEF TypeOK
<1>3. Len(resp) \in {0, 1} /\ (Len(resp) = 1 <=> npc = "ingest")
  BY DEF TypeOK
<1>4. Len(respCh) \in {0, 1} /\ (Len(respCh) = 1 <=> respCh # <<>>)
  BY AtMostOne DEF TypeOK
<1>5. Len(errCh) \in {0, 1} /\ (Len(errCh) = 1 <=> errCh # <<>>)
  BY AtMostOne DEF TypeOK
<1>6. (ppc = "send" => InFlight = Len(resp) + Len(respCh) + 1)
      /\ (ppc # "send" => InFlight = Len(resp) + Len(respCh) + 0)
  BY DEF InFlight
<1>7. InFlight \in Nat /\ InFlight >= Len(resp) + Len(respCh)
  BY <1>3, <1>4, <1>6
<1> QED
  BY <1>1, <1>2, <1>3, <1>4, <1>5, <1>6, <1>7

\* A frame the server sent is a frame, and its translation has the right types.
LEMMA FrameTypes ==
  ASSUME TypeOK, NothingLost, ingested + 1 <= Len(body)
  PROVE  /\ body[ingested + 1] \in Frame
         /\ FrameEvents(mode, tr, body[ingested + 1]) \in Seq(Event)
         /\ FrameAfter(mode, tr, body[ingested + 1]) \in TrState
         /\ Run(mode, body)[ingested + 1].evs
              = Run(mode, body)[ingested].evs \o FrameEvents(mode, tr, body[ingested + 1])
         /\ Run(mode, body)[ingested + 1].st = FrameAfter(mode, tr, body[ingested + 1])
<1> DEFINE k == ingested + 1
<1>1. body \in Seq(Frame) /\ k \in 1..Len(body) /\ k \in 0..Len(body) /\ k - 1 = ingested
  BY BodyAssumption DEF TypeOK
<1>2. body[k] \in Frame
  BY <1>1
<1>3. /\ FrameEvents(mode, Run(mode, body)[k - 1].st, body[k]) \in Seq(Event)
      /\ Run(mode, body)[k].evs
           = Run(mode, body)[k - 1].evs \o FrameEvents(mode, Run(mode, body)[k - 1].st, body[k])
      /\ Run(mode, body)[k].st = FrameAfter(mode, Run(mode, body)[k - 1].st, body[k])
  BY <1>1, RunAssumption DEF TypeOK
<1>4. Run(mode, body)[k].st \in TrState
  BY <1>1, RunAssumption DEF TypeOK
<1>5. tr = Run(mode, body)[k - 1].st
  BY <1>1 DEF NothingLost
<1>6. Run(mode, body)[k - 1].evs = Run(mode, body)[ingested].evs
  BY <1>1
<1> HIDE DEF k
<1>7. /\ FrameEvents(mode, tr, body[k]) \in Seq(Event)
      /\ FrameAfter(mode, tr, body[k]) \in TrState
      /\ Run(mode, body)[k].evs = Run(mode, body)[ingested].evs \o FrameEvents(mode, tr, body[k])
      /\ Run(mode, body)[k].st = FrameAfter(mode, tr, body[k])
  BY <1>3, <1>4, <1>5, <1>6
<1> QED
  BY <1>2, <1>7 DEF k

\* Only the last frame has Done.
LEMMA LastFrame ==
  ASSUME TypeOK, NEW k \in 1..Len(body)
  PROVE  IsLast(body[k]) \in BOOLEAN /\ (IsLast(body[k]) => k = Len(body))
<1>1. body \in Seq(Frame) /\ k \in DOMAIN body
  BY BodyAssumption DEF TypeOK
<1> QED
  BY <1>1, BodyAssumption DEF TypeOK

LEMMA InitIInv == Init => IInv
<1> SUFFICES ASSUME Init PROVE IInv
  OBVIOUS
<1>1. body \in Seq(Frame) /\ Len(body) \in Nat /\ 0 \in 0..Len(body)
  BY BodyAssumption DEF Init
<1>2. Run(mode, body)[0].evs = <<>> /\ Run(mode, body)[0].st \in TrState
  BY <1>1, RunAssumption DEF Init
<1>3. TypeOK
  <2>1. cpc \in [Closers -> {"idle", "done"}]
    BY DEF Init
  <2>2. tr \in TrState /\ pos \in 0..Len(body) /\ ingested \in 0..Len(body)
    BY <1>1, <1>2 DEF Init
  <2>3. /\ respCh \in Seq(Frame) /\ resp \in Seq(Frame) /\ pending \in Seq(Event)
        /\ delivered \in Seq(Event) /\ errCh \in Seq({"nil", "upstream", "ctx"})
        /\ Len(respCh) = 0 /\ Len(resp) = 0 /\ Len(errCh) = 0
    BY DEF Init
  <2>4. mode \in Modes /\ habit \in Habits /\ body \in Bodies(mode)
    BY DEF Init
  <2>5. /\ respClosed \in BOOLEAN /\ errClosed \in BOOLEAN /\ ctxDone \in BOOLEAN
        /\ closed \in BOOLEAN /\ done \in BOOLEAN
    BY DEF Init
  <2>6. ppc = "read" /\ perr = "nil" /\ npc = "outside" /\ outcome = "none"
    BY DEF Init
  <2> QED
    BY <2>1, <2>2, <2>3, <2>4, <2>5, <2>6 DEF TypeOK
<1>4. FlowInv
  BY <1>1 DEF Init, FlowInv, InFlight
<1>5. NothingLost
  BY <1>2 DEF Init, NothingLost
<1>6. ProducerInv /\ ConsumerInv /\ FinalInv
  BY DEF Init, ProducerInv, ConsumerInv, FinalInv, Disciplined
<1> QED
  BY <1>3, <1>4, <1>5, <1>6 DEF IInv

\* The frame Next holds is the first one not ingested yet.
LEMMA HandOfNext ==
  ASSUME TypeOK, FlowInv, npc = "ingest"
  PROVE  resp[1] = body[ingested + 1] /\ ingested + 1 <= Len(body)
<1>1. Len(resp) = 1 /\ InFlight >= 1
  BY Sizes
<1>2. pos <= Len(body)
  BY Sizes DEF TypeOK
<1> QED
  BY <1>1, <1>2, Sizes DEF FlowInv

\* Every step keeps the types; ingest, because the frame in hand is the next of
\* the body and the translator is in the state the frames before it left.
LEMMA NextTypeOK ==
  ASSUME TypeOK, FlowInv, NothingLost, ProducerInv, [Next]_vars
  PROVE  TypeOK'
<1> USE DEF TypeOK
<1>1. CASE ChatRead
  BY <1>1 DEF ChatRead, producer, channels, reader, consumer
<1>2. CASE CallbackSend
  <2>1. body[pos] \in Frame
    BY <1>2, BodyAssumption DEF CallbackSend, FlowInv, InFlight
  <2> QED
    BY <1>2, <2>1 DEF CallbackSend, Send, producer, channels, reader, consumer
<1>3. CASE CallbackCancelled
  BY <1>3 DEF CallbackCancelled, ChatReturns, producer, channels, reader, consumer
<1>4. CASE ChatEnds
  BY <1>4 DEF ChatEnds, ChatReturns, producer, channels, reader, consumer
<1>5. CASE ChatFails
  BY <1>5 DEF ChatFails, ChatReturns, producer, channels, reader, consumer
<1>6. CASE ChatCancelled
  BY <1>6 DEF ChatCancelled, ChatReturns, producer, channels, reader, consumer
<1>7. CASE Report
  <2>1. errCh = <<>>
    BY <1>7 DEF Report, ProducerInv
  <2> QED
    BY <1>7, <2>1 DEF Report, producer, channels, reader, consumer
<1>8. CASE CloseRespCh
  BY <1>8 DEF CloseRespCh, producer, channels, reader, consumer
<1>9. CASE NextCall
  BY <1>9 DEF NextCall, producer, channels, reader, consumer
<1>10. CASE NextClosed
  BY <1>10 DEF NextClosed, Return, producer, channels, reader, consumer
<1>11. CASE NextPop
  BY <1>11 DEF NextPop, Return, PopHead, Open, producer, channels, reader, consumer
<1>12. CASE NextDone
  BY <1>12 DEF NextDone, Return, producer, channels, reader, consumer
<1>13. CASE NextUnlock
  BY <1>13 DEF NextUnlock, producer, channels, reader, consumer
<1>14. CASE NextCtx
  BY <1>14 DEF NextCtx, Return, CtxErr, producer, channels, reader, consumer
<1>15. CASE SelectCtx
  BY <1>15 DEF SelectCtx, Return, producer, channels, reader, consumer
<1>16. CASE SelectResp
  BY <1>16 DEF SelectResp, producer, channels, reader, consumer
<1>17. CASE SelectClosed
  BY <1>17 DEF SelectClosed, RespDrained, producer, channels, reader, consumer
<1>18. CASE Ingest
  <2>1. resp[1] = body[ingested + 1] /\ ingested + 1 <= Len(body)
    BY <1>18, HandOfNext DEF Ingest
  <2>2. FrameEvents(mode, tr, resp[1]) \in Seq(Event) /\ FrameAfter(mode, tr, resp[1]) \in TrState
    BY <2>1, FrameTypes
  <2>3. IsLast(resp[1]) \in BOOLEAN
    <3>1. ingested + 1 \in 1..Len(body)
      BY <2>1, Sizes
    <3>2. IsLast(body[ingested + 1]) \in BOOLEAN
      BY <3>1, LastFrame, Zenon
    <3> QED
      BY <2>1, <3>2, Zenon
  <2>4. done' \in BOOLEAN
    BY <1>18, <2>3 DEF Ingest
  <2> QED
    BY <1>18, <2>4, <2>2, <2>1 DEF Ingest, producer, channels, reader, consumer
<1>19. CASE ReadErr
  BY <1>19 DEF ReadErr, Return, Fails, producer, channels, reader, consumer
<1>20. CASE RecheckCtx
  BY <1>20 DEF RecheckCtx, Return, EndedByCtx, producer, channels, reader, consumer
<1>21. CASE MarkDone
  BY <1>21 DEF MarkDone, Return, producer, channels, reader, consumer
<1>22. ASSUME NEW k \in Closers, Close(k) PROVE TypeOK'
  <2>1. cpc' \in [Closers -> {"idle", "done"}]
    BY <1>22 DEF Close
  <2>2. closed' \in BOOLEAN /\ ctxDone' \in BOOLEAN
    BY <1>22 DEF Close, CancelCtx
  <2> QED
    BY <1>22, <2>1, <2>2 DEF Close, producer, channels, reader, consumer
<1>23. CASE ParentCancel
  BY <1>23 DEF ParentCancel, producer, channels, reader, consumer
<1>24. CASE UNCHANGED vars
  BY <1>24 DEF vars, producer, channels, reader, consumer
<1> QED
  BY <1>1, <1>2, <1>3, <1>4, <1>5, <1>6, <1>7, <1>8, <1>9, <1>10, <1>11, <1>12, <1>13,
     <1>14, <1>15, <1>16, <1>17, <1>18, <1>19, <1>20, <1>21, <1>22, <1>23, <1>24
     DEF Next, NextSteps, Finished

\* A frame that leaves one hand is in the next one; only CallbackCancelled, which
\* returns ctx.Err, lets one go.
LEMMA NextFlowInv ==
  ASSUME TypeOK, FlowInv, ProducerInv, [Next]_vars
  PROVE  FlowInv'
<1> USE DEF FlowInv, InFlight
<1>1. CASE ChatRead
  BY <1>1, Sizes, SMTT(30) DEF ChatRead, producer, channels, reader, consumer
<1>2. CASE CallbackSend
  <2>1. respCh = <<>> /\ respCh' = Append(respCh, body[pos]) /\ resp' = resp /\ ingested' = ingested
    BY <1>2, Sizes DEF CallbackSend, Send, reader, consumer
  <2>2. Len(respCh') = 1 /\ respCh'[1] = body[pos] /\ Len(respCh) = 0
    BY <2>1, Sizes
  <2>3. pos = ingested + Len(resp) + 1
    BY <1>2, <2>2, Sizes DEF CallbackSend, ProducerInv
  <2> QED
    BY <1>2, <2>1, <2>2, <2>3, Sizes DEF CallbackSend, Send, producer, channels, reader, consumer
<1>3. CASE CallbackCancelled
  BY <1>3, Sizes DEF CallbackCancelled, ChatReturns, producer, channels, reader, consumer
<1>4. CASE ChatEnds
  BY <1>4, Sizes DEF ChatEnds, ProducerInv, ChatReturns, producer, channels, reader, consumer
<1>5. CASE ChatFails
  BY <1>5, Sizes DEF ChatFails, ProducerInv, ChatReturns, producer, channels, reader, consumer
<1>6. CASE ChatCancelled
  BY <1>6, Sizes DEF ChatCancelled, ProducerInv, ChatReturns, producer, channels, reader, consumer
<1>7. CASE Report
  BY <1>7, Sizes DEF Report, producer, channels, reader, consumer
<1>8. CASE CloseRespCh
  BY <1>8, Sizes DEF CloseRespCh, producer, channels, reader, consumer
<1>9. CASE NextCall
  BY <1>9, Sizes DEF NextCall, producer, channels, reader, consumer
<1>10. CASE NextClosed
  BY <1>10, Sizes DEF NextClosed, Return, producer, channels, reader, consumer
<1>11. CASE NextPop
  BY <1>11, Sizes DEF NextPop, Return, PopHead, Open, producer, channels, reader, consumer
<1>12. CASE NextDone
  BY <1>12, Sizes DEF NextDone, Return, producer, channels, reader, consumer
<1>13. CASE NextUnlock
  BY <1>13, Sizes DEF NextUnlock, producer, channels, reader, consumer
<1>14. CASE NextCtx
  BY <1>14, Sizes DEF NextCtx, Return, CtxErr, producer, channels, reader, consumer
<1>15. CASE SelectCtx
  BY <1>15, Sizes DEF SelectCtx, Return, producer, channels, reader, consumer
<1>16. CASE SelectResp
  <2>1. Len(resp) = 0 /\ Len(respCh) = 1 /\ respCh[1] = body[ingested + 1]
    BY <1>16, Sizes DEF SelectResp
  <2>2. respCh \in Seq(Frame) /\ respCh # <<>>
    BY <1>16, Sizes DEF SelectResp, TypeOK
  <2>3. Len(Tail(respCh)) = 0 /\ Head(respCh) = respCh[1]
    BY <2>1, <2>2, HeadTailProperties
  <2>4. Len(resp') = 1 /\ resp'[1] = respCh[1] /\ Len(respCh') = 0
    BY <1>16, <2>3 DEF SelectResp
  <2>5. ppc' = ppc /\ pos' = pos /\ perr' = perr /\ body' = body /\ ingested' = ingested
    BY <1>16, Sizes DEF SelectResp, producer, reader
  <2>6. InFlight' = InFlight
    BY <2>1, <2>4, <2>5
  <2> QED
    BY <2>1, <2>4, <2>5, <2>6
<1>17. CASE SelectClosed
  BY <1>17, Sizes DEF SelectClosed, RespDrained, producer, channels, reader, consumer
<1>18. CASE Ingest
  <2>1. Len(resp) = 1 /\ Len(resp') = 0
    BY <1>18, Sizes DEF Ingest
  <2> QED
    BY <1>18, <2>1, Sizes, SMTT(30) DEF Ingest, producer, channels, reader, consumer
<1>19. CASE ReadErr
  BY <1>19, Sizes DEF ReadErr, Return, Fails, producer, channels, reader, consumer
<1>20. CASE RecheckCtx
  BY <1>20, Sizes DEF RecheckCtx, Return, EndedByCtx, producer, channels, reader, consumer
<1>21. CASE MarkDone
  BY <1>21, Sizes DEF MarkDone, Return, producer, channels, reader, consumer
<1>22. ASSUME NEW k \in Closers, Close(k) PROVE FlowInv'
  BY <1>22, Sizes DEF Close, CancelCtx, producer, channels, reader, consumer
<1>23. CASE ParentCancel
  BY <1>23, Sizes DEF ParentCancel, producer, channels, reader, consumer
<1>24. CASE UNCHANGED vars
  BY <1>24, Sizes DEF vars, producer, channels, reader, consumer
<1> QED
  BY <1>1, <1>2, <1>3, <1>4, <1>5, <1>6, <1>7, <1>8, <1>9, <1>10, <1>11, <1>12, <1>13,
     <1>14, <1>15, <1>16, <1>17, <1>18, <1>19, <1>20, <1>21, <1>22, <1>23, <1>24
     DEF Next, NextSteps, Finished

LEMMA QueueAtEnd ==
  ASSUME TypeOK
  PROVE  \A evs \in Seq(Event) : delivered \o (pending \o evs) = (delivered \o pending) \o evs
<1>1. delivered \in Seq(Event) /\ pending \in Seq(Event)
  BY DEF TypeOK
<1> QED
  BY <1>1, ConcatAssociative

\* Next pops in order, and ingest translates frame after frame in the state the
\* ones before it left.
LEMMA NextNothingLost ==
  ASSUME TypeOK, FlowInv, NothingLost, [Next]_vars
  PROVE  NothingLost'
<1> USE DEF NothingLost
<1>1. CASE ChatRead
  BY <1>1 DEF ChatRead, producer, channels, reader, consumer
<1>2. CASE CallbackSend
  BY <1>2 DEF CallbackSend, Send, producer, channels, reader, consumer
<1>3. CASE CallbackCancelled
  BY <1>3 DEF CallbackCancelled, ChatReturns, producer, channels, reader, consumer
<1>4. CASE ChatEnds
  BY <1>4 DEF ChatEnds, ChatReturns, producer, channels, reader, consumer
<1>5. CASE ChatFails
  BY <1>5 DEF ChatFails, ChatReturns, producer, channels, reader, consumer
<1>6. CASE ChatCancelled
  BY <1>6 DEF ChatCancelled, ChatReturns, producer, channels, reader, consumer
<1>7. CASE Report
  BY <1>7 DEF Report, producer, channels, reader, consumer
<1>8. CASE CloseRespCh
  BY <1>8 DEF CloseRespCh, producer, channels, reader, consumer
<1>9. CASE NextCall
  BY <1>9 DEF NextCall, producer, channels, reader, consumer
<1>10. CASE NextClosed
  BY <1>10 DEF NextClosed, Return, producer, channels, reader, consumer
<1>11. CASE NextPop
  <2>1. pending # <<>> /\ pending' = Tail(pending) /\ delivered' = Append(delivered, Head(pending))
    BY <1>11 DEF NextPop, PopHead
  <2>2. delivered \in Seq(Event) /\ pending \in Seq(Event)
    BY DEF TypeOK
  <2>3. delivered' \o pending' = delivered \o pending
    BY <2>1, <2>2, PopConcat
  <2> QED
    BY <1>11, <2>3 DEF NextPop, producer
<1>12. CASE NextDone
  BY <1>12 DEF NextDone, Return, producer, channels, reader, consumer
<1>13. CASE NextUnlock
  BY <1>13 DEF NextUnlock, producer, channels, reader, consumer
<1>14. CASE NextCtx
  BY <1>14 DEF NextCtx, Return, CtxErr, producer, channels, reader, consumer
<1>15. CASE SelectCtx
  BY <1>15 DEF SelectCtx, Return, producer, channels, reader, consumer
<1>16. CASE SelectResp
  BY <1>16 DEF SelectResp, producer, channels, reader, consumer
<1>17. CASE SelectClosed
  BY <1>17 DEF SelectClosed, RespDrained, producer, channels, reader, consumer
<1>18. CASE Ingest
  <2>1. resp[1] = body[ingested + 1] /\ ingested + 1 <= Len(body)
    BY <1>18, HandOfNext DEF Ingest
  <2>2. pending' = pending \o FrameEvents(mode, tr, body[ingested + 1])
        /\ tr' = FrameAfter(mode, tr, body[ingested + 1]) /\ ingested' = ingested + 1
        /\ delivered' = delivered /\ mode' = mode /\ body' = body
    BY <1>18, <2>1 DEF Ingest, producer
  <2>3. FrameEvents(mode, tr, body[ingested + 1]) \in Seq(Event)
        /\ Run(mode, body)[ingested + 1].evs
             = Run(mode, body)[ingested].evs \o FrameEvents(mode, tr, body[ingested + 1])
        /\ Run(mode, body)[ingested + 1].st = FrameAfter(mode, tr, body[ingested + 1])
    BY <2>1, FrameTypes
  <2>4. delivered \in Seq(Event) /\ pending \in Seq(Event)
    BY DEF TypeOK
  <2>5. delivered \o (pending \o FrameEvents(mode, tr, body[ingested + 1]))
          = (delivered \o pending) \o FrameEvents(mode, tr, body[ingested + 1])
    BY <2>3, QueueAtEnd
  <2> QED
    BY <2>2, <2>3, <2>5
<1>19. CASE ReadErr
  BY <1>19 DEF ReadErr, Return, Fails, producer, channels, reader, consumer
<1>20. CASE RecheckCtx
  BY <1>20 DEF RecheckCtx, Return, EndedByCtx, producer, channels, reader, consumer
<1>21. CASE MarkDone
  BY <1>21 DEF MarkDone, Return, producer, channels, reader, consumer
<1>22. ASSUME NEW k \in Closers, Close(k) PROVE NothingLost'
  BY <1>22 DEF Close, CancelCtx, producer, channels, reader, consumer
<1>23. CASE ParentCancel
  BY <1>23 DEF ParentCancel, producer, channels, reader, consumer
<1>24. CASE UNCHANGED vars
  BY <1>24 DEF vars, producer, channels, reader, consumer
<1> QED
  BY <1>1, <1>2, <1>3, <1>4, <1>5, <1>6, <1>7, <1>8, <1>9, <1>10, <1>11, <1>12, <1>13,
     <1>14, <1>15, <1>16, <1>17, <1>18, <1>19, <1>20, <1>21, <1>22, <1>23, <1>24
     DEF Next, NextSteps, Finished

\* errCh has the error of Chat from before respCh is closed.
LEMMA NextProducerInv ==
  ASSUME TypeOK, ProducerInv, [Next]_vars
  PROVE  ProducerInv'
<1> USE DEF ProducerInv, TypeOK
<1>1. CASE ChatRead
  BY <1>1 DEF ChatRead, producer, channels, reader, consumer
<1>2. CASE CallbackSend
  BY <1>2 DEF CallbackSend, Send, producer, channels, reader, consumer
<1>3. CASE CallbackCancelled
  BY <1>3 DEF CallbackCancelled, ChatReturns, producer, channels, reader, consumer
<1>4. CASE ChatEnds
  BY <1>4 DEF ChatEnds, ChatReturns, producer, channels, reader, consumer
<1>5. CASE ChatFails
  BY <1>5 DEF ChatFails, ChatReturns, producer, channels, reader, consumer
<1>6. CASE ChatCancelled
  BY <1>6 DEF ChatCancelled, ChatReturns, producer, channels, reader, consumer
<1>7. CASE Report
  BY <1>7 DEF Report, producer, channels, reader, consumer
<1>8. CASE CloseRespCh
  BY <1>8 DEF CloseRespCh, producer, channels, reader, consumer
<1>9. CASE NextCall
  BY <1>9 DEF NextCall, producer, channels, reader, consumer
<1>10. CASE NextClosed
  BY <1>10 DEF NextClosed, Return, producer, channels, reader, consumer
<1>11. CASE NextPop
  BY <1>11 DEF NextPop, Return, PopHead, Open, producer, channels, reader, consumer
<1>12. CASE NextDone
  BY <1>12 DEF NextDone, Return, producer, channels, reader, consumer
<1>13. CASE NextUnlock
  BY <1>13 DEF NextUnlock, producer, channels, reader, consumer
<1>14. CASE NextCtx
  BY <1>14 DEF NextCtx, Return, CtxErr, producer, channels, reader, consumer
<1>15. CASE SelectCtx
  BY <1>15 DEF SelectCtx, Return, producer, channels, reader, consumer
<1>16. CASE SelectResp
  BY <1>16 DEF SelectResp, producer, channels, reader, consumer
<1>17. CASE SelectClosed
  BY <1>17 DEF SelectClosed, RespDrained, producer, channels, reader, consumer
<1>18. CASE Ingest
  BY <1>18 DEF Ingest, producer, channels, reader, consumer
<1>19. CASE ReadErr
  BY <1>19 DEF ReadErr, Return, Fails, producer, channels, reader, consumer
<1>20. CASE RecheckCtx
  BY <1>20 DEF RecheckCtx, Return, EndedByCtx, producer, channels, reader, consumer
<1>21. CASE MarkDone
  BY <1>21 DEF MarkDone, Return, producer, channels, reader, consumer
<1>22. ASSUME NEW k \in Closers, Close(k) PROVE ProducerInv'
  BY <1>22 DEF Close, CancelCtx, producer, channels, reader, consumer
<1>23. CASE ParentCancel
  BY <1>23 DEF ParentCancel, producer, channels, reader, consumer
<1>24. CASE UNCHANGED vars
  BY <1>24 DEF vars, producer, channels, reader, consumer
<1> QED
  BY <1>1, <1>2, <1>3, <1>4, <1>5, <1>6, <1>7, <1>8, <1>9, <1>10, <1>11, <1>12, <1>13,
     <1>14, <1>15, <1>16, <1>17, <1>18, <1>19, <1>20, <1>21, <1>22, <1>23, <1>24
     DEF Next, NextSteps, Finished

\* Next sees respCh closed and drained only when every frame read is ingested, and
\* then reads the error of Chat.
LEMMA NextConsumerInv ==
  ASSUME TypeOK, FlowInv, ProducerInv, ConsumerInv, [Next]_vars
  PROVE  ConsumerInv'
<1> USE DEF ConsumerInv, ProducerInv, TypeOK, AllIngested, LastIngested, Disciplined
<1>1. CASE ChatRead
  BY <1>1 DEF ChatRead, producer, channels, reader, consumer
<1>2. CASE CallbackSend
  BY <1>2 DEF CallbackSend, Send, producer, channels, reader, consumer
<1>3. CASE CallbackCancelled
  BY <1>3 DEF CallbackCancelled, ChatReturns, producer, channels, reader, consumer
<1>4. CASE ChatEnds
  BY <1>4 DEF ChatEnds, ChatReturns, producer, channels, reader, consumer
<1>5. CASE ChatFails
  BY <1>5 DEF ChatFails, ChatReturns, producer, channels, reader, consumer
<1>6. CASE ChatCancelled
  BY <1>6 DEF ChatCancelled, ChatReturns, producer, channels, reader, consumer
<1>7. CASE Report
  BY <1>7 DEF Report, producer, channels, reader, consumer
<1>8. CASE CloseRespCh
  BY <1>8 DEF CloseRespCh, producer, channels, reader, consumer
<1>9. CASE NextCall
  BY <1>9 DEF NextCall, producer, channels, reader, consumer
<1>10. CASE NextClosed
  BY <1>10 DEF NextClosed, Return, producer, channels, reader, consumer
<1>11. CASE NextPop
  BY <1>11 DEF NextPop, Return, PopHead, Open, producer, channels, reader, consumer
<1>12. CASE NextDone
  BY <1>12 DEF NextDone, Return, producer, channels, reader, consumer
<1>13. CASE NextUnlock
  BY <1>13 DEF NextUnlock, producer, channels, reader, consumer
<1>14. CASE NextCtx
  BY <1>14 DEF NextCtx, Return, CtxErr, producer, channels, reader, consumer
<1>15. CASE SelectCtx
  BY <1>15 DEF SelectCtx, Return, producer, channels, reader, consumer
<1>16. CASE SelectResp
  BY <1>16 DEF SelectResp, producer, channels, reader, consumer
<1>17. CASE SelectClosed
  BY <1>17 DEF SelectClosed, RespDrained, producer, channels, reader, consumer
<1>18. CASE Ingest
  <2>1. resp[1] = body[ingested + 1] /\ ingested + 1 \in 1..Len(body) /\ ~done
    BY <1>18, HandOfNext, Sizes DEF Ingest
  <2>2. IsLast(body[ingested + 1]) => ingested + 1 = Len(body)
    BY <2>1, LastFrame
  <2>3. done' => IsLast(body[ingested + 1])
    BY <1>18, <2>1 DEF Ingest
  <2>4. body' = body /\ ingested' = ingested + 1 /\ Len(body) \in Nat /\ ingested \in Nat
    BY <1>18, Sizes DEF Ingest, producer
  <2>5. done' => LastIngested'
    BY <2>2, <2>3, <2>4
  <2>6. npc' = "check" /\ outcome' = outcome /\ habit' = habit /\ npc = "ingest"
        /\ ppc' = ppc /\ errCh' = errCh /\ perr' = perr
    BY <1>18 DEF Ingest, producer, channels
  <2> QED
    BY <2>5, <2>6
<1>19. CASE ReadErr
  <2> DEFINE e == IF errCh = <<>> THEN "nil" ELSE Head(errCh)
  <2>1. npc = "err" /\ ppc = "exited" /\ pending = <<>> /\ ~done /\ respClosed /\ respCh = <<>>
    BY <1>19 DEF ReadErr
  <2>2. Disciplined => e = perr
    <3>1. Disciplined => errCh = <<perr>>
      BY <2>1
    <3>2. <<perr>> # <<>> /\ Head(<<perr>>) = perr
      OBVIOUS
    <3> QED
      BY <3>1, <3>2
  <2>3. \/ e # "nil" /\ Return("error")
        \/ e = "nil" /\ npc' = "ctx2" /\ outcome' = outcome
    BY <1>19 DEF ReadErr, Fails
  <2>4. UNCHANGED <<producer, respCh, respClosed, errClosed, ctxDone, reader, habit>>
    BY <1>19 DEF ReadErr
  <2> HIDE DEF e
  <2> QED
    BY <2>1, <2>2, <2>3, <2>4 DEF Return, producer, reader
<1>20. CASE RecheckCtx
  <2>1. npc = "ctx2" /\ ppc = "exited" /\ pending = <<>> /\ ~done /\ respClosed /\ respCh = <<>>
    BY <1>20 DEF RecheckCtx
  <2>2. UNCHANGED <<producer, channels, ctxDone, reader, habit>>
    BY <1>20 DEF RecheckCtx
  <2>3. CASE ctxDone /\ Return("error")
    BY <2>1, <2>2, <2>3 DEF Return, producer, channels, reader
  <2>4. CASE ~ctxDone /\ npc' = "mark" /\ outcome' = outcome
    <3>1. Disciplined => perr = "nil" /\ pos = Len(body)
      BY <2>1, <2>4
    <3>2. Len(resp) = 0 /\ Len(respCh) = 0 /\ InFlight = 0
      BY <2>1, Sizes
    <3>3. Disciplined => AllIngested
      BY <2>1, <3>1, <3>2, Sizes DEF FlowInv
    <3> QED
      BY <2>1, <2>2, <2>4, <3>1, <3>3 DEF producer, channels, reader
  <2> QED
    BY <1>20, <2>3, <2>4 DEF RecheckCtx, EndedByCtx
<1>21. CASE MarkDone
  BY <1>21 DEF MarkDone, Return, producer, channels, reader, consumer
<1>22. ASSUME NEW k \in Closers, Close(k) PROVE ConsumerInv'
  BY <1>22 DEF Close, CancelCtx, producer, channels, reader, consumer
<1>23. CASE ParentCancel
  BY <1>23 DEF ParentCancel, producer, channels, reader, consumer
<1>24. CASE UNCHANGED vars
  BY <1>24 DEF vars, producer, channels, reader, consumer
<1> QED
  BY <1>1, <1>2, <1>3, <1>4, <1>5, <1>6, <1>7, <1>8, <1>9, <1>10, <1>11, <1>12, <1>13,
     <1>14, <1>15, <1>16, <1>17, <1>18, <1>19, <1>20, <1>21, <1>22, <1>23, <1>24
     DEF Next, NextSteps, Finished

\* After a final answer Next goes through its checks again and finds them as they were.
LEMMA NextFinalInv ==
  ASSUME TypeOK, ProducerInv, ConsumerInv, FinalInv, [Next]_vars
  PROVE  FinalInv'
<1> USE DEF FinalInv, ConsumerInv, ProducerInv, TypeOK
<1>1. CASE ChatRead
  BY <1>1 DEF ChatRead, producer, channels, reader, consumer
<1>2. CASE CallbackSend
  BY <1>2 DEF CallbackSend, Send, producer, channels, reader, consumer
<1>3. CASE CallbackCancelled
  BY <1>3 DEF CallbackCancelled, ChatReturns, producer, channels, reader, consumer
<1>4. CASE ChatEnds
  BY <1>4 DEF ChatEnds, ChatReturns, producer, channels, reader, consumer
<1>5. CASE ChatFails
  BY <1>5 DEF ChatFails, ChatReturns, producer, channels, reader, consumer
<1>6. CASE ChatCancelled
  BY <1>6 DEF ChatCancelled, ChatReturns, producer, channels, reader, consumer
<1>7. CASE Report
  BY <1>7 DEF Report, producer, channels, reader, consumer
<1>8. CASE CloseRespCh
  BY <1>8 DEF CloseRespCh, producer, channels, reader, consumer
<1>9. CASE NextCall
  BY <1>9 DEF NextCall, producer, channels, reader, consumer
<1>10. CASE NextClosed
  BY <1>10 DEF NextClosed, Return, producer, channels, reader, consumer
<1>11. CASE NextPop
  BY <1>11 DEF NextPop, Return, PopHead, Open, producer, channels, reader, consumer
<1>12. CASE NextDone
  BY <1>12 DEF NextDone, Return, producer, channels, reader, consumer
<1>13. CASE NextUnlock
  BY <1>13 DEF NextUnlock, producer, channels, reader, consumer
<1>14. CASE NextCtx
  BY <1>14 DEF NextCtx, Return, CtxErr, producer, channels, reader, consumer
<1>15. CASE SelectCtx
  BY <1>15 DEF SelectCtx, Return, producer, channels, reader, consumer
<1>16. CASE SelectResp
  BY <1>16 DEF SelectResp, producer, channels, reader, consumer
<1>17. CASE SelectClosed
  BY <1>17 DEF SelectClosed, RespDrained, producer, channels, reader, consumer
<1>18. CASE Ingest
  BY <1>18 DEF Ingest, producer, channels, reader, consumer
<1>19. CASE ReadErr
  BY <1>19 DEF ReadErr, Return, Fails, producer, channels, reader, consumer
<1>20. CASE RecheckCtx
  BY <1>20 DEF RecheckCtx, Return, EndedByCtx, producer, channels, reader, consumer
<1>21. CASE MarkDone
  BY <1>21 DEF MarkDone, Return, producer, channels, reader, consumer
<1>22. ASSUME NEW k \in Closers, Close(k) PROVE FinalInv'
  BY <1>22 DEF Close, CancelCtx, producer, channels, reader, consumer
<1>23. CASE ParentCancel
  BY <1>23 DEF ParentCancel, producer, channels, reader, consumer
<1>24. CASE UNCHANGED vars
  BY <1>24 DEF vars, producer, channels, reader, consumer
<1> QED
  BY <1>1, <1>2, <1>3, <1>4, <1>5, <1>6, <1>7, <1>8, <1>9, <1>10, <1>11, <1>12, <1>13,
     <1>14, <1>15, <1>16, <1>17, <1>18, <1>19, <1>20, <1>21, <1>22, <1>23, <1>24
     DEF Next, NextSteps, Finished

LEMMA IInvInductive == IInv /\ [Next]_vars => IInv'
<1> SUFFICES ASSUME IInv, [Next]_vars PROVE IInv'
  OBVIOUS
<1>1. TypeOK /\ FlowInv /\ NothingLost /\ ProducerInv /\ ConsumerInv /\ FinalInv
  BY DEF IInv
<1>2. TypeOK'
  BY <1>1, NextTypeOK
<1>3. FlowInv'
  BY <1>1, NextFlowInv
<1>4. NothingLost'
  BY <1>1, NextNothingLost
<1>5. ProducerInv'
  BY <1>1, NextProducerInv
<1>6. ConsumerInv'
  BY <1>1, NextConsumerInv
<1>7. FinalInv'
  BY <1>1, NextFinalInv
<1> QED
  BY <1>2, <1>3, <1>4, <1>5, <1>6, <1>7 DEF IInv

LEMMA IInvHolds == Spec => []IInv
  BY InitIInv, IInvInductive, PTL DEF Spec

-----------------------------------------------------------------------------

\* The fields of the reader keep their types, and neither channel ever holds
\* more than its capacity: errCh always has room for the producer's only error.
THEOREM TypeCorrect == Spec => []TypeOK
<1>1. IInv => TypeOK
  BY DEF IInv
<1> QED
  BY <1>1, IInvHolds, PTL

\* io.EOF of Next, to a consumer that stops there, comes after every event of
\* the whole answer, whatever the producer, the closers and the parent did.
THEOREM EofIsCompleteHolds == Spec => []EofIsComplete
<1>1. IInv => EofIsComplete
  <2> SUFFICES ASSUME IInv, outcome = "eof", Disciplined
               PROVE  ingested = Len(body) /\ delivered = Run(mode, body)[Len(body)].evs
    BY DEF EofIsComplete
  <2>1. pending = <<>> /\ ingested = Len(body)
    BY DEF IInv, ConsumerInv, AllIngested, LastIngested
  <2>2. delivered \in Seq(Event)
    BY DEF IInv, TypeOK
  <2>3. delivered \o <<>> = delivered
    BY <2>2, ConcatEmptySeq
  <2>4. delivered \o <<>> = Run(mode, body)[Len(body)].evs
    BY <2>1 DEF IInv, NothingLost
  <2> QED
    BY <2>1, <2>3, <2>4
<1> QED
  BY <1>1, IInvHolds, PTL

\* An error of Chat is not taken for the end of the answer.
THEOREM FailureSurfacesHolds == Spec => []FailureSurfaces
<1>1. IInv => FailureSurfaces
  BY DEF IInv, ConsumerInv, AllIngested, LastIngested, FailureSurfaces
<1> QED
  BY <1>1, IInvHolds, PTL

-----------------------------------------------------------------------------

\* NextPop is the only step that delivers, and it looks at closed and at the
\* queue in one locked section.
LEMMA OnlyPopDelivers ==
  ASSUME [Next]_vars, delivered' # delivered
  PROVE  ~closed /\ pending # <<>> /\ NextPop
<1>1. ChatRead => delivered' = delivered
  BY DEF ChatRead, ChatReturns, consumer
<1>2. CallbackSend => delivered' = delivered
  BY DEF CallbackSend, consumer
<1>3. CallbackCancelled => delivered' = delivered
  BY DEF CallbackCancelled, ChatReturns, consumer
<1>4. ChatEnds => delivered' = delivered
  BY DEF ChatEnds, ChatReturns, consumer
<1>5. ChatFails => delivered' = delivered
  BY DEF ChatFails, ChatReturns, consumer
<1>6. ChatCancelled => delivered' = delivered
  BY DEF ChatCancelled, ChatReturns, consumer
<1>7. Report => delivered' = delivered
  BY DEF Report, consumer
<1>8. CloseRespCh => delivered' = delivered
  BY DEF CloseRespCh, consumer
<1>9. NextCall => delivered' = delivered
  BY DEF NextCall, consumer
<1>10. NextClosed => delivered' = delivered
  BY DEF NextClosed, consumer
<1>11. NextDone => delivered' = delivered
  BY DEF NextDone, consumer
<1>12. NextUnlock => delivered' = delivered
  BY DEF NextUnlock, consumer
<1>13. NextCtx => delivered' = delivered
  BY DEF NextCtx, consumer
<1>14. SelectCtx => delivered' = delivered
  BY DEF SelectCtx, consumer
<1>15. SelectResp => delivered' = delivered
  BY DEF SelectResp, consumer
<1>16. SelectClosed => delivered' = delivered
  BY DEF SelectClosed, consumer
<1>17. Ingest => delivered' = delivered
  BY DEF Ingest, consumer
<1>18. ReadErr => delivered' = delivered
  BY DEF ReadErr, consumer
<1>19. RecheckCtx => delivered' = delivered
  BY DEF RecheckCtx, consumer
<1>20. MarkDone => delivered' = delivered
  BY DEF MarkDone, consumer
<1>21. ParentCancel => delivered' = delivered
  BY DEF ParentCancel, consumer
<1>22. Finished => delivered' = delivered
  BY DEF Finished, consumer, vars
<1>23. ASSUME NEW k \in Closers, Close(k) PROVE delivered' = delivered
  BY <1>23 DEF Close, consumer
<1>24. NextPop => ~closed /\ pending # <<>>
  BY DEF NextPop, Open
<1>25. UNCHANGED vars => delivered' = delivered
  BY DEF vars, consumer
<1> QED
  BY <1>1, <1>2, <1>3, <1>4, <1>5, <1>6, <1>7, <1>8, <1>9, <1>10, <1>11, <1>12, <1>13,
     <1>14, <1>15, <1>16, <1>17, <1>18, <1>19, <1>20, <1>21, <1>22, <1>23, <1>24, <1>25
     DEF Next, NextSteps

\* Once Close took effect the consumer gets no event any more.
THEOREM QuietAfterCloseHolds == Spec => QuietAfterClose
<1>1. [Next]_vars => [closed => delivered' = delivered]_vars
  BY OnlyPopDelivers
<1> QED
  BY <1>1, PTL DEF Spec, QuietAfterClose

\* Nor after an error, io.EOF or the end, although frames may wait in respCh.
THEOREM EndIsFinalHolds == Spec => EndIsFinal
<1>1. IInv /\ [Next]_vars => [(outcome \in {"eof", "error", "closed"}) => delivered' = delivered]_vars
  <2> SUFFICES ASSUME IInv, [Next]_vars, outcome \in {"eof", "error", "closed"},
                      delivered' # delivered
               PROVE  FALSE
    OBVIOUS
  <2>1. ~closed /\ pending # <<>>
    BY OnlyPopDelivers
  <2>2. closed \/ pending = <<>>
    BY DEF IInv, FinalInv
  <2> QED
    BY <2>1, <2>2
<1> QED
  BY <1>1, IInvHolds, PTL DEF Spec, EndIsFinal

-----------------------------------------------------------------------------
(* The refinement of StreamContract.                                       *)

\* How a step can bring about the end: Next decides it from ctx2 while the
\* context is live, or finds done set in an open reader; what ended stays ended.
LEMMA EndingSteps ==
  ASSUME [Next]_vars
  PROVE  /\ mode' = mode /\ body' = body /\ habit' = habit
         /\ closed => closed'
         /\ npc = "over" => npc' = "over" /\ outcome' = outcome
         /\ npc' = "mark" /\ npc # "mark" => npc = "ctx2" /\ ~ctxDone
         /\ npc = "mark" => npc' = "mark" \/ outcome' = "eof"
         /\ outcome' = "eof" /\ outcome # "eof" => npc = "mark" \/ (npc = "check" /\ ~closed)
<1> DEFINE Goal == /\ mode' = mode /\ body' = body /\ habit' = habit
                   /\ closed => closed'
                   /\ npc = "over" => npc' = "over" /\ outcome' = outcome
                   /\ npc' = "mark" /\ npc # "mark" => npc = "ctx2" /\ ~ctxDone
                   /\ npc = "mark" => npc' = "mark" \/ outcome' = "eof"
                   /\ outcome' = "eof" /\ outcome # "eof" => npc = "mark" \/ (npc = "check" /\ ~closed)
<1>1. CASE ChatRead
  BY <1>1 DEF ChatRead, producer, reader, consumer
<1>2. CASE CallbackSend
  BY <1>2 DEF CallbackSend, Send, producer, reader, consumer
<1>3. CASE CallbackCancelled
  BY <1>3 DEF CallbackCancelled, ChatReturns, producer, reader, consumer
<1>4. CASE ChatEnds
  BY <1>4 DEF ChatEnds, ChatReturns, producer, reader, consumer
<1>5. CASE ChatFails
  BY <1>5 DEF ChatFails, ChatReturns, producer, reader, consumer
<1>6. CASE ChatCancelled
  BY <1>6 DEF ChatCancelled, ChatReturns, producer, reader, consumer
<1>7. CASE Report
  BY <1>7 DEF Report, producer, reader, consumer
<1>8. CASE CloseRespCh
  BY <1>8 DEF CloseRespCh, producer, reader, consumer
<1>9. CASE NextCall
  BY <1>9 DEF NextCall, producer, reader, consumer
<1>10. CASE NextClosed
  BY <1>10 DEF NextClosed, Return, producer, reader, consumer
<1>11. CASE NextPop
  BY <1>11 DEF NextPop, Return, producer, reader, consumer
<1>12. CASE NextDone
  BY <1>12 DEF NextDone, Return, producer, reader, consumer
<1>13. CASE NextUnlock
  BY <1>13 DEF NextUnlock, producer, reader, consumer
<1>14. CASE NextCtx
  BY <1>14 DEF NextCtx, Return, CtxErr, producer, reader, consumer
<1>15. CASE SelectCtx
  BY <1>15 DEF SelectCtx, Return, producer, reader, consumer
<1>16. CASE SelectResp
  BY <1>16 DEF SelectResp, producer, reader, consumer
<1>17. CASE SelectClosed
  BY <1>17 DEF SelectClosed, producer, reader, consumer
<1>18. CASE Ingest
  BY <1>18 DEF Ingest, producer, reader, consumer
<1>19. CASE ReadErr
  BY <1>19 DEF ReadErr, Return, Fails, producer, reader, consumer
<1>20. CASE RecheckCtx
  BY <1>20 DEF RecheckCtx, Return, EndedByCtx, producer, reader, consumer
<1>21. CASE MarkDone
  BY <1>21 DEF MarkDone, Return, producer, reader, consumer
<1>22. ASSUME NEW k \in Closers, Close(k) PROVE Goal
  BY <1>22 DEF Close, producer, consumer
<1>23. CASE ParentCancel
  BY <1>23 DEF ParentCancel, producer, reader, consumer
<1>24. CASE UNCHANGED vars
  BY <1>24 DEF vars, producer, reader, consumer
<1> QED
  BY <1>1, <1>2, <1>3, <1>4, <1>5, <1>6, <1>7, <1>8, <1>9, <1>10, <1>11, <1>12, <1>13, <1>14, <1>15, <1>16, <1>17, <1>18, <1>19, <1>20, <1>21, <1>22, <1>23, <1>24
     DEF Next, NextSteps, Finished
\* The events translated so far are the beginning of the whole answer.
LEMMA TranslatedSoFar ==
  ASSUME TypeOK, NothingLost
  PROVE  Whole(mode, body) \in Seq(Event) /\ Continues(Whole(mode, body), delivered \o pending)
<1> DEFINE n == Len(body)
           evs == [k \in 0..n |-> Run(mode, body)[k].evs]
<1>1. n \in Nat /\ ingested \in 0..n /\ mode \in Modes /\ body \in Bodies(mode)
  BY Sizes DEF TypeOK
<1>2. evs \in [0..n -> Seq(Event)]
  BY <1>1, RunAssumption
<1>3. ASSUME NEW k \in 1..n PROVE Continues(evs[k], evs[k - 1])
  <2> DEFINE more == FrameEvents(mode, Run(mode, body)[k - 1].st, body[k])
             before == Run(mode, body)[k - 1].evs
  <2>1. k \in 0..n /\ k - 1 \in 0..n
    BY <1>1
  <2>2. Run(mode, body)[k].evs = before \o more /\ more \in Seq(Event)
    BY <1>1, RunAssumption
  <2>3. before \in Seq(Event)
    BY <1>1, <2>1, RunAssumption
  <2>4. evs[k] = before \o more /\ evs[k - 1] = before
    BY <2>1, <2>2
  <2> HIDE DEF before, more, evs
  <2> QED
    BY <2>2, <2>3, <2>4, ConcatContinues
<1>4. evs[n] = Whole(mode, body) /\ evs[ingested] = delivered \o pending
  BY <1>1 DEF Whole, NothingLost
<1>5. evs[n] \in Seq(Event)
  BY <1>1, <1>2
<1> HIDE DEF evs, n
<1>6. Continues(evs[n], evs[ingested])
  BY <1>1, <1>2, <1>3, RunGrows
<1> QED
  BY <1>4, <1>5, <1>6

\* An answer that ended was delivered whole.
LEMMA EndedWhole == IInv /\ Disciplined /\ HasEnded => delivered = Whole(mode, body)
<1>0. SUFFICES ASSUME IInv, Disciplined, HasEnded PROVE delivered = Whole(mode, body)
  OBVIOUS
<1>1. pending = <<>> /\ ingested = Len(body)
  BY <1>0 DEF IInv, ConsumerInv, AllIngested, LastIngested, HasEnded
<1>2. delivered \o <<>> = delivered
  BY <1>0, ConcatEmptySeq DEF IInv, TypeOK
<1>3. delivered \o <<>> = Run(mode, body)[Len(body)].evs
  BY <1>0, <1>1 DEF IInv, NothingLost
<1> QED
  BY <1>2, <1>3 DEF Whole

\* A consumer outside of the contract is mapped to one state.
LEMMA UndisciplinedStutters ==
  ASSUME [Next]_vars, ~Disciplined
  PROVE  UNCHANGED <<Log, Source, Status>>
<1>1. ~Disciplined'
  BY EndingSteps DEF Disciplined
<1> QED
  BY <1>1 DEF Log, Source, Status

\* A step that delivers hands on the next event of the answer.
LEMMA DeliverMapped ==
  ASSUME IInv, IInv', [Next]_vars, Disciplined, delivered' # delivered
  PROVE  Contract!Deliver
<1>1. ~closed /\ pending # <<>> /\ NextPop
  BY OnlyPopDelivers
<1>2. npc = "check" /\ delivered' = Append(delivered, Head(pending)) /\ npc' = "outside"
      /\ outcome' = "event" /\ closed' = closed
  BY <1>1 DEF NextPop, Return
<1>3. mode' = mode /\ body' = body /\ Disciplined'
  BY EndingSteps DEF Disciplined
<1>4. Status = "running" /\ Status' = "running"
  <2>1. outcome \notin {"eof", "error", "closed"}
    BY <1>2 DEF IInv, ConsumerInv
  <2> QED
    BY <1>1, <1>2, <1>3, <2>1 DEF Status, HasEnded, IsCut
<1>5. delivered \in Seq(Event) /\ pending \in Seq(Event)
  BY DEF IInv, TypeOK
<1>6. Len(delivered) < Len(Whole(mode, body)) /\ Whole(mode, body)[Len(delivered) + 1] = Head(pending)
  BY <1>1, <1>5, TranslatedSoFar, HeadIsDue DEF IInv
<1>7. Log = delivered /\ Log' = delivered'
  BY <1>3 DEF Log
<1>8. delivered' # <<>>
  BY <1>2, <1>5
<1>9. Source' = Whole(mode, body) /\ (Log = <<>> \/ Source = Whole(mode, body))
  BY <1>3, <1>7, <1>8 DEF Source, Whole
<1>10. Whole(mode, body) \in AllCompletions
  BY DEF AllCompletions, IInv, TypeOK
<1> QED
  BY <1>2, <1>4, <1>6, <1>7, <1>9, <1>10 DEF Contract!Deliver, Source
\* What ended stays ended and what was cut stays cut, a Close racing with the end
\* included: Next only decides for the end while the context is live, and Close
\* cancels it.
LEMMA StatusSteps ==
  ASSUME IInv, IInv', [Next]_vars, Disciplined
  PROVE  /\ Status = "ended" => Status' = "ended"
         /\ Status = "cut" => Status' = "cut"
<1> USE EndingSteps
<1>1. Disciplined'
  BY DEF Disciplined
<1>2. outcome \in {"eof", "error"} => npc = "over"
  BY DEF IInv, ConsumerInv
<1>3. HasEnded => HasEnded'
  BY <1>2 DEF HasEnded
<1>4. ~HasEnded /\ IsCut => ~HasEnded' /\ IsCut'
  <2>1. closed => ctxDone
    BY DEF IInv, ProducerInv
  <2>2. CASE closed
    BY <2>1, <2>2 DEF HasEnded, IsCut
  <2>3. CASE outcome = "error"
    BY <1>2, <2>3 DEF HasEnded, IsCut
  <2> QED
    BY <2>2, <2>3 DEF IsCut
<1> QED
  BY <1>1, <1>3, <1>4 DEF Status

\* A step that delivers nothing ends the contract, cuts it or stutters.
LEMMA QuietMapped ==
  ASSUME IInv, IInv', [Next]_vars, Disciplined, delivered' = delivered
  PROVE  Contract!End \/ Contract!Cut \/ UNCHANGED <<Log, Source, Status>>
<1>1. mode' = mode /\ body' = body /\ Disciplined'
  BY EndingSteps DEF Disciplined
<1>2. Log' = Log /\ Source' = Source /\ Log = delivered
  BY <1>1 DEF Log, Source, Whole
<1>3. Status \in {"running", "ended", "cut"} /\ Status' \in {"running", "ended", "cut"}
  BY DEF Status
<1>4. CASE Status = "running" /\ Status' = "ended"
  <2>1. HasEnded'
    BY <1>1, <1>4 DEF Status
  <2>2. (IInv /\ Disciplined /\ HasEnded => delivered = Whole(mode, body))'
    BY EndedWhole, PTL
  <2>3. delivered = Whole(mode, body)
    BY <1>1, <2>1, <2>2 DEF Whole
  <2>4. Whole(mode, body) \in AllCompletions
    BY DEF AllCompletions, IInv, TypeOK
  <2> QED
    BY <1>2, <1>4, <2>3, <2>4 DEF Contract!End, Source
<1>5. CASE Status = "running" /\ Status' = "cut"
  BY <1>2, <1>5 DEF Contract!Cut, Source
<1> QED
  BY <1>2, <1>3, <1>4, <1>5, StatusSteps

\* The producer, the channels, Next, ingest and Close together implement
\* StreamContract, for every answer and any number of closers: to a consumer that
\* stops at the end, the events of one translated answer without a gap, io.EOF
\* only after all of them, nothing after the end, an error or Close.
THEOREM Refinement == Spec => ImplementsContract
<1>1. Init => Contract!Init
  <2> SUFFICES ASSUME Init PROVE Contract!Init
    OBVIOUS
  <2>1. Log = <<>> /\ Source = <<>>
    BY DEF Init, Log, Source
  <2>2. Status = "running"
    BY DEF Init, Status, HasEnded, IsCut
  <2> QED
    BY <2>1, <2>2 DEF Contract!Init, Source
<1>2. IInv /\ IInv' /\ [Next]_vars => [Contract!Next]_<<Log, Source, Status>>
  <2> SUFFICES ASSUME IInv, IInv', [Next]_vars
               PROVE  Contract!Next \/ UNCHANGED <<Log, Source, Status>>
    OBVIOUS
  <2>1. CASE ~Disciplined
    BY <2>1, UndisciplinedStutters
  <2>2. CASE Disciplined /\ delivered' # delivered
    BY <2>2, DeliverMapped DEF Contract!Next
  <2>3. CASE Disciplined /\ delivered' = delivered
    BY <2>3, QuietMapped DEF Contract!Next
  <2> QED
    BY <2>1, <2>2, <2>3
<1>3. Spec => Contract!Spec
  BY <1>1, <1>2, IInvHolds, PTL DEF Spec, Contract!Spec, Source
<1> QED
  BY <1>3 DEF ImplementsContract

-----------------------------------------------------------------------------
(* The conformance of a drained answer.                                    *)

\* The pieces of an answer whose JSON objects all have a name.
Named == Piece \ {NoCall}
LEMMA CallsNamed == Calls \subseteq Named
BY PieceAssumption DEF Named, Piece, Objects
LEMMA NamedObjects == Objects \cap Named \subseteq Calls
BY DEF Named, Objects

\* A call with its name for an id is a call, of the same arguments.
LEMMA IdentifiedType ==
  /\ Identified \in [Objects -> Objects]
  /\ \A c \in Calls : Identified[c] \in Calls
  /\ \A c \in Objects : Identified[Identified[c]] = Identified[c]
<1>1. Calls \subseteq Objects /\ Anonymous \subseteq Calls /\ NameAsId \in [Anonymous -> Calls \ Anonymous]
  BY IdAssumption DEF Objects
<1>2. \A c \in Objects : Identified[c] = IF c \in Anonymous THEN NameAsId[c] ELSE c
  BY DEF Identified
<1>3. \A c \in Objects : Identified[c] \in Objects /\ Identified[c] \notin Anonymous
  BY <1>1, <1>2
<1>4. \A c \in Calls : Identified[c] \in Calls
  BY <1>1, <1>2
<1>5. \A c \in Objects : Identified[Identified[c]] = Identified[c]
  BY <1>2, <1>3
<1>6. Identified \in [Objects -> Objects]
  BY <1>3 DEF Identified
<1> QED
  BY <1>4, <1>5, <1>6

LEMMA ArgumentsType ==
  ASSUME NEW call \in Objects
  PROVE  /\ Arguments(call) \in Seq(Objects) /\ Arguments(call) \in Seq(Piece)
         /\ call \in Calls => Arguments(call) \in Seq(Named)
         /\ Arguments(Identified[call]) = Arguments(call)
<1> DEFINE c == Identified[call]
<1>1. c \in Objects /\ Identified[c] = c /\ (call \in Calls => c \in Named)
  BY IdentifiedType, CallsNamed
<1>2. Arguments(call) = <<c>> /\ Arguments(c) = <<Identified[c]>>
  BY DEF Arguments
<1>3. Objects \subseteq Piece
  BY DEF Piece
<1> HIDE DEF c
<1>4. <<c>> \in Seq(Objects) /\ <<c>> \in Seq(Piece) /\ (call \in Calls => <<c>> \in Seq(Named))
  BY <1>1, <1>3
<1> QED
  BY <1>1, <1>2, <1>4 DEF c

\* Native calls are streamed one by one, each with an id.
LEMMA WithIdsType ==
  ASSUME NEW calls \in Seq(Objects)
  PROVE  /\ WithIds(calls) = Each(Identified, calls)
         /\ WithIds(calls) \in Seq(Objects) /\ Len(WithIds(calls)) = Len(calls)
         /\ WithIds(calls) = <<>> <=> calls = <<>>
         /\ calls \in Seq(Calls) => WithIds(calls) \in Seq(Calls)
<1> DEFINE them == Each(Identified, calls)
<1>1. WithIds(calls) = them
  BY DEF WithIds, Mapped, Each
<1>2. them \in Seq(Objects) /\ IsEach(them, Identified, calls)
  BY IdentifiedType, EachType
<1>3. Len(them) = Len(calls) /\ \A k \in 1..Len(calls) : them[k] = Identified[calls[k]]
  BY <1>2 DEF IsEach
<1> HIDE DEF them
<1>4. them = <<>> <=> calls = <<>>
  BY <1>2, <1>3
<1>5. ASSUME calls \in Seq(Calls) PROVE them \in Seq(Calls)
  <2>1. \A k \in 1..Len(calls) : calls[k] \in Calls
    BY <1>5
  <2>2. \A k \in 1..Len(them) : them[k] \in Calls
    BY <1>3, <2>1, IdentifiedType
  <2> QED
    BY <1>2, <2>2
<1> QED
  BY <1>1, <1>2, <1>3, <1>4, <1>5 DEF them

\* The events of an answer, with texts of any pieces.
AnEvent ==
  [kind : {"text", "thinking", "tool_start", "tool_args", "tool_end", "done"},
   text : Seq(Named), index : Nat \cup {-1}, call : Calls \cup {NoCall},
   usage : Usage, finish : FinishReasons \cup {NoFinish}]

\* Events that conform, before any Done, of n calls: each started and ended.
Sound(evs, n) ==
  /\ evs \in Seq(AnEvent)
  /\ \A k \in DOMAIN evs : ConformsAt(evs, k) /\ evs[k].kind # "done"
  /\ \A k \in DOMAIN evs : \A i : IsMark(evs[k], i) => i \in 0..(n - 1)
  /\ CallsClosed(evs)
  /\ n > 0 <=> \E k \in DOMAIN evs : evs[k].kind = "tool_start"

\* What follows an event does not change what the helper thinks of it.
LEMMA PrefixConforms ==
  ASSUME NEW S, NEW evs \in Seq(S), NEW more \in Seq(S),
         NEW k \in 1..(Len(evs) + 1)
  PROVE  /\ \A i, kind : SeenIndex(evs \o more, k, i, kind) <=> SeenIndex(evs, k, i, kind)
         /\ k # Len(evs) + 1 /\ evs[k].kind # "done"
              => (ConformsAt(evs \o more, k) <=> ConformsAt(evs, k))
<1>1. \A j \in 1..Len(evs) : (evs \o more)[j] = evs[j]
  OBVIOUS
<1>2. \A j \in 1..(k - 1) : (evs \o more)[j] = evs[j] /\ \A l \in (j + 1)..(k - 1) : (evs \o more)[l] = evs[l]
  BY <1>1
<1>3. \A i, kind : SeenIndex(evs \o more, k, i, kind) <=> SeenIndex(evs, k, i, kind)
  BY <1>2 DEF SeenIndex
<1>4. k # Len(evs) + 1 => (evs \o more)[k] = evs[k]
  BY <1>1
<1> QED
  BY <1>3, <1>4 DEF ConformsAt

\* Text may follow.
LEMMA TextSound ==
  ASSUME NEW n \in Nat, NEW evs, Sound(evs, n), NEW pieces \in Seq(Named)
  PROVE  Sound(evs \o Text(pieces), n) /\ Text(pieces) \in Seq(AnEvent)
<1>0. evs \in Seq(AnEvent)
  BY DEF Sound
<1>1. CASE pieces = <<>>
  BY <1>0, <1>1 DEF Text
<1>2. CASE pieces # <<>>
  <2> DEFINE e == TextDelta(pieces)
             new == evs \o <<e>>
  <2>1. e \in AnEvent /\ e.kind = "text" /\ e.text # NoText /\ e.index = -1
    <3>1. NoUsage \in Usage
      BY DEF Usage
    <3> QED
      BY <1>2, <3>1, PieceAssumption DEF TextDelta, Blank, AnEvent
  <2>2. Text(pieces) = <<e>>
    BY <1>2 DEF Text
  <2> HIDE DEF e
  <2>3. /\ <<e>> \in Seq(AnEvent) /\ new \in Seq(AnEvent) /\ Len(new) = Len(evs) + 1
        /\ DOMAIN new = 1..(Len(evs) + 1) /\ DOMAIN evs = 1..Len(evs) /\ Len(evs) \in Nat
        /\ new[Len(evs) + 1] = e /\ \A k \in DOMAIN evs : new[k] = evs[k]
    BY <1>0, <2>1
  <2>4. \A k \in DOMAIN evs : k \in 1..(Len(evs) + 1) /\ k # Len(evs) + 1
    BY <2>3
  <2>5. \A k \in DOMAIN evs : ConformsAt(new, k) /\ new[k].kind # "done"
    BY <1>0, <2>3, <2>4, PrefixConforms DEF Sound
  <2>6. ConformsAt(new, Len(evs) + 1)
    BY <2>1, <2>3 DEF ConformsAt
  <2>7. \A k \in DOMAIN new : ConformsAt(new, k) /\ new[k].kind # "done"
    <3>1. \A k \in DOMAIN new : k \in DOMAIN evs \/ k = Len(evs) + 1
      BY <2>3
    <3> HIDE DEF new
    <3> QED
      BY <2>1, <2>3, <2>5, <2>6, <3>1
  <2>8. \A i : ~IsMark(e, i)
    BY <2>1 DEF IsMark
  <2>9. \A k \in DOMAIN new : \A i : IsMark(new[k], i) => i \in 0..(n - 1)
    BY <2>3, <2>8 DEF Sound
  <2>10. CallsClosed(new)
    <3> SUFFICES ASSUME NEW k \in DOMAIN new, new[k].kind = "tool_start"
                 PROVE  SeenIndex(new, Len(new) + 1, new[k].index, "tool_end")
      BY DEF CallsClosed
    <3>1. k \in DOMAIN evs /\ new[k] = evs[k]
      BY <2>1, <2>3
    <3>2. SeenIndex(evs, Len(evs) + 1, evs[k].index, "tool_end")
      BY <3>1 DEF Sound, CallsClosed
    <3>3. PICK j \in 1..Len(evs) : /\ evs[j].kind = "tool_end" /\ evs[j].index = evs[k].index
                                   /\ \A l \in (j + 1)..Len(evs) : ~IsMark(evs[l], evs[k].index)
      BY <2>3, <3>2 DEF SeenIndex
    <3>4. \A l \in (j + 1)..(Len(evs) + 1) : ~IsMark(new[l], evs[k].index)
      BY <2>3, <2>8, <3>3
    <3> QED
      BY <2>3, <3>1, <3>3, <3>4 DEF SeenIndex
  <2>11. n > 0 <=> \E k \in DOMAIN new : new[k].kind = "tool_start"
    <3>1. (\E k \in DOMAIN new : new[k].kind = "tool_start") <=> (\E k \in DOMAIN evs : evs[k].kind = "tool_start")
      BY <2>1, <2>3
    <3> QED
      BY <3>1 DEF Sound
  <2>12. Sound(new, n)
    BY <2>3, <2>7, <2>9, <2>10, <2>11 DEF Sound
  <2> QED
    BY <2>2, <2>3, <2>12
<1> QED
  BY <1>1, <1>2

\* A call may follow, with the next index: its Start, arguments and End.
Whole1(n, call) == <<ToolStart(n, call), ToolArgs(n, NoCall, Arguments(call)), ToolEnd(n, NoCall)>>
LEMMA CallType ==
  ASSUME NEW n \in Nat, NEW call \in Calls
  PROVE  Whole1(n, call) \in Seq(AnEvent)
<1> DEFINE s == ToolStart(n, call)
           a == ToolArgs(n, NoCall, Arguments(call))
           e == ToolEnd(n, NoCall)
<1>1. NoUsage \in Usage /\ Arguments(call) \in Seq(Named)
  <2>1. call \in Objects
    BY DEF Objects
  <2> QED
    BY <2>1, ArgumentsType DEF Usage
<1>2. NoText \in Seq(Named)
  BY PieceAssumption
<1>3. s \in AnEvent /\ a \in AnEvent /\ e \in AnEvent
  BY <1>1, <1>2 DEF ToolStart, ToolArgs, ToolEnd, Blank, AnEvent
<1>4. Whole1(n, call) = <<s, a, e>>
  BY DEF Whole1
<1> HIDE DEF s, a, e
<1> QED
  BY <1>3, <1>4

LEMMA CallSound ==
  ASSUME NEW n \in Nat, NEW evs, Sound(evs, n), NEW call \in Calls
  PROVE  Sound(evs \o Whole1(n, call), n + 1) /\ Whole1(n, call) \in Seq(AnEvent)
<1> DEFINE s == ToolStart(n, call)
           a == ToolArgs(n, NoCall, Arguments(call))
           e == ToolEnd(n, NoCall)
           L == Len(evs)
           new == evs \o <<s, a, e>>
<1>1. evs \in Seq(AnEvent) /\ L \in Nat /\ DOMAIN evs = 1..L
  BY DEF Sound
<1>2. /\ s \in AnEvent /\ a \in AnEvent /\ e \in AnEvent
      /\ s.kind = "tool_start" /\ a.kind = "tool_args" /\ e.kind = "tool_end"
      /\ s.index = n /\ a.index = n /\ e.index = n /\ s.call = call
  <2>1. NoUsage \in Usage /\ Arguments(call) \in Seq(Named)
    <3>1. call \in Objects
      BY DEF Objects
    <3> QED
      BY <3>1, ArgumentsType DEF Usage
  <2>2. NoText \in Seq(Named)
    BY PieceAssumption
  <2> QED
    BY <2>1, <2>2 DEF ToolStart, ToolArgs, ToolEnd, Blank, AnEvent
<1>3. Whole1(n, call) = <<s, a, e>>
  BY DEF Whole1
<1>4. call # NoCall
  BY PieceAssumption
<1> HIDE DEF s, a, e
<1>5. /\ <<s, a, e>> \in Seq(AnEvent) /\ new \in Seq(AnEvent) /\ Len(new) = L + 3
      /\ DOMAIN new = 1..(L + 3) /\ \A k \in 1..L : new[k] = evs[k]
      /\ new[L + 1] = s /\ new[L + 2] = a /\ new[L + 3] = e
  BY <1>1, <1>2
<1> HIDE DEF new
<1>6. \A k \in 1..(L + 1) : \A i, kind : SeenIndex(new, k, i, kind) <=> SeenIndex(evs, k, i, kind)
  BY <1>1, <1>5, PrefixConforms DEF new
<1>7. \A k \in 1..L : ConformsAt(new, k) /\ new[k].kind # "done"
  <2> SUFFICES ASSUME NEW k \in 1..L PROVE ConformsAt(new, k) /\ new[k].kind # "done"
    OBVIOUS
  <2>1. k \in 1..(L + 1) /\ k # L + 1
    BY <1>1
  <2>2. ConformsAt(evs, k) /\ evs[k].kind # "done"
    BY <1>1 DEF Sound
  <2>3. ConformsAt(new, k)
    BY <1>1, <1>5, <2>1, <2>2, PrefixConforms DEF new
  <2> QED
    BY <1>5, <2>2, <2>3
<1>8. ~SeenIndex(new, L + 1, n, "tool_end")
  <2>1. ~SeenIndex(evs, L + 1, n, "tool_end")
    <3>1. \A j \in 1..L : evs[j].kind = "tool_end" => evs[j].index # n
      <4>1. \A j \in 1..L : evs[j].kind = "tool_end" => IsMark(evs[j], evs[j].index)
        BY DEF IsMark
      <4>2. \A j \in 1..L : evs[j].kind = "tool_end" => evs[j].index \in 0..(n - 1)
        BY <1>1, <4>1 DEF Sound
      <4> QED
        BY <4>2
    <3> QED
      BY <1>1, <3>1 DEF SeenIndex
  <2> QED
    BY <1>1, <1>6, <2>1
<1>9. ConformsAt(new, L + 1)
  BY <1>2, <1>4, <1>5, <1>8 DEF ConformsAt
<1>10. SeenIndex(new, L + 2, n, "tool_start")
  <2>1. L + 1 \in 1..((L + 2) - 1) /\ \A l \in ((L + 1) + 1)..((L + 2) - 1) : FALSE
    BY <1>1
  <2> QED
    BY <1>2, <1>5, <2>1 DEF SeenIndex
<1>11. ConformsAt(new, L + 2)
  BY <1>2, <1>5, <1>10 DEF ConformsAt
<1>12. SeenIndex(new, L + 3, n, "tool_start")
  <2>1. L + 1 \in 1..((L + 3) - 1) /\ \A l \in ((L + 1) + 1)..((L + 3) - 1) : l = L + 2
    BY <1>1
  <2>2. ~IsMark(a, n)
    BY <1>2 DEF IsMark
  <2> QED
    BY <1>2, <1>5, <2>1, <2>2 DEF SeenIndex
<1>13. ConformsAt(new, L + 3)
  BY <1>2, <1>5, <1>12 DEF ConformsAt
<1>14. \A k \in DOMAIN new : k \in 1..L \/ k = L + 1 \/ k = L + 2 \/ k = L + 3
  BY <1>1, <1>5
<1>15. \A k \in DOMAIN new : ConformsAt(new, k) /\ new[k].kind # "done"
  BY <1>2, <1>5, <1>7, <1>9, <1>11, <1>13, <1>14
<1>16. \A k \in DOMAIN new : \A i : IsMark(new[k], i) => i \in 0..((n + 1) - 1)
  <2> SUFFICES ASSUME NEW k \in DOMAIN new, NEW i, IsMark(new[k], i) PROVE i \in 0..((n + 1) - 1)
    OBVIOUS
  <2>1. CASE k \in 1..L
    <3>1. i \in 0..(n - 1)
      BY <1>1, <1>5, <2>1 DEF Sound
    <3> QED
      BY <3>1
  <2>2. CASE k \notin 1..L
    <3>1. i = n
      BY <1>2, <1>5, <1>14, <2>2 DEF IsMark
    <3> QED
      BY <3>1
  <2> QED
    BY <2>1, <2>2
<1>17. SeenIndex(new, L + 4, n, "tool_end")
  <2>1. L + 3 \in 1..((L + 4) - 1) /\ \A l \in ((L + 3) + 1)..((L + 4) - 1) : FALSE
    BY <1>1
  <2> QED
    BY <1>2, <1>5, <2>1 DEF SeenIndex
<1>18. CallsClosed(new)
  <2> SUFFICES ASSUME NEW k \in DOMAIN new, new[k].kind = "tool_start"
               PROVE  SeenIndex(new, L + 4, new[k].index, "tool_end")
    BY <1>1, <1>5 DEF CallsClosed
  <2>1. CASE k \in 1..L
    <3>1. new[k] = evs[k] /\ SeenIndex(evs, L + 1, evs[k].index, "tool_end")
      BY <1>1, <1>5, <2>1 DEF Sound, CallsClosed
    <3>2. PICK j \in 1..L : /\ evs[j].kind = "tool_end" /\ evs[j].index = evs[k].index
                            /\ \A l \in (j + 1)..L : ~IsMark(evs[l], evs[k].index)
      BY <1>1, <3>1 DEF SeenIndex
    <3>3. evs[k].index # n
      <4>1. IsMark(evs[k], evs[k].index)
        BY <3>1 DEF IsMark
      <4>2. evs[k].index \in 0..(n - 1)
        BY <1>1, <2>1, <4>1 DEF Sound
      <4> QED
        BY <4>2
    <3>4. \A l \in (j + 1)..(L + 3) : ~IsMark(new[l], evs[k].index)
      <4> SUFFICES ASSUME NEW l \in (j + 1)..(L + 3) PROVE ~IsMark(new[l], evs[k].index)
        OBVIOUS
      <4>1. l \in 1..L \/ l = L + 1 \/ l = L + 2 \/ l = L + 3
        <5>1. L \in Nat /\ j \in Nat /\ l \in Int /\ l >= j + 1 /\ l <= L + 3
          BY <1>1, <3>2
        <5> HIDE DEF L
        <5> QED
          BY <5>1
      <4>2. CASE l \in 1..L
        <5>1. l \in (j + 1)..L
          BY <1>1, <4>2
        <5> QED
          BY <1>5, <3>2, <4>2, <5>1
      <4>3. CASE l \notin 1..L
        BY <1>2, <1>5, <3>3, <4>1, <4>3 DEF IsMark
      <4> QED
        BY <4>2, <4>3
    <3>5. j \in 1..((L + 4) - 1) /\ (L + 4) - 1 = L + 3 /\ new[j] = evs[j]
      BY <1>1, <1>5, <3>2
    <3> QED
      BY <3>1, <3>2, <3>4, <3>5 DEF SeenIndex
  <2>2. CASE k \notin 1..L
    BY <1>2, <1>5, <1>14, <1>17, <2>2
  <2> QED
    BY <2>1, <2>2
<1>19. n + 1 > 0 /\ \E k \in DOMAIN new : new[k].kind = "tool_start"
  BY <1>1, <1>2, <1>5
<1>20. Sound(new, n + 1)
  BY <1>5, <1>15, <1>16, <1>18, <1>19 DEF Sound
<1> QED
  BY <1>3, <1>5, <1>20 DEF new

LEMMA Regrouped ==
  ASSUME NEW S, NEW s \in Seq(S), NEW t \in Seq(S), NEW u \in Seq(S)
  PROVE  (s \o t) \o u = s \o (t \o u)
BY ConcatAssociative

\* The same for four parts, with a name for the concatenation that keeps the
\* provers from expanding it.
Chained(s, t) == s \o t
LEMMA ChainedType ==
  ASSUME NEW S, NEW s \in Seq(S), NEW t \in Seq(S)
  PROVE  Chained(s, t) \in Seq(S)
BY DEF Chained
LEMMA ChainRegrouped ==
  ASSUME NEW S, NEW s \in Seq(S), NEW t \in Seq(S), NEW u \in Seq(S)
  PROVE  Chained(Chained(s, t), u) = Chained(s, Chained(t, u))
<1>1. (s \o t) \o u = s \o (t \o u)
  BY ConcatAssociative
<1> QED
  BY <1>1 DEF Chained
LEMMA RegroupedTwice ==
  ASSUME NEW S, NEW s \in Seq(S), NEW t \in Seq(S), NEW u \in Seq(S),
         NEW v \in Seq(S)
  PROVE  Chained(Chained(Chained(s, t), u), v) = Chained(s, Chained(Chained(t, u), v))
<1> DEFINE A == Seq(S)
<1>1. \A x, y \in A : Chained(x, y) \in A
  BY ChainedType
<1>2. \A x, y, z \in A : Chained(Chained(x, y), z) = Chained(x, Chained(y, z))
  BY ChainRegrouped
<1>3. s \in A /\ t \in A /\ u \in A /\ v \in A
  OBVIOUS
<1> HIDE DEF A
<1> QED
  BY <1>1, <1>2, <1>3

\* The events of n calls, call after call.
LEMMA CallsSound ==
  ASSUME NEW n \in Nat, NEW evs, Sound(evs, n), NEW calls \in Seq(Calls)
  PROVE  /\ Sound(evs \o CallEvents(calls, n), n + Len(calls))
         /\ CallEvents(calls, n) \in Seq(AnEvent)
<1> DEFINE m == Len(calls)
           seqs == [k \in DOMAIN calls |-> Whole1(n + k - 1, calls[k])]
<1>1. m \in Nat /\ DOMAIN calls = 1..m /\ \A k \in 1..m : calls[k] \in Calls /\ n + k - 1 \in Nat
  OBVIOUS
<1>2. \A k \in 1..m : Whole1(n + k - 1, calls[k]) \in Seq(AnEvent)
  BY <1>1, CallType
<1>3. seqs \in Seq(Seq(AnEvent)) /\ Len(seqs) = m /\ \A k \in 1..m : seqs[k] = Whole1(n + k - 1, calls[k])
  BY <1>1, <1>2
<1>4. CallEvents(calls, n) = FlattenSeq(seqs)
  <2>1. \A k \in DOMAIN calls : CallIndex(n, k) = n + k - 1
    BY DEF CallIndex
  <2>2. [k \in DOMAIN calls |-> <<ToolStart(CallIndex(n, k), calls[k]),
                                  ToolArgs(CallIndex(n, k), NoCall, Arguments(calls[k])),
                                  ToolEnd(CallIndex(n, k), NoCall)>>] = seqs
    BY <2>1 DEF Whole1
  <2> HIDE DEF seqs
  <2> QED
    BY <2>2 DEF CallEvents
<1> HIDE DEF seqs
<1>5. PICK f \in [0..m -> Seq(AnEvent)] :
        /\ f[0] = <<>>
        /\ \A k \in 1..m : f[k] = f[k - 1] \o seqs[k]
        /\ FlattenSeq(seqs) = f[m]
  <2> HIDE DEF m
  <2>1. \E f \in [0..Len(seqs) -> Seq(AnEvent)] :
          /\ f[0] = <<>>
          /\ \A k \in 1..Len(seqs) : f[k] = f[k - 1] \o seqs[k]
          /\ FlattenSeq(seqs) = f[Len(seqs)]
    BY <1>3, Flattened
  <2> QED
    BY <1>3, <2>1
<1> DEFINE P == {k \in 0..m : Sound(evs \o f[k], n + k)}
<1>6. 0 \in P
  <2>1. evs \o <<>> = evs
    BY ConcatEmptySeq DEF Sound
  <2>2. n + 0 = n /\ 0 \in 0..m
    BY <1>1
  <2> QED
    BY <1>5, <2>1, <2>2
<1>7. ASSUME NEW k \in 0..m, k # m, k \in P PROVE k + 1 \in P
  <2>1. k + 1 \in 1..m /\ k + 1 \in 0..m /\ (k + 1) - 1 = k /\ n + (k + 1) - 1 = n + k /\ n + k \in Nat
        /\ n + (k + 1) = (n + k) + 1 /\ calls[k + 1] \in Calls
    <3> HIDE DEF P, m
    <3>1. k + 1 \in 1..m /\ k \in Nat
      BY <1>1, <1>7
    <3> QED
      BY <1>1, <3>1
  <2> DEFINE one == Whole1(n + k, calls[k + 1])
  <2>2. f[k + 1] = f[k] \o one /\ f[k] \in Seq(AnEvent) /\ one \in Seq(AnEvent)
    BY <1>2, <1>3, <1>5, <2>1
  <2>3. Sound(evs \o f[k], n + k)
    BY <1>7
  <2>4. Sound((evs \o f[k]) \o one, (n + k) + 1)
    BY <2>1, <2>3, CallSound
  <2> HIDE DEF one
  <2>5. (evs \o f[k]) \o one = evs \o f[k + 1]
    <3>1. evs \in Seq(AnEvent)
      BY DEF Sound
    <3>2. (evs \o f[k]) \o one = evs \o (f[k] \o one)
      BY <2>2, <3>1, Regrouped
    <3> QED
      BY <2>2, <3>2
  <2> QED
    BY <2>1, <2>4, <2>5
<1>8. \A k \in 0..m : k \in P
  <2> HIDE DEF P, m
  <2> QED
    BY <1>1, <1>6, <1>7, UpTo
<1> QED
  BY <1>1, <1>4, <1>5, <1>8

\* The pieces at some places of a text.
LEMMA PiecesAtType ==
  ASSUME NEW S, NEW text \in Seq(S), NEW places
  PROVE  PiecesAt(text, places) \in Seq({text[k] : k \in places \cap DOMAIN text})
<1> DEFINE n == Len(text)
           D == 1..n
           at == [k \in D |-> k]
           A == Seq({text[k] : k \in places \cap D})
           step == [p \in A \X D |-> IF p[2] \in places THEN Append(p[1], text[p[2]]) ELSE p[1]]
           IsFound(r) == r = [k \in 0..n |-> IF k = 0 THEN <<>>
                                             ELSE IF k \in places THEN Append(r[k - 1], text[k]) ELSE r[k - 1]]
<1>1. n \in Nat /\ DOMAIN text = D /\ at \in Seq(D) /\ Len(at) = n /\ \A k \in D : at[k] = k
  OBVIOUS
<1>2. <<>> \in A
  OBVIOUS
<1>3. step \in [A \X D -> A]
  OBVIOUS
<1> HIDE DEF step, A, at
<1>4. PICK r \in [0..Len(at) -> A] : GoesThrough(r, at, <<>>, step)
  BY <1>1, <1>2, <1>3, RunExists
<1> HIDE DEF n
<1>5. r \in [0..n -> A] /\ r[0] = <<>> /\ \A k \in 1..n : r[k] = step[<<r[k - 1], k>>]
  BY <1>1, <1>4 DEF GoesThrough
<1>6. \A k \in 0..n : r[k] = IF k = 0 THEN <<>>
                             ELSE IF k \in places THEN Append(r[k - 1], text[k]) ELSE r[k - 1]
  <2> SUFFICES ASSUME NEW k \in 0..n, k # 0
               PROVE r[k] = IF k \in places THEN Append(r[k - 1], text[k]) ELSE r[k - 1]
    BY <1>5
  <2>1. k \in 1..n /\ k - 1 \in 0..n
    BY <1>1
  <2>2. r[k - 1] \in A
    BY <1>5, <2>1
  <2> QED
    BY <1>5, <2>1, <2>2 DEF step
<1>7. IsFound(r)
  BY <1>5, <1>6
<1> DEFINE found == CHOOSE r_ : IsFound(r_)
<1>8. PiecesAt(text, places) = found[n]
  BY DEF PiecesAt, n
<1>9. IsFound(found)
  <2> HIDE DEF IsFound
  <2> QED
    BY <1>7
<1>10. /\ found[0] = <<>>
       /\ \A k \in 1..n : found[k] = IF k \in places THEN Append(found[k - 1], text[k]) ELSE found[k - 1]
  <2> HIDE DEF found
  <2>1. 0 \in 0..n /\ \A k \in 1..n : k \in 0..n /\ k # 0
    BY <1>1
  <2> QED
    BY <1>9, <2>1
<1> HIDE DEF found
<1> DEFINE P == {k \in 0..n : found[k] \in A}
<1>11. 0 \in P
  BY <1>1, <1>2, <1>10
<1>12. ASSUME NEW k \in 0..n, k # n, k \in P PROVE k + 1 \in P
  <2>1. k + 1 \in 1..n /\ k + 1 \in 0..n /\ (k + 1) - 1 = k
    BY <1>1, <1>12
  <2>2. found[k + 1] = IF k + 1 \in places THEN Append(found[k], text[k + 1]) ELSE found[k]
    BY <1>10, <2>1
  <2>3. found[k] \in A
    BY <1>12
  <2>4. k + 1 \in places => text[k + 1] \in {text[j] : j \in places \cap D}
    BY <2>1
  <2>5. found[k + 1] \in A
    BY <2>2, <2>3, <2>4 DEF A
  <2> QED
    BY <2>1, <2>5
<1>13. \A k \in 0..n : k \in P
  <2> HIDE DEF P
  <2> QED
    BY <1>1, <1>11, <1>12, UpTo
<1>14. n \in 0..n
  BY <1>1
<1>15. found[n] \in A
  BY <1>13, <1>14
<1> QED
  BY <1>1, <1>8, <1>15 DEF A

\* Whatever the parsers make of a text, it is objects and a text of its pieces.
ParsedOf(S) == [calls : Seq(S \cap Objects), text : Seq(S)]
LEMMA ParseType ==
  ASSUME NEW m, NEW S, NEW text \in Seq(S)
  PROVE  Parse(m, text) \in ParsedOf(S)
<1> DEFINE Found == S \cap Objects
           Made == [calls : Seq(Found), text : Seq(S)]
<1>0. Made = ParsedOf(S)
  BY DEF ParsedOf
<1>1. \A t \in Seq(S) : NoCalls(t) \in Made
  BY DEF NoCalls
<1>2. \A raw \in Seq(S) : OneCall(raw) => raw \in Seq(Found)
  <2> SUFFICES ASSUME NEW raw \in Seq(S), OneCall(raw) PROVE raw \in Seq(Found)
    OBVIOUS
  <2>1. Len(raw) = 1 /\ raw[1] \in Found
    <3>1. Len(raw) = 1 /\ raw[1] \in Objects
      BY DEF OneCall
    <3>2. 1 \in 1..Len(raw)
      BY <3>1
    <3>3. raw[1] \in S
      BY <3>2
    <3> QED
      BY <3>1, <3>3
  <2>2. \A k \in 1..Len(raw) : raw[k] \in Found
    BY <2>1
  <2> QED
    BY <2>2
<1>3. \A idx \in 1..Len(text) : SplitAtTag(text, idx) \in Made
  <2> SUFFICES ASSUME NEW idx \in 1..Len(text) PROVE SplitAtTag(text, idx) \in Made
    OBVIOUS
  <2>1. SubSeq(text, idx + 1, Len(text)) \in Seq(S) /\ SubSeq(text, 1, idx - 1) \in Seq(S)
    OBVIOUS
  <2>2. <<>> \in Seq(Found)
    OBVIOUS
  <2> DEFINE rest == SubSeq(text, idx + 1, Len(text))
  <2> HIDE DEF rest
  <2>3. (IF OneCall(rest) THEN rest ELSE <<>>) \in Seq(Found)
    BY <1>2, <2>1, <2>2 DEF rest
  <2>4. SplitAtTag(text, idx) = [calls |-> IF OneCall(rest) THEN rest ELSE <<>>,
                                 text |-> SubSeq(text, 1, idx - 1)]
    BY DEF SplitAtTag, rest
  <2> QED
    BY <2>1, <2>3, <2>4
<1>4. ParsePythonTag(text) \in Made
  <2>1. CASE Contains(text, "python_tag")
    <3> DEFINE I == {i \in 1..Len(text) : text[i] = "python_tag"}
               first == SelectInSeq(text, LAMBDA p : p = "python_tag")
    <3>1. I # {} /\ I \in SUBSET Nat
      BY <2>1 DEF Contains
    <3>2. first = CHOOSE x \in I : \A y \in I : x =< y
      BY <3>1 DEF SelectInSeq, Min
    <3>3. \E x \in I : \A y \in I : x =< y
      BY <3>1, LeastNumber
    <3>4. first \in 1..Len(text)
      <4> HIDE DEF first
      <4> QED
        BY <3>2, <3>3
    <3> HIDE DEF first
    <3> QED
      BY <1>3, <2>1, <3>4 DEF ParsePythonTag, first
  <2>2. CASE ~Contains(text, "python_tag")
    BY <1>1, <2>2 DEF ParsePythonTag
  <2> QED
    BY <2>1, <2>2
<1>5. \A spans : PiecesAt(text, spans) \in Seq(S)
  <2> SUFFICES ASSUME NEW places PROVE PiecesAt(text, places) \in Seq(S)
    OBVIOUS
  <2>1. {text[k] : k \in places \cap DOMAIN text} \subseteq S
    OBVIOUS
  <2>2. PiecesAt(text, places) \in Seq({text[k] : k \in places \cap DOMAIN text})
    BY PiecesAtType
  <2> HIDE DEF Found
  <2> QED
    BY <2>1, <2>2
<1>6. DecodeMatches(text, QwenMatches(text)) \in Made
  <2> DEFINE spans == QwenMatches(text)
             places == {s[1] + 1 : s \in spans}
  <2>1. \A k \in places \cap DOMAIN text : text[k] \in Found
    <3>1. \A k \in places \cap DOMAIN text : text[k] \in Objects
      BY DEF QwenMatches, QwenSpans
    <3>2. \A k \in DOMAIN text : text[k] \in S
      OBVIOUS
    <3> HIDE DEF places
    <3> QED
      BY <3>1, <3>2
  <2>2. {text[k] : k \in places \cap DOMAIN text} \subseteq Found
    BY <2>1
  <2>3. Matched(text, spans) \in Seq(Found)
    <3>1. PiecesAt(text, places) \in Seq({text[k] : k \in places \cap DOMAIN text})
      BY PiecesAtType
    <3> HIDE DEF places, spans
    <3>2. PiecesAt(text, places) \in Seq(Found)
      BY <2>2, <3>1
    <3> QED
      BY <3>2 DEF Matched, places
  <2>4. Stripped(text, spans) \in Seq(S)
    BY <1>5 DEF Stripped
  <2>5. <<>> \in Seq(S)
    OBVIOUS
  <2> HIDE DEF spans, places
  <2>6. ASSUME \E s \in spans : s[2] # s[1] + 2 PROVE DecodeMatches(text, spans) \in Made
    <3>1. DecodeMatches(text, spans) = NoCalls(<<>>)
      BY <2>6 DEF DecodeMatches
    <3> QED
      BY <1>1, <2>5, <3>1
  <2>7. ASSUME ~\E s \in spans : s[2] # s[1] + 2 PROVE DecodeMatches(text, spans) \in Made
    <3>1. DecodeMatches(text, spans) = [calls |-> Matched(text, spans), text |-> Stripped(text, spans)]
      BY <2>7 DEF DecodeMatches
    <3> QED
      BY <2>3, <2>4, <3>1
  <2>8. DecodeMatches(text, spans) \in Made
    BY <2>6, <2>7
  <2> QED
    BY <2>8 DEF spans
<1>7. DecodeBare(text, StripCodeFence(text)) \in Made
  <2>1. StripCodeFence(text) \in Seq(S)
    <3>1. \A t \in Seq(S) : BeforeLastFence(t) \in Seq(S)
      <4> SUFFICES ASSUME NEW t \in Seq(S) PROVE BeforeLastFence(t) \in Seq(S)
        OBVIOUS
      <4>1. CASE Fences(t) = {}
        BY <4>1 DEF BeforeLastFence
      <4>2. CASE Fences(t) # {}
        <5>1. \E x \in Fences(t) : \A y \in Fences(t) : x >= y
          <6>1. Fences(t) \in SUBSET (1..Len(t)) /\ Len(t) \in Nat
            BY DEF Fences
          <6> QED
            BY <4>2, <6>1, LastPlace
        <5>2. Max(Fences(t)) \in 1..Len(t)
          <6>1. Max(Fences(t)) = CHOOSE x \in Fences(t) : \A y \in Fences(t) : x >= y
            BY DEF Max
          <6>2. Max(Fences(t)) \in Fences(t)
            BY <5>1, <6>1
          <6> QED
            BY <6>2 DEF Fences
        <5> QED
          BY <4>2, <5>2 DEF BeforeLastFence
      <4> QED
        BY <4>1, <4>2
    <3>2. text # <<>> => Tail(text) \in Seq(S)
      OBVIOUS
    <3> QED
      BY <3>1, <3>2 DEF StripCodeFence
  <2>2. <<>> \in Seq(S)
    OBVIOUS
  <2> QED
    BY <1>1, <1>2, <2>1, <2>2 DEF DecodeBare
<1>8. ParseQwen(text) \in Made
  BY <1>6, <1>7 DEF ParseQwen
<1> QED
  BY <1>0, <1>4, <1>8 DEF Parse

\* Of named pieces it is calls.
Parsed == [calls : Seq(Calls), text : Seq(Named)]
LEMMA NamedParsed == ParsedOf(Named) \subseteq Parsed
<1>1. Named \cap Objects \subseteq Calls
  BY NamedObjects
<1>2. Seq(Named \cap Objects) \subseteq Seq(Calls)
  BY <1>1
<1> QED
  BY <1>2 DEF ParsedOf, Parsed

-----------------------------------------------------------------------------
\* What ingest leaves for the next frame: a text and a number of calls.
Held == [contentBuf : Seq(Named), nextIdx : Nat]

\* Of no pieces or of many, a text may follow.
LEMMA MaybeText ==
  ASSUME NEW n \in Nat, NEW evs, Sound(evs, n), NEW c, NEW pieces \in Seq(Named)
  PROVE  /\ Sound(evs \o (IF c THEN <<>> ELSE Text(pieces)), n)
         /\ (IF c THEN <<>> ELSE Text(pieces)) \in Seq(AnEvent)
<1>1. evs \o <<>> = evs
  BY ConcatEmptySeq DEF Sound
<1>2. <<>> \in Seq(AnEvent)
  OBVIOUS
<1>3. Sound(evs \o Text(pieces), n) /\ Text(pieces) \in Seq(AnEvent)
  BY TextSound
<1> QED
  BY <1>1, <1>2, <1>3

\* The content and the calls of a frame.
LEMMA ContentSound ==
  ASSUME NEW m, NEW evs, NEW st \in Held, Sound(evs, st.nextIdx),
         NEW f, f.content \in Seq(Named), f.calls \in Seq(Calls)
  PROVE  /\ Sound(evs \o IngestContent(m, st, f).evs, IngestContent(m, st, f).st.nextIdx)
         /\ IngestContent(m, st, f).evs \in Seq(AnEvent)
         /\ IngestContent(m, st, f).st \in Held
<1> DEFINE n == st.nextIdx
           a == Flushed(st, f)
           b == IF Withheld(m, st, f) THEN <<>> ELSE Text(f.content)
           told == WithIds(f.calls)
           c == CallEvents(told, n)
<1>1. n \in Nat /\ st.contentBuf \in Seq(Named) /\ Len(f.calls) \in Nat
  BY DEF Held
<1>0. told \in Seq(Calls) /\ Len(told) = Len(f.calls)
  <2> DEFINE native == f.calls
  <2>1. Seq(Calls) \subseteq Seq(Objects)
    BY DEF Objects
  <2>2. native \in Seq(Calls) /\ native \in Seq(Objects)
    BY <2>1
  <2> HIDE DEF native
  <2>3. WithIds(native) \in Seq(Calls) /\ Len(WithIds(native)) = Len(native)
    BY <2>2, WithIdsType
  <2> QED
    BY <2>3 DEF native
<1>2. Sound(evs, n) /\ evs \in Seq(AnEvent)
  BY DEF Sound
<1>3. Sound(evs \o a, n) /\ a \in Seq(AnEvent)
  <2>1. a = IF f.calls = <<>> THEN <<>> ELSE Text(st.contentBuf)
    BY DEF Flushed
  <2> HIDE DEF a, n
  <2> QED
    BY <1>1, <1>2, <2>1, MaybeText
<1>4. Sound((evs \o a) \o b, n) /\ b \in Seq(AnEvent)
  <2> HIDE DEF a, n
  <2> QED
    BY <1>1, <1>3, MaybeText
<1>5. Sound(((evs \o a) \o b) \o c, n + Len(f.calls)) /\ c \in Seq(AnEvent)
  <2> DEFINE before == (evs \o a) \o b
  <2> HIDE DEF a, b, n, told, before
  <2>1. Sound(before, n)
    BY <1>4 DEF before
  <2>2. Sound(before \o CallEvents(told, n), n + Len(told)) /\ CallEvents(told, n) \in Seq(AnEvent)
    BY <1>0, <1>1, <2>1, CallsSound
  <2> QED
    BY <1>0, <2>2 DEF before
<1>6. /\ IngestContent(m, st, f).evs = (a \o b) \o c
      /\ IngestContent(m, st, f).st.nextIdx = n + Len(f.calls)
  BY DEF IngestContent
<1>7. IngestContent(m, st, f).st \in Held
  <2> DEFINE was == IF f.calls # <<>> THEN <<>> ELSE st.contentBuf
             more == IF Withheld(m, st, f) THEN f.content ELSE <<>>
  <2>1. <<>> \in Seq(Named)
    OBVIOUS
  <2>2. was \in Seq(Named) /\ more \in Seq(Named)
    BY <1>1, <2>1
  <2>3. n + Len(f.calls) \in Nat
    BY <1>1
  <2>4. IngestContent(m, st, f).st = [contentBuf |-> was \o more, nextIdx |-> n + Len(f.calls)]
    BY DEF IngestContent
  <2> HIDE DEF was, more, n
  <2>5. was \o more \in Seq(Named)
    BY <2>2
  <2> QED
    BY <2>3, <2>4, <2>5 DEF Held
<1> HIDE DEF a, b, c, n
<1>8. (a \o b) \o c \in Seq(AnEvent)
  BY <1>3, <1>4, <1>5
<1>9. ((evs \o a) \o b) \o c = evs \o ((a \o b) \o c)
  <2>1. Chained(Chained(Chained(evs, a), b), c) = Chained(evs, Chained(Chained(a, b), c))
    BY <1>2, <1>3, <1>4, <1>5, RegroupedTwice
  <2> QED
    BY <2>1 DEF Chained
<1> QED
  BY <1>5, <1>6, <1>7, <1>8, <1>9

\* What the buffer becomes at the Done frame.
Rest(st, parsed) ==
  IF parsed.calls = <<>> THEN Text(st.contentBuf)
  ELSE Text(parsed.text) \o CallEvents(parsed.calls, st.nextIdx)
LEMMA DoneEvents ==
  ASSUME NEW mid, NEW parsed, NEW f
  PROVE  IngestDone(mid, parsed, f).evs
           = (mid.evs \o Rest(mid.st, parsed))
               \o <<Done(f.usage, FinishOf(mid.st.nextIdx + Len(parsed.calls),
                                           MapOllamaDoneReason(f.reason)))>>
BY DEF IngestDone, Rest
LEMMA DrainSound ==
  ASSUME NEW evs, NEW st \in Held, Sound(evs, st.nextIdx), NEW parsed \in Parsed
  PROVE  /\ Sound(evs \o Rest(st, parsed), st.nextIdx + Len(parsed.calls))
         /\ Rest(st, parsed) \in Seq(AnEvent)
<1>1. /\ st.nextIdx \in Nat /\ st.contentBuf \in Seq(Named)
      /\ parsed.calls \in Seq(Calls) /\ parsed.text \in Seq(Named)
  BY DEF Held, Parsed
<1>2. evs \in Seq(AnEvent)
  BY DEF Sound
<1>3. CASE parsed.calls = <<>>
  <2>1. st.nextIdx + Len(parsed.calls) = st.nextIdx
    BY <1>1, <1>3
  <2> QED
    BY <1>1, <1>3, <2>1, TextSound DEF Rest
<1>4. CASE parsed.calls # <<>>
  <2> DEFINE t == Text(parsed.text)
             c == CallEvents(parsed.calls, st.nextIdx)
  <2>1. Sound(evs \o t, st.nextIdx) /\ t \in Seq(AnEvent)
    BY <1>1, TextSound
  <2>2. Sound((evs \o t) \o c, st.nextIdx + Len(parsed.calls)) /\ c \in Seq(AnEvent)
    <3> HIDE DEF t
    <3> QED
      BY <1>1, <2>1, CallsSound
  <2>3. (evs \o t) \o c = evs \o (t \o c) /\ t \o c \in Seq(AnEvent)
    <3> HIDE DEF t, c
    <3> QED
      BY <1>2, <2>1, <2>2, Regrouped
  <2> QED
    BY <1>4, <2>2, <2>3 DEF Rest
<1> QED
  BY <1>3, <1>4

\* An answer that conforms and whose Done agrees with what precedes it.
Complete(evs) ==
  /\ evs \in Seq(AnEvent)
  /\ K1Conforms(evs)
  /\ \A k \in DOMAIN evs : evs[k].kind = "done" => DoneAgrees(SubSeq(evs, 1, k - 1), evs[k])

\* The reasons ingest can report.
LEMMA Finishes ==
  ASSUME NEW n \in Nat, NEW reason
  PROVE  LET finish == FinishOf(n, MapOllamaDoneReason(reason))
         IN  /\ finish \in {"stop", "length", "unknown", "tool_calls"}
             /\ finish = "tool_calls" => n > 0
             /\ n > 0 => finish \notin {"stop", "unknown"}
<1>1. MapOllamaDoneReason(reason) \in {"stop", "length", "unknown"}
  BY DEF MapOllamaDoneReason
<1> QED
  BY <1>1 DEF FinishOf

LEMMA SomeFinish ==
  /\ {"stop", "length", "unknown", "tool_calls"} \subseteq FinishReasons
  /\ NoFinish \notin {"stop", "length", "unknown", "tool_calls"}
<1>1. {"stop", "length", "unknown", "tool_calls"} \subseteq FinishReasons
  BY DEF FinishReasons
<1>2. NoFinish \notin {"stop", "length", "unknown", "tool_calls"}
  BY Zenon DEF NoFinish
<1> QED
  BY <1>1, <1>2

\* The Done may follow.
LEMMA DoneSound ==
  ASSUME NEW n \in Nat, NEW evs, Sound(evs, n), NEW reason,
         NEW u \in Usage, u.source # "nil"
  PROVE  Complete(evs \o <<Done(u, FinishOf(n, MapOllamaDoneReason(reason)))>>)
<1> DEFINE finish == FinishOf(n, MapOllamaDoneReason(reason))
           e == Done(u, finish)
           new == evs \o <<e>>
           L == Len(evs)
<1>1. /\ finish \in {"stop", "length", "unknown", "tool_calls"}
      /\ finish = "tool_calls" => n > 0
      /\ n > 0 => finish \notin {"stop", "unknown"}
      /\ finish \in FinishReasons /\ finish # NoFinish
  <2>1. /\ finish \in {"stop", "length", "unknown", "tool_calls"}
        /\ finish = "tool_calls" => n > 0
        /\ n > 0 => finish \notin {"stop", "unknown"}
    BY Finishes
  <2> HIDE DEF finish
  <2>2. finish \in FinishReasons /\ finish # NoFinish
    BY <2>1, SomeFinish
  <2> QED
    BY <2>1, <2>2
<1> HIDE DEF finish
<1>2. e \in AnEvent /\ e.kind = "done" /\ e.usage = u /\ e.finish = finish
  <2>1. NoText \in Seq(Named)
    BY PieceAssumption
  <2> HIDE DEF Usage
  <2> QED
    BY <1>1, <2>1 DEF Done, Blank, AnEvent
<1> HIDE DEF e
<1>3. evs \in Seq(AnEvent)
  BY DEF Sound
<1>4. /\ new \in Seq(AnEvent) /\ Len(new) = L + 1 /\ L \in Nat
      /\ DOMAIN new = 1..(L + 1) /\ DOMAIN evs = 1..L /\ new[L + 1] = e
      /\ \A k \in 1..L : new[k] = evs[k]
  BY <1>2, <1>3
<1>5. \A k \in 1..L : ConformsAt(new, k) /\ new[k].kind # "done"
  <2>1. <<e>> \in Seq(AnEvent)
    BY <1>2
  <2>2. \A k \in 1..L : k \in 1..(Len(evs) + 1) /\ k # Len(evs) + 1
    BY <1>4
  <2> QED
    BY <1>3, <1>4, <2>1, <2>2, PrefixConforms DEF Sound
<1>6. ConformsAt(new, L + 1)
  BY <1>1, <1>2, <1>4 DEF ConformsAt
<1>7. K1Conforms(new)
  <2> HIDE DEF new, L
  <2>1. \A k \in DOMAIN new : k \in 1..L \/ k = L + 1
    BY <1>4
  <2> QED
    BY <1>5, <1>6, <2>1 DEF K1Conforms
<1>8. SubSeq(new, 1, (L + 1) - 1) = evs
  <2>1. SubSeq(new, 1, L) = evs
    BY <1>2, <1>3
  <2> QED
    BY <1>4, <2>1
<1>9. DoneAgrees(evs, e)
  BY <1>1, <1>2 DEF Sound, DoneAgrees
<1>10. \A k \in DOMAIN new : new[k].kind = "done" => DoneAgrees(SubSeq(new, 1, k - 1), new[k])
  <2> HIDE DEF new, L
  <2>1. \A k \in DOMAIN new : new[k].kind = "done" => k = L + 1
    BY <1>4, <1>5
  <2> QED
    BY <1>4, <1>8, <1>9, <2>1
<1>11. new \in Seq(AnEvent)
  BY <1>4
<1> HIDE DEF new
<1>12. Complete(new)
  BY <1>7, <1>10, <1>11 DEF Complete
<1> QED
  BY <1>12 DEF new, e, finish

LEMMA SoundComplete ==
  ASSUME NEW n, NEW evs, Sound(evs, n)
  PROVE  Complete(evs)
BY DEF Sound, Complete, K1Conforms

\* A body of any frames whose objects have names becomes an answer that conforms.
LEMMA WholeConforms ==
  ASSUME NEW m \in Modes, NEW b \in Bodies(m), ObjectsNamed(b)
  PROVE  Complete(Whole(m, b))
<1> DEFINE n == Len(b)
           r == Run(m, b)
           P == {k \in 0..n : \/ r[k].st \in Held /\ Sound(r[k].evs, r[k].st.nextIdx)
                              \/ k = n /\ Complete(r[k].evs)}
<1>1. b \in Seq(Frame) /\ n \in Nat /\ DOMAIN b = 1..n
  BY BodyAssumption
<1>2. 0 \in P
  <2>1. r[0].evs = <<>> /\ r[0].st = OllamaInit /\ 0 \in 0..n
    <3>1. r[0].evs = <<>>
      BY RunAssumption
    <3>2. r[0].st = OllamaInit
      BY IngestAssumption
    <3> HIDE DEF r, P
    <3> QED
      BY <1>1, <3>1, <3>2
  <2>2. OllamaInit \in Held /\ OllamaInit.nextIdx = 0
    BY DEF OllamaInit, Held
  <2>3. Sound(<<>>, 0)
    BY DEF Sound, CallsClosed
  <2> QED
    BY <2>1, <2>2, <2>3
<1>3. ASSUME NEW k \in 0..n, k # n, k \in P PROVE k + 1 \in P
  <2> DEFINE st == r[k].st
             evs == r[k].evs
             f == b[k + 1]
             mid == IngestContent(m, st, f)
  <2>1. k + 1 \in 1..n /\ k + 1 \in DOMAIN b /\ k + 1 \in 0..n /\ (k + 1) - 1 = k
    <3> HIDE DEF P, n
    <3> QED
      BY <1>1, <1>3
  <2>2. st \in Held /\ Sound(evs, st.nextIdx)
    BY <1>3
  <2>3. /\ f.content \in Seq(Named) /\ f.calls \in Seq(Calls)
        /\ f.usage \in Usage /\ IsLast(f) = f.done /\ (f.done => f.usage.source # "nil")
        /\ FrameEvents(m, st, f) = IngestFrame(m, st, f).evs
        /\ FrameAfter(m, st, f) = IngestFrame(m, st, f).st
    <3>1. /\ f.content \in Seq(Piece) /\ f.calls \in Seq(Calls)
          /\ f.usage \in Usage /\ IsLast(f) = f.done /\ (f.done => f.usage.source # "nil")
          /\ FrameEvents(m, st, f) = IngestFrame(m, st, f).evs
          /\ FrameAfter(m, st, f) = IngestFrame(m, st, f).st
      <4> HIDE DEF P, n
      <4> QED
        BY <2>1, IngestAssumption
    <3>2. f.content \in Seq(Named)
      <4>1. \A j \in DOMAIN f.content : f.content[j] # NoCall
        <5> HIDE DEF P, n
        <5> QED
          BY <2>1 DEF ObjectsNamed
      <4> DEFINE text == f.content
      <4>2. text \in Seq(Piece) /\ \A j \in DOMAIN text : text[j] # NoCall
        BY <3>1, <4>1
      <4> HIDE DEF text, f, P, n
      <4>3. \A j \in 1..Len(text) : text[j] \in Named
        BY <4>2 DEF Named
      <4>4. text \in Seq(Named)
        BY <4>2, <4>3
      <4> QED
        BY <4>4 DEF text
    <3> QED
      BY <3>1, <3>2
  <2>4. r[k + 1].evs = evs \o IngestFrame(m, st, f).evs /\ r[k + 1].st = IngestFrame(m, st, f).st
    <3>1. r[k + 1].evs = evs \o FrameEvents(m, st, f) /\ r[k + 1].st = FrameAfter(m, st, f)
      <4> HIDE DEF P
      <4> QED
        BY <2>1, RunAssumption
    <3> HIDE DEF P, r, st, evs, f
    <3> QED
      BY <2>3, <3>1
  <2>5. IsLast(f) \in BOOLEAN /\ (IsLast(f) => k + 1 = n)
    BY <2>1, BodyAssumption
  <2> HIDE DEF r, st, evs, f
  <2>6. Sound(evs \o mid.evs, mid.st.nextIdx) /\ mid.evs \in Seq(AnEvent) /\ mid.st \in Held
    BY <2>2, <2>3, ContentSound
  <2> HIDE DEF mid
  <2>7. CASE ~f.done
    <3>1. IngestFrame(m, st, f) = mid
      BY <2>7 DEF IngestFrame, Ending, mid
    <3> QED
      BY <2>1, <2>4, <2>6, <3>1
  <2>8. CASE f.done
    <3> DEFINE parsed == Drained(m, mid.st)
               rest == Rest(mid.st, parsed)
               end == Done(f.usage, FinishOf(mid.st.nextIdx + Len(parsed.calls),
                                             MapOllamaDoneReason(f.reason)))
    <3>1. parsed \in Parsed
      <4>1. mid.st.contentBuf \in Seq(Named)
        BY <2>6 DEF Held
      <4>2. NoCalls(mid.st.contentBuf) \in Parsed
        BY <4>1 DEF NoCalls, Parsed
      <4> QED
        BY <4>1, <4>2, ParseType, NamedParsed DEF Drained
    <3> HIDE DEF parsed
    <3>2. /\ Sound((evs \o mid.evs) \o rest, mid.st.nextIdx + Len(parsed.calls))
          /\ rest \in Seq(AnEvent)
      BY <2>6, <3>1, DrainSound
    <3>3. mid.st.nextIdx + Len(parsed.calls) \in Nat
      BY <2>6, <3>1 DEF Held, Parsed
    <3>4. IngestFrame(m, st, f).evs = (mid.evs \o rest) \o <<end>>
      <4>1. IngestFrame(m, st, f) = IngestDone(mid, parsed, f)
        BY <2>8 DEF IngestFrame, Ending, mid, parsed
      <4> QED
        BY <4>1, DoneEvents
    <3> HIDE DEF rest
    <3>5. Complete(((evs \o mid.evs) \o rest) \o <<end>>)
      BY <2>3, <2>8, <3>2, <3>3, DoneSound
    <3>6. end \in AnEvent
      <4> HIDE DEF end
      <4>1. ((evs \o mid.evs) \o rest) \o <<end>> \in Seq(AnEvent)
        BY <3>5 DEF Complete
      <4>2. (evs \o mid.evs) \o rest \in Seq(AnEvent)
        BY <3>2 DEF Sound
      <4> QED
        BY <4>1, <4>2
    <3> HIDE DEF end
    <3>7. ((evs \o mid.evs) \o rest) \o <<end>> = evs \o ((mid.evs \o rest) \o <<end>>)
      <4> DEFINE last == <<end>>
      <4>1. evs \in Seq(AnEvent) /\ last \in Seq(AnEvent)
        BY <2>2, <3>6 DEF Sound
      <4>2. mid.evs \in Seq(AnEvent) /\ rest \in Seq(AnEvent)
        BY <2>6, <3>2
      <4> HIDE DEF last
      <4>3. Chained(Chained(Chained(evs, mid.evs), rest), last)
              = Chained(evs, Chained(Chained(mid.evs, rest), last))
        BY <4>1, <4>2, RegroupedTwice
      <4> QED
        BY <4>3 DEF Chained, last
    <3> QED
      BY <2>1, <2>3, <2>4, <2>5, <2>8, <3>4, <3>5, <3>7
  <2> QED
    BY <2>7, <2>8, <2>3, <2>5
<1>4. \A k \in 0..n : k \in P
  <2> HIDE DEF P, n
  <2> QED
    BY <1>1, <1>2, <1>3, UpTo
<1>5. n \in P
  <2> HIDE DEF P, n
  <2> QED
    BY <1>1, <1>4
<1>6. Complete(r[n].evs)
  BY <1>5, SoundComplete
<1> QED
  BY <1>6 DEF Whole

\* An answer drained to io.EOF satisfies the rules of the conformance helper, and
\* its Done agrees with the calls before it, whatever frames the server sent, as
\* long as the objects in the text have names, in whatever order producer, Next
\* and Close ran.
THEOREM DrainedConformsHolds == Spec => []DrainedConforms
<1>1. IInv => DrainedConforms
  <2> SUFFICES ASSUME IInv, outcome = "eof", Disciplined, ObjectsNamed(body)
               PROVE  Complete(delivered)
    BY DEF DrainedConforms, Complete
  <2>1. delivered = Whole(mode, body)
    BY EndedWhole DEF HasEnded
  <2>2. mode \in Modes /\ body \in Bodies(mode)
    BY DEF IInv, TypeOK
  <2> QED
    BY <2>1, <2>2, WholeConforms
<1> QED
  BY <1>1, IInvHolds, PTL

-----------------------------------------------------------------------------
(* What a drained answer adds up to.                                       *)

\* Events of any pieces and of any objects, the nameless too.
AnyEvent ==
  [kind : {"text", "thinking", "tool_start", "tool_args", "tool_end", "done"},
   text : Seq(Piece), index : Nat \cup {-1}, call : Objects,
   usage : Usage, finish : FinishReasons \cup {NoFinish}]

TextIn == [e \in AnyEvent |-> e.text]
Said == {e \in AnyEvent : e.kind = "text"}
Begun == {e \in AnyEvent : e.kind = "tool_start"}
ArgsFor(i) == {e \in AnyEvent : e.kind = "tool_args" /\ e.index = i}

\* The Starts of some calls, and the arguments on an index, which are those of one call.
StartsFor(calls) == [k \in DOMAIN calls |-> ToolStart(k - 1, calls[k])]
Single(call) == <<Arguments(call)>>
ArgsAt(calls, i) == IF i < Len(calls) THEN Single(calls[i + 1]) ELSE <<>>

\* What events without a Done sum up to: the text, the Starts, the arguments on each
\* index.
Sums(evs, text, starts, args) ==
  /\ evs \in Seq(AnyEvent) /\ \A k \in DOMAIN evs : evs[k].kind # "done"
  /\ FlattenSeq(Picked(TextIn, evs, Said)) = text
  /\ Kept(evs, Begun) = starts
  /\ \A i \in Nat : Picked(TextIn, evs, ArgsFor(i)) = args[i]

\* They tell a text and some calls, one index after the other.
Told(evs, text, calls) == Sums(evs, text, StartsFor(calls), [i \in Nat |-> ArgsAt(calls, i)])

LEMMA TextInType == TextIn \in [AnyEvent -> Seq(Piece)]
BY DEF TextIn, AnyEvent

LEMMA ToldNothing == Told(<<>>, <<>>, <<>>)
<1>1. /\ FlattenSeq(<<>>) = <<>> /\ \A T : Picked(TextIn, <<>>, T) = <<>>
  BY FlattenEmpty, PickedEmpty
<1>2. \A T : Kept(<<>>, T) = <<>>
  BY KeptEmpty
<1>3. StartsFor(<<>>) = <<>> /\ \A i \in Nat : ArgsAt(<<>>, i) = <<>>
  BY DEF StartsFor, ArgsAt
<1>4. <<>> \in Seq(AnyEvent) /\ DOMAIN <<>> = {}
  OBVIOUS
<1> QED
  BY <1>1, <1>2, <1>3, <1>4 DEF Told, Sums

\* One event more.
LEMMA SumsMore ==
  ASSUME NEW text, NEW starts, NEW args, NEW evs, Sums(evs, text, starts, args),
         NEW e \in AnyEvent, e.kind # "done"
  PROVE  Sums(Append(evs, e),
              IF e.kind = "text" THEN text \o e.text ELSE text,
              IF e.kind = "tool_start" THEN Append(starts, e) ELSE starts,
              [i \in Nat |-> IF e.kind = "tool_args" /\ e.index = i THEN Append(args[i], e.text) ELSE args[i]])
<1>1. evs \in Seq(AnyEvent) /\ TextIn \in [AnyEvent -> Seq(Piece)] /\ TextIn[e] = e.text
  BY TextInType DEF Sums, TextIn
<1>2. /\ Append(evs, e) \in Seq(AnyEvent)
      /\ \A k \in DOMAIN Append(evs, e) : Append(evs, e)[k].kind # "done"
  <2> DEFINE new == Append(evs, e)
  <2>1. new \in Seq(AnyEvent) /\ DOMAIN new = DOMAIN evs \cup {Len(evs) + 1} /\ new[Len(evs) + 1] = e
        /\ \A k \in DOMAIN evs : new[k] = evs[k]
    BY <1>1
  <2> HIDE DEF new
  <2>2. \A k \in DOMAIN evs : evs[k].kind # "done"
    BY DEF Sums
  <2>3. \A k \in DOMAIN new : new[k].kind # "done"
    BY <2>1, <2>2, Zenon
  <2> QED
    BY <2>1, <2>3 DEF new
<1>3. FlattenSeq(Picked(TextIn, Append(evs, e), Said)) = IF e.kind = "text" THEN text \o e.text ELSE text
  <2> DEFINE said == Picked(TextIn, evs, Said)
  <2>1. PickedLonger(TextIn, evs, e, Said)
    BY <1>1, PickedAppend
  <2>2. said \in Seq(Seq(Piece)) /\ e.text \in Seq(Piece)
    BY <1>1, PickedType DEF AnyEvent
  <2>3. FlattenSeq(said) = text /\ (e \in Said <=> e.kind = "text")
    BY DEF Sums, Said
  <2>4. Picked(TextIn, Append(evs, e), Said) = IF e \in Said THEN Append(said, e.text) ELSE said
    BY <1>1, <2>1, Zenon DEF PickedLonger
  <2> HIDE DEF said
  <2>5. FlattenLonger(said, e.text)
    BY <2>2, FlattenAppend
  <2> QED
    BY <2>3, <2>4, <2>5, Zenon DEF FlattenLonger
<1>4. Kept(Append(evs, e), Begun) = IF e.kind = "tool_start" THEN Append(starts, e) ELSE starts
  <2>1. KeptLonger(evs, e, Begun)
    BY <1>1, KeptAppend
  <2>2. Kept(evs, Begun) = starts /\ (e \in Begun <=> e.kind = "tool_start")
    BY DEF Sums, Begun
  <2> QED
    BY <2>1, <2>2, Zenon DEF KeptLonger
<1>5. ASSUME NEW i \in Nat
      PROVE  Picked(TextIn, Append(evs, e), ArgsFor(i))
               = IF e.kind = "tool_args" /\ e.index = i THEN Append(args[i], e.text) ELSE args[i]
  <2>1. PickedLonger(TextIn, evs, e, ArgsFor(i))
    BY <1>1, PickedAppend
  <2>2. Picked(TextIn, evs, ArgsFor(i)) = args[i] /\ (e \in ArgsFor(i) <=> e.kind = "tool_args" /\ e.index = i)
    BY DEF Sums, ArgsFor
  <2> QED
    BY <1>1, <2>1, <2>2, Zenon DEF PickedLonger
<1> QED
  BY <1>2, <1>3, <1>4, <1>5 DEF Sums

\* What the events of an answer are made of.
LEMMA AnyText ==
  ASSUME NEW pieces \in Seq(Piece)
  PROVE  TextDelta(pieces) \in AnyEvent /\ TextDelta(pieces).kind = "text" /\ TextDelta(pieces).text = pieces
<1>1. NoUsage \in Usage /\ NoCall \in Objects
  BY DEF Usage, Objects
<1> QED
  BY <1>1 DEF TextDelta, Blank, AnyEvent

LEMMA AnyCall ==
  ASSUME NEW n \in Nat, NEW call \in Objects
  PROVE  /\ ToolStart(n, call) \in AnyEvent /\ ToolStart(n, call).kind = "tool_start"
         /\ ToolStart(n, call).index = n /\ ToolStart(n, call).call = call
         /\ ToolArgs(n, NoCall, Arguments(call)) \in AnyEvent /\ ToolArgs(n, NoCall, Arguments(call)).kind = "tool_args"
         /\ ToolArgs(n, NoCall, Arguments(call)).index = n /\ ToolArgs(n, NoCall, Arguments(call)).text = Arguments(call)
         /\ ToolEnd(n, NoCall) \in AnyEvent /\ ToolEnd(n, NoCall).kind = "tool_end"
<1>1. NoUsage \in Usage /\ NoCall \in Objects
  BY DEF Usage, Objects
<1>2. Arguments(call) \in Seq(Piece) /\ NoText \in Seq(Piece)
  BY ArgumentsType, PieceAssumption
<1> QED
  BY <1>1, <1>2 DEF ToolStart, ToolArgs, ToolEnd, Blank, AnyEvent

\* Text may follow,
LEMMA TextTold ==
  ASSUME NEW text \in Seq(Piece), NEW calls, NEW evs, Told(evs, text, calls), NEW pieces \in Seq(Piece)
  PROVE  Told(evs \o Text(pieces), text \o pieces, calls) /\ Text(pieces) \in Seq(AnyEvent)
<1>0. evs \in Seq(AnyEvent)
  BY DEF Told, Sums
<1>1. CASE pieces = <<>>
  <2>1. Text(pieces) = <<>> /\ evs \o <<>> = evs /\ text \o pieces = text /\ <<>> \in Seq(AnyEvent)
    BY <1>0, <1>1, ConcatEmptySeq DEF Text
  <2> QED
    BY <2>1
<1>2. CASE pieces # <<>>
  <2> DEFINE e == TextDelta(pieces)
  <2>1. Text(pieces) = <<e>>
    BY <1>2 DEF Text
  <2>2. e \in AnyEvent /\ e.kind = "text" /\ e.text = pieces
    BY AnyText
  <2> HIDE DEF e
  <2>3. evs \o <<e>> = Append(evs, e) /\ <<e>> \in Seq(AnyEvent)
    BY <1>0, <2>2
  <2> DEFINE args == [i \in Nat |-> ArgsAt(calls, i)]
             more == [i \in Nat |-> IF e.kind = "tool_args" /\ e.index = i THEN Append(args[i], e.text)
                                    ELSE args[i]]
  <2>4. Sums(evs, text, StartsFor(calls), args) /\ e.kind # "done"
    BY <2>2 DEF Told
  <2>5. more = args
    BY <2>2
  <2> HIDE DEF args
  <2>6. Told(Append(evs, e), text \o pieces, calls)
    <3>1. Sums(Append(evs, e), IF e.kind = "text" THEN text \o e.text ELSE text,
               IF e.kind = "tool_start" THEN Append(StartsFor(calls), e) ELSE StartsFor(calls), more)
      BY <2>2, <2>4, SumsMore
    <3>2. Sums(Append(evs, e), text \o pieces, StartsFor(calls), args)
      BY <2>2, <2>5, <3>1
    <3> QED
      BY <3>2 DEF Told, args
  <2> QED
    BY <2>1, <2>3, <2>6
<1> QED
  BY <1>1, <1>2

\* or one call, on the next index.
LEMMA CallTold ==
  ASSUME NEW text, NEW calls \in Seq(Objects), NEW evs, Told(evs, text, calls), NEW call \in Objects
  PROVE  /\ Told(evs \o Whole1(Len(calls), call), text, Append(calls, call))
         /\ Whole1(Len(calls), call) \in Seq(AnyEvent)
<1> DEFINE n == Len(calls)
           more == Append(calls, call)
           s == ToolStart(n, call)
           a == ToolArgs(n, NoCall, Arguments(call))
           e == ToolEnd(n, NoCall)
           one == Append(evs, s)
           two == Append(one, a)
           all == Append(two, e)
           args == [i \in Nat |-> ArgsAt(calls, i)]
           longer == [i \in Nat |-> IF i = n THEN Append(args[i], Arguments(call)) ELSE args[i]]
           starts == StartsFor(calls)
           started == Append(starts, s)
<1>1. evs \in Seq(AnyEvent) /\ n \in Nat
  BY DEF Told, Sums
<1>2. /\ s \in AnyEvent /\ s.kind = "tool_start"
      /\ a \in AnyEvent /\ a.kind = "tool_args" /\ a.index = n /\ a.text = Arguments(call)
      /\ e \in AnyEvent /\ e.kind = "tool_end"
  BY <1>1, AnyCall
<1>3. Whole1(n, call) = <<s, a, e>>
  BY DEF Whole1
<1>5. /\ more \in Seq(Objects) /\ Len(more) = n + 1 /\ more[n + 1] = call
      /\ \A k \in 1..n : more[k] = calls[k]
  OBVIOUS
<1>6. StartsFor(more) = Append(starts, s)
  <2> DEFINE f == StartsFor(more)
             g == StartsFor(calls)
             U == {ToolStart(k - 1, more[k]) : k \in 1..(n + 1)}
  <2>1. DOMAIN more = 1..(n + 1) /\ DOMAIN calls = 1..n
    BY <1>5
  <2> HIDE DEF more
  <2>2. f \in [1..(n + 1) -> U] /\ f[n + 1] = s
    BY <1>1, <1>5, <2>1 DEF StartsFor
  <2>3. g \in [1..n -> U] /\ \A k \in 1..n : g[k] = f[k]
    BY <1>1, <1>5, <2>1 DEF StartsFor
  <2>0. n \in Nat
    BY <1>1
  <2> HIDE DEF n, s, f, g, U, starts
  <2>4. s \in U
    BY <2>0, <2>2
  <2>5. f \in Seq(U) /\ g \in Seq(U) /\ Len(f) = n + 1 /\ Len(g) = n
    BY <2>0, <2>2, <2>3
  <2>6. /\ Append(g, s) \in Seq(U) /\ Len(Append(g, s)) = n + 1
        /\ \A k \in 1..(n + 1) : Append(g, s)[k] = f[k]
    BY <2>0, <2>2, <2>3, <2>4, <2>5
  <2>7. f = Append(g, s)
    BY <2>5, <2>6, SeqEqual
  <2> QED
    BY <2>7 DEF f, g, starts
<1>7. longer = [i \in Nat |-> ArgsAt(more, i)]
  <2> SUFFICES ASSUME NEW i \in Nat
               PROVE  ArgsAt(more, i) = IF i = n THEN Append(ArgsAt(calls, i), Arguments(call)) ELSE ArgsAt(calls, i)
    OBVIOUS
  <2>1. CASE i < n
    <3>1. i + 1 \in 1..n /\ i < Len(more) /\ i # n
      BY <1>1, <1>5, <2>1
    <3> QED
      BY <1>5, <2>1, <3>1 DEF ArgsAt
  <2>2. CASE i = n
    <3>1. i < Len(more) /\ ~(i < Len(calls)) /\ i + 1 = n + 1
      BY <1>1, <1>5, <2>2
    <3>2. ArgsAt(more, i) = Single(call) /\ ArgsAt(calls, i) = <<>>
      BY <1>5, <3>1 DEF ArgsAt
    <3>3. Append(<<>>, Arguments(call)) = Single(call)
      BY DEF Single
    <3> QED
      BY <2>2, <3>2, <3>3
  <2>3. CASE i > n
    <3>1. ~(i < Len(more)) /\ ~(i < Len(calls)) /\ i # n
      BY <1>1, <1>5, <2>3
    <3> QED
      BY <3>1 DEF ArgsAt
  <2> QED
    BY <1>1, <2>1, <2>2, <2>3
<1>8. evs \o <<s, a, e>> = all /\ <<s, a, e>> \in Seq(AnyEvent)
  <2> HIDE DEF s, a, e
  <2> QED
    BY <1>1, <1>2
<1>9. Sums(evs, text, starts, args)
  BY DEF Told
<1> HIDE DEF s, a, e, more, args, starts
<1>10. Sums(one, text, started, args)
  <2>1. Sums(one, IF s.kind = "text" THEN text \o s.text ELSE text,
             IF s.kind = "tool_start" THEN started ELSE starts,
             [i \in Nat |-> IF s.kind = "tool_args" /\ s.index = i THEN Append(args[i], s.text) ELSE args[i]])
    BY <1>2, <1>9, SumsMore DEF started
  <2>2. [i \in Nat |-> IF s.kind = "tool_args" /\ s.index = i THEN Append(args[i], s.text) ELSE args[i]] = args
    BY <1>2 DEF args
  <2> QED
    BY <1>2, <2>1, <2>2
<1> HIDE DEF one, started
<1>11. Sums(two, text, started, longer)
  <2>1. Sums(two, IF a.kind = "text" THEN text \o a.text ELSE text,
             IF a.kind = "tool_start" THEN Append(started, a) ELSE started,
             [i \in Nat |-> IF a.kind = "tool_args" /\ a.index = i THEN Append(args[i], a.text) ELSE args[i]])
    <3>1. a \in AnyEvent /\ a.kind # "done"
      BY <1>2
    <3> QED
      BY <1>10, <3>1, SumsMore
  <2>2. [i \in Nat |-> IF a.kind = "tool_args" /\ a.index = i THEN Append(args[i], a.text) ELSE args[i]] = longer
    BY <1>2 DEF longer
  <2> QED
    BY <1>2, <2>1, <2>2
<1> HIDE DEF two, longer
<1>12. Sums(all, text, started, longer)
  <2>1. Sums(all, IF e.kind = "text" THEN text \o e.text ELSE text,
             IF e.kind = "tool_start" THEN Append(started, e) ELSE started,
             [i \in Nat |-> IF e.kind = "tool_args" /\ e.index = i THEN Append(longer[i], e.text) ELSE longer[i]])
    <3>1. e \in AnyEvent /\ e.kind # "done"
      BY <1>2
    <3> QED
      BY <1>11, <3>1, SumsMore
  <2>2. [i \in Nat |-> IF e.kind = "tool_args" /\ e.index = i THEN Append(longer[i], e.text) ELSE longer[i]] = longer
    BY <1>2 DEF longer
  <2> QED
    BY <1>2, <2>1, <2>2
<1>13. Told(all, text, more)
  BY <1>6, <1>7, <1>12 DEF Told, started, longer
<1> QED
  BY <1>3, <1>8, <1>13 DEF more

\* A sequence that is longer by one.
LEMMA LongerByOne ==
  ASSUME NEW S, NEW s \in Seq(S), NEW x \in S, NEW f \in Seq(S), Len(f) = Len(s) + 1,
         f[Len(s) + 1] = x, \A k \in 1..Len(s) : f[k] = s[k]
  PROVE  f = Append(s, x)
<1>1. /\ Append(s, x) \in Seq(S) /\ Len(Append(s, x)) = Len(s) + 1
      /\ \A k \in 1..(Len(s) + 1) : Append(s, x)[k] = f[k]
  OBVIOUS
<1> QED
  BY <1>1, SeqEqual

AddedAfter(s, t, x) == Append(s \o t, x) = s \o Append(t, x)
LEMMA AppendAfter ==
  ASSUME NEW S, NEW s \in Seq(S), NEW t \in Seq(S), NEW x \in S
  PROVE  AddedAfter(s, t, x)
BY DEF AddedAfter

\* The events of some calls, call by call.
CallByCall(calls, n) == [k \in DOMAIN calls |-> Whole1(n + k - 1, calls[k])]
LEMMA EventsByCall ==
  ASSUME NEW n \in Nat, NEW calls \in Seq(Objects)
  PROVE  CallEvents(calls, n) = FlattenSeq(CallByCall(calls, n))
<1>1. \A k \in DOMAIN calls : CallIndex(n, k) = n + k - 1
  BY DEF CallIndex
<1>2. [k \in DOMAIN calls |-> <<ToolStart(CallIndex(n, k), calls[k]),
                                ToolArgs(CallIndex(n, k), NoCall, Arguments(calls[k])),
                                ToolEnd(CallIndex(n, k), NoCall)>>] = CallByCall(calls, n)
  BY <1>1 DEF Whole1, CallByCall
<1> QED
  BY <1>2 DEF CallEvents

LEMMA WholeCallType ==
  ASSUME NEW n \in Nat, NEW call \in Objects
  PROVE  Whole1(n, call) \in Seq(AnyEvent)
<1> DEFINE s == ToolStart(n, call)
           a == ToolArgs(n, NoCall, Arguments(call))
           e == ToolEnd(n, NoCall)
<1>1. s \in AnyEvent /\ a \in AnyEvent /\ e \in AnyEvent
  BY AnyCall
<1>2. Whole1(n, call) = <<s, a, e>>
  BY DEF Whole1
<1> HIDE DEF s, a, e
<1> QED
  BY <1>1, <1>2

\* One call more.
LEMMA EventsLonger ==
  ASSUME NEW n \in Nat, NEW calls \in Seq(Objects), NEW call \in Objects
  PROVE  CallEvents(Append(calls, call), n) = CallEvents(calls, n) \o Whole1(n + Len(calls), call)
<1> DEFINE m == Len(calls)
           more == Append(calls, call)
           seqs == CallByCall(calls, n)
           f == CallByCall(more, n)
           one == Whole1(n + m, call)
           A == Seq(AnyEvent)
<1>1. /\ m \in Nat /\ DOMAIN calls = 1..m /\ \A k \in 1..m : calls[k] \in Objects /\ n + k - 1 \in Nat
      /\ more \in Seq(Objects) /\ Len(more) = m + 1 /\ DOMAIN more = 1..(m + 1) /\ more[m + 1] = call
      /\ \A k \in 1..m : more[k] = calls[k]
      /\ n + m \in Nat /\ n + (m + 1) - 1 = n + m
  OBVIOUS
<1> HIDE DEF m, more
<1>2. one \in A
  BY <1>1, WholeCallType
<1>3. seqs \in Seq(A) /\ Len(seqs) = m /\ \A k \in 1..m : seqs[k] = Whole1(n + k - 1, calls[k])
  <2>1. \A k \in 1..m : Whole1(n + k - 1, calls[k]) \in A
    BY <1>1, WholeCallType
  <2> HIDE DEF A
  <2> QED
    BY <1>1, <2>1 DEF CallByCall
<1>4. f = Append(seqs, one)
  <2>1. /\ DOMAIN f = 1..(m + 1) /\ f[m + 1] = one /\ \A k \in 1..m : f[k] = seqs[k]
        /\ f = [k \in 1..(m + 1) |-> f[k]]
    BY <1>1, <1>3 DEF CallByCall
  <2>0. m \in Nat /\ (\A k \in 1..m : seqs[k] \in A) /\ one \in A /\ seqs \in Seq(A) /\ Len(seqs) = m
    <3> HIDE DEF seqs, one, A
    <3> QED
      BY <1>1, <1>2, <1>3
  <2> HIDE DEF f, seqs, one, A
  <2>2. f \in Seq(A) /\ Len(f) = m + 1
    <3>1. \A k \in 1..(m + 1) : f[k] \in A
      <4> SUFFICES ASSUME NEW k \in 1..(m + 1) PROVE f[k] \in A
        OBVIOUS
      <4>1. CASE k = m + 1
        BY <1>2, <2>1, <4>1
      <4>2. CASE k # m + 1
        <5>1. k \in 1..m
          BY <2>0, <4>2
        <5> QED
          BY <2>0, <2>1, <5>1
      <4> QED
        BY <4>1, <4>2
    <3>2. f \in [1..(m + 1) -> A]
      BY <2>1, <3>1
    <3> QED
      BY <1>1, <3>2
  <2> QED
    BY <2>0, <2>1, <2>2, LongerByOne
<1>5. FlattenSeq(Append(seqs, one)) = FlattenSeq(seqs) \o one
  <2> HIDE DEF seqs, one
  <2>1. FlattenLonger(seqs, one)
    BY <1>2, <1>3, FlattenAppend
  <2> QED
    BY <2>1 DEF FlattenLonger
<1>6. CallEvents(more, n) = FlattenSeq(f) /\ CallEvents(calls, n) = FlattenSeq(seqs)
  BY <1>1, EventsByCall
<1> QED
  BY <1>4, <1>5, <1>6 DEF m, more

\* Or some calls, on the next indexes.
LEMMA CallsTold ==
  ASSUME NEW text, NEW calls \in Seq(Objects), NEW evs, Told(evs, text, calls), NEW more \in Seq(Objects)
  PROVE  /\ Told(evs \o CallEvents(more, Len(calls)), text, calls \o more)
         /\ CallEvents(more, Len(calls)) \in Seq(AnyEvent)
<1> DEFINE n == Len(calls)
           P == {t \in Seq(Objects) : /\ Told(evs \o CallEvents(t, n), text, calls \o t)
                                      /\ CallEvents(t, n) \in Seq(AnyEvent)}
<1>0. n \in Nat /\ evs \in Seq(AnyEvent)
  BY DEF Told, Sums
<1>1. <<>> \in P
  <2>1. CallByCall(<<>>, n) = <<>>
    BY DEF CallByCall
  <2>2. CallEvents(<<>>, n) = <<>> /\ <<>> \in Seq(Objects) /\ <<>> \in Seq(AnyEvent)
    <3>1. <<>> \in Seq(Objects)
      OBVIOUS
    <3> HIDE DEF n
    <3>2. CallEvents(<<>>, n) = FlattenSeq(CallByCall(<<>>, n))
      BY <1>0, <3>1, EventsByCall
    <3> QED
      BY <2>1, <3>1, <3>2, FlattenEmpty
  <2>3. evs \o <<>> = evs /\ calls \o <<>> = calls
    BY <1>0, ConcatEmptySeq
  <2> QED
    BY <2>2, <2>3
<1>2. ASSUME NEW t \in Seq(Objects), NEW x \in Objects, t \in P
      PROVE  Append(t, x) \in P
  <2> DEFINE before == evs \o CallEvents(t, n)
             all == calls \o t
             one == Whole1(n + Len(t), x)
  <2>1. Told(before, text, all) /\ CallEvents(t, n) \in Seq(AnyEvent)
    BY <1>2
  <2>2. /\ all \in Seq(Objects) /\ Len(all) = n + Len(t)
        /\ Append(all, x) = calls \o Append(t, x) /\ Append(t, x) \in Seq(Objects)
    <3> HIDE DEF P
    <3>1. all \in Seq(Objects) /\ Len(all) = n + Len(t) /\ Append(t, x) \in Seq(Objects)
      OBVIOUS
    <3>2. Append(all, x) = calls \o Append(t, x)
      <4>1. AddedAfter(calls, t, x)
        BY AppendAfter
      <4> QED
        BY <4>1 DEF AddedAfter
    <3> QED
      BY <3>1, <3>2
  <2> HIDE DEF before, all, n
  <2>3. Told(before \o one, text, Append(all, x)) /\ one \in Seq(AnyEvent)
    BY <2>1, <2>2, CallTold
  <2>4. CallEvents(Append(t, x), n) = CallEvents(t, n) \o one
    BY <1>0, EventsLonger
  <2> HIDE DEF one
  <2>5. CallEvents(Append(t, x), n) \in Seq(AnyEvent)
    BY <2>1, <2>3, <2>4
  <2>6. before \o one = evs \o CallEvents(Append(t, x), n)
    <3> DEFINE some == CallEvents(t, n)
    <3>1. (evs \o some) \o one = evs \o (some \o one)
      <4>1. evs \in Seq(AnyEvent) /\ some \in Seq(AnyEvent) /\ one \in Seq(AnyEvent)
        BY <1>0, <2>1, <2>3
      <4> HIDE DEF some
      <4> QED
        BY <4>1, ConcatAssociative
    <3> QED
      BY <2>4, <3>1 DEF before
  <2> QED
    BY <2>2, <2>3, <2>5, <2>6
<1>3. \A t \in Seq(Objects), x \in Objects : t \in P => Append(t, x) \in P
  BY <1>2
<1> HIDE DEF P
<1>4. more \in P
  BY <1>1, <1>3, BuiltUp
<1> QED
  BY <1>4 DEF P

BothWithIds(s, t) == WithIds(s \o t) = WithIds(s) \o WithIds(t)
LEMMA WithIdsOfBoth ==
  ASSUME NEW s \in Seq(Objects), NEW t \in Seq(Objects)
  PROVE  BothWithIds(s, t)
<1> DEFINE both == s \o t
<1>1. both \in Seq(Objects)
  OBVIOUS
<1>2. EachOfBoth(Identified, s, t)
  BY EachConcat
<1> HIDE DEF both
<1>3. WithIds(both) = Each(Identified, both) /\ WithIds(s) = Each(Identified, s) /\ WithIds(t) = Each(Identified, t)
  BY <1>1, WithIdsType
<1> QED
  BY <1>2, <1>3 DEF EachOfBoth, BothWithIds, both

-----------------------------------------------------------------------------
(* What an answer adds up to when some frames were taken in: the content and the *)
(* calls of all of them, the content withheld for the parser apart.        *)

Holding(m, calls) == BufferContent(m) /\ calls = <<>>
Tells(m, evs, st, content, calls) ==
  /\ content \in Seq(Piece) /\ calls \in Seq(Objects)
  /\ st.nextIdx = Len(calls)
  /\ st.contentBuf = (IF Holding(m, calls) THEN content ELSE <<>>)
  /\ Told(evs, IF Holding(m, calls) THEN <<>> ELSE content, calls)

\* A frame that comes pushes the withheld content out, adds to it, or is told at once.
TakenIn(m, st, content, calls, f) ==
  LET pushed == IF f.calls # <<>> THEN st.contentBuf ELSE <<>>
      said == IF Withheld(m, st, f) THEN <<>> ELSE f.content
      was == IF Holding(m, calls) THEN <<>> ELSE content
      holding == Holding(m, calls \o WithIds(f.calls))
  IN  /\ pushed \in Seq(Piece) /\ said \in Seq(Piece) /\ was \in Seq(Piece)
      /\ (was \o pushed) \o said = IF holding THEN <<>> ELSE content \o f.content
      /\ (IF f.calls # <<>> THEN <<>> ELSE st.contentBuf)
           \o (IF Withheld(m, st, f) THEN f.content ELSE <<>>)
           = IF holding THEN content \o f.content ELSE <<>>
LEMMA HoldsOrTells ==
  ASSUME NEW m, NEW st, NEW content \in Seq(Piece), NEW calls \in Seq(Objects), st.nextIdx = Len(calls),
         st.contentBuf = (IF Holding(m, calls) THEN content ELSE <<>>),
         NEW f, f.content \in Seq(Piece), f.calls \in Seq(Objects)
  PROVE  TakenIn(m, st, content, calls, f)
<1> DEFINE all == calls \o WithIds(f.calls)
<1>1. /\ <<>> \in Seq(Piece) /\ content \o f.content \in Seq(Piece)
      /\ content \o <<>> = content /\ <<>> \o content = content /\ <<>> \o <<>> = <<>>
      /\ <<>> \o f.content = f.content
  <2>1. \A s \in Seq(Piece) : s \o <<>> = s /\ <<>> \o s = s
    BY ConcatEmptySeq
  <2>2. <<>> \in Seq(Piece) /\ content \o f.content \in Seq(Piece)
    OBVIOUS
  <2> QED
    BY <2>1, <2>2
<1>2. all = <<>> <=> calls = <<>> /\ f.calls = <<>>
  <2> DEFINE native == f.calls
             more == WithIds(native)
  <2>1. native \in Seq(Objects)
    OBVIOUS
  <2> HIDE DEF native
  <2>2. more \in Seq(Objects) /\ (more = <<>> <=> native = <<>>)
    BY <2>1, WithIdsType
  <2> HIDE DEF more
  <2>3. calls \o more = <<>> <=> calls = <<>> /\ more = <<>>
    BY <2>2
  <2> QED
    BY <2>2, <2>3 DEF more, native
<1>3. Withheld(m, st, f) <=> Holding(m, calls) /\ f.calls = <<>>
  <2>1. Len(calls) = 0 <=> calls = <<>>
    OBVIOUS
  <2> QED
    BY <2>1 DEF Withheld, Holding
<1>4. Holding(m, all) <=> Withheld(m, st, f)
  BY <1>2, <1>3 DEF Holding
<1> HIDE DEF all
<1>5. CASE Withheld(m, st, f)
  BY <1>1, <1>3, <1>4, <1>5, Zenon DEF all, TakenIn
<1>6. CASE ~Withheld(m, st, f) /\ Holding(m, calls)
  BY <1>1, <1>3, <1>4, <1>6, Zenon DEF all, TakenIn
<1>7. CASE ~Holding(m, calls)
  BY <1>1, <1>3, <1>4, <1>7, Zenon DEF all, TakenIn
<1> QED
  BY <1>5, <1>6, <1>7

\* What a frame of content and calls becomes.
LEMMA FrameTold ==
  ASSUME NEW m, NEW evs, NEW st, NEW content, NEW calls, Tells(m, evs, st, content, calls),
         NEW f, f.content \in Seq(Piece), f.calls \in Seq(Objects)
  PROVE  /\ Tells(m, evs \o IngestContent(m, st, f).evs, IngestContent(m, st, f).st,
                  content \o f.content, calls \o WithIds(f.calls))
         /\ IngestContent(m, st, f).evs \in Seq(AnyEvent)
<1> DEFINE told == WithIds(f.calls)
           pushed == IF f.calls # <<>> THEN st.contentBuf ELSE <<>>
           said == IF Withheld(m, st, f) THEN <<>> ELSE f.content
           was == IF Holding(m, calls) THEN <<>> ELSE content
           is == IF Holding(m, calls \o told) THEN <<>> ELSE content \o f.content
           buf == (IF f.calls # <<>> THEN <<>> ELSE st.contentBuf)
                    \o (IF Withheld(m, st, f) THEN f.content ELSE <<>>)
           a == Text(pushed)
           b == Text(said)
           c == CallEvents(told, Len(calls))
           mid == IngestContent(m, st, f)
<1>0. told \in Seq(Objects) /\ Len(told) = Len(f.calls)
  <2> DEFINE native == f.calls
  <2>1. native \in Seq(Objects)
    OBVIOUS
  <2> HIDE DEF native
  <2>2. WithIds(native) \in Seq(Objects) /\ Len(WithIds(native)) = Len(native)
    BY <2>1, WithIdsType
  <2> QED
    BY <2>2 DEF native
<1>1. /\ content \in Seq(Piece) /\ calls \in Seq(Objects) /\ st.nextIdx = Len(calls)
      /\ st.contentBuf = (IF Holding(m, calls) THEN content ELSE <<>>)
      /\ Told(evs, was, calls)
  BY DEF Tells
<1>2. /\ pushed \in Seq(Piece) /\ said \in Seq(Piece) /\ was \in Seq(Piece)
      /\ (was \o pushed) \o said = is
      /\ buf = IF Holding(m, calls \o told) THEN content \o f.content ELSE <<>>
  <2>1. TakenIn(m, st, content, calls, f)
    BY <1>1, HoldsOrTells
  <2> QED
    BY <2>1, Zenon DEF TakenIn
<1>3. /\ mid.evs = (a \o b) \o c
      /\ mid.st.nextIdx = Len(calls) + Len(told) /\ mid.st.contentBuf = buf
  <2>1. Text(<<>>) = <<>>
    BY DEF Text
  <2>2. /\ Flushed(st, f) = a
        /\ (IF Withheld(m, st, f) THEN <<>> ELSE Text(f.content)) = b
    BY <2>1, Zenon DEF Flushed
  <2>3. mid.st.nextIdx = Len(calls) + Len(told)
    BY <1>0, <1>1 DEF IngestContent
  <2>4. mid.evs = (a \o b) \o c
    <3> HIDE DEF a, b
    <3> QED
      BY <1>1, <2>2 DEF IngestContent
  <2>5. mid.st.contentBuf = buf
    BY DEF IngestContent
  <2> QED
    BY <2>3, <2>4, <2>5
<1> HIDE DEF told, pushed, said, was, is, buf, mid
<1>4. Told(evs \o a, was \o pushed, calls) /\ a \in Seq(AnyEvent)
  BY <1>1, <1>2, TextTold
<1>5. Told((evs \o a) \o b, is, calls) /\ b \in Seq(AnyEvent)
  <2>1. was \o pushed \in Seq(Piece)
    BY <1>2
  <2> DEFINE text == was \o pushed
             before == evs \o a
  <2> HIDE DEF a, text, before
  <2>2. Told(before \o b, text \o said, calls) /\ b \in Seq(AnyEvent)
    <3>1. Told(before, text, calls) /\ text \in Seq(Piece)
      BY <1>4, <2>1 DEF before, text
    <3> QED
      BY <1>2, <3>1, TextTold
  <2> QED
    BY <1>2, <2>2 DEF before, text
<1>6. Told(((evs \o a) \o b) \o c, is, calls \o told) /\ c \in Seq(AnyEvent)
  <2> DEFINE before == (evs \o a) \o b
  <2> HIDE DEF before
  <2>1. Told(before, is, calls)
    BY <1>5 DEF before
  <2>2. Told(before \o c, is, calls \o told) /\ c \in Seq(AnyEvent)
    BY <1>0, <1>1, <2>1, CallsTold
  <2> QED
    BY <2>2 DEF before
<1>7. ((evs \o a) \o b) \o c = evs \o mid.evs /\ mid.evs \in Seq(AnyEvent)
  <2>1. evs \in Seq(AnyEvent)
    BY <1>1 DEF Told, Sums
  <2> HIDE DEF a, b, c
  <2>2. Chained(Chained(Chained(evs, a), b), c) = Chained(evs, Chained(Chained(a, b), c))
    BY <1>4, <1>5, <1>6, <2>1, RegroupedTwice
  <2>3. (a \o b) \o c \in Seq(AnyEvent)
    BY <1>4, <1>5, <1>6
  <2> QED
    BY <1>3, <2>2, <2>3 DEF Chained
<1>8. /\ content \o f.content \in Seq(Piece) /\ calls \o told \in Seq(Objects)
      /\ Len(calls \o told) = Len(calls) + Len(told)
  <2>1. calls \o told \in Seq(Objects) /\ Len(calls \o told) = Len(calls) + Len(told)
    <3>1. calls \in Seq(Objects) /\ told \in Seq(Objects)
      BY <1>0, <1>1
    <3> QED
      BY <3>1, ConcatProperties
  <2>2. content \o f.content \in Seq(Piece)
    BY <1>1
  <2> QED
    BY <2>1, <2>2
<1>9. Told(evs \o mid.evs, is, calls \o told)
  BY <1>6, <1>7, Zenon
<1>10. Tells(m, evs \o mid.evs, mid.st, content \o f.content, calls \o told)
  BY <1>2, <1>3, <1>8, <1>9, Zenon DEF Tells, is
<1> QED
  BY <1>7, <1>10 DEF mid, told

-----------------------------------------------------------------------------
(* At the Done frame the withheld content goes through the parser, which Generate *)
(* applies to the content of the whole message.                            *)

ToldAs(evs, gen) ==
  /\ gen.calls \in Seq(Objects)
  /\ \E text : Told(evs, text, gen.calls) /\ (gen.calls # <<>> => text = gen.text)

\* What the Done frame adds before the Done.
DoneAsTold(evs, st, parsed, gen) ==
  /\ ToldAs(evs \o Rest(st, parsed), gen)
  /\ Rest(st, parsed) \in Seq(AnyEvent)
  /\ st.nextIdx + Len(parsed.calls) = Len(gen.calls)

\* Nothing was withheld.
LEMMA NothingHeld ==
  ASSUME NEW evs, NEW st, NEW content, NEW calls \in Seq(Objects), Told(evs, content, calls),
         st.contentBuf = <<>>, st.nextIdx = Len(calls)
  PROVE  DoneAsTold(evs, st, NoCalls(<<>>), [calls |-> calls, text |-> content])
<1> DEFINE gen == [calls |-> calls, text |-> content]
           parsed == NoCalls(<<>>)
<1>1. gen.calls = calls /\ gen.text = content
  OBVIOUS
<1>2. parsed.calls = <<>>
  BY DEF NoCalls
<1> HIDE DEF gen, parsed
<1>3. Rest(st, parsed) = <<>>
  BY <1>2 DEF Rest, Text
<1>4. evs \o <<>> = evs /\ <<>> \in Seq(AnyEvent)
  <2>1. evs \in Seq(AnyEvent)
    BY DEF Told, Sums
  <2> QED
    BY <2>1, ConcatEmptySeq
<1>5. st.nextIdx + Len(parsed.calls) = Len(calls)
  BY <1>2
<1>6. ToldAs(evs, gen)
  BY <1>1, Zenon DEF ToldAs
<1>7. DoneAsTold(evs, st, parsed, gen)
  BY <1>1, <1>3, <1>4, <1>5, <1>6, Zenon DEF DoneAsTold
<1> QED
  BY <1>7 DEF gen, parsed

\* All was withheld, and what is parsed is what Generate parses.
LEMMA AllHeld ==
  ASSUME NEW evs, Told(evs, <<>>, <<>>), NEW content \in Seq(Piece), NEW st,
         st.contentBuf = content, st.nextIdx = 0, NEW parsed \in ParsedOf(Piece)
  PROVE  DoneAsTold(evs, st, parsed, parsed)
<1>0. <<>> \in Seq(Piece) /\ <<>> \in Seq(Objects) /\ Len(<<>>) = 0 /\ evs \in Seq(AnyEvent)
  BY DEF Told, Sums
<1>1. parsed.calls \in Seq(Objects) /\ parsed.text \in Seq(Piece)
  <2>1. Seq(Piece \cap Objects) \subseteq Seq(Objects)
    OBVIOUS
  <2> QED
    BY <2>1 DEF ParsedOf
<1>2. CASE parsed.calls = <<>>
  <2>1. Told(evs \o Text(content), <<>> \o content, <<>>) /\ Text(content) \in Seq(AnyEvent)
    BY <1>0, TextTold
  <2>2. Rest(st, parsed) = Text(content)
    BY <1>2 DEF Rest
  <2>3. st.nextIdx + Len(parsed.calls) = Len(parsed.calls)
    BY <1>2
  <2>4. ToldAs(evs \o Text(content), parsed)
    BY <1>1, <1>2, <2>1, Zenon DEF ToldAs
  <2> QED
    BY <2>1, <2>2, <2>3, <2>4, Zenon DEF DoneAsTold
<1>3. CASE parsed.calls # <<>>
  <2> DEFINE a == Text(parsed.text)
             c == CallEvents(parsed.calls, 0)
             before == evs \o a
             found == parsed.calls
             said == parsed.text
  <2>0. <<>> \o said = said /\ <<>> \o found = found
    BY <1>1, ConcatEmptySeq
  <2>1. Told(before, said, <<>>) /\ a \in Seq(AnyEvent)
    <3> HIDE DEF said
    <3>1. Told(evs \o Text(said), <<>> \o said, <<>>) /\ Text(said) \in Seq(AnyEvent)
      BY <1>0, <1>1, TextTold DEF said
    <3> QED
      BY <2>0, <3>1 DEF said
  <2>2. Told(before \o c, said, found) /\ c \in Seq(AnyEvent)
    <3> HIDE DEF before, said, found
    <3>1. found \in Seq(Objects)
      BY <1>1 DEF found
    <3>2. Told(before \o CallEvents(found, Len(<<>>)), said, <<>> \o found)
          /\ CallEvents(found, Len(<<>>)) \in Seq(AnyEvent)
      BY <1>0, <2>1, <3>1, CallsTold
    <3>3. CallEvents(found, Len(<<>>)) = c
      BY <1>0 DEF found
    <3> QED
      BY <2>0, <3>2, <3>3
  <2>3. before \o c = evs \o (a \o c) /\ a \o c \in Seq(AnyEvent)
    <3> HIDE DEF a, c
    <3>1. Chained(Chained(evs, a), c) = Chained(evs, Chained(a, c)) /\ Chained(a, c) \in Seq(AnyEvent)
      BY <1>0, <2>1, <2>2, ChainRegrouped, ChainedType
    <3> QED
      BY <3>1 DEF Chained
  <2>4. Rest(st, parsed) = a \o c
    BY <1>3 DEF Rest
  <2>5. st.nextIdx + Len(parsed.calls) = Len(parsed.calls)
    BY <1>1
  <2> HIDE DEF a, c, before
  <2>6. ToldAs(before \o c, parsed)
    BY <1>1, <2>2, Zenon DEF ToldAs
  <2> QED
    BY <2>3, <2>4, <2>5, <2>6, Zenon DEF DoneAsTold
<1> QED
  BY <1>2, <1>3

\* What Generate parses, its native calls with the ids the stream gives them.
ToldOf(m, message) ==
  LET gen == ParseResponse(m, message)
  IN  [calls |-> IF message.calls = <<>> THEN gen.calls ELSE WithIds(gen.calls), text |-> gen.text]
LEMMA DoneTold ==
  ASSUME NEW m, m.hasTools, NEW evs, NEW st, NEW content, NEW calls, Tells(m, evs, st, content, calls),
         NEW message, message.content = content, message.calls \in Seq(Objects),
         WithIds(message.calls) = calls
  PROVE  DoneAsTold(evs, st, Drained(m, st), ToldOf(m, message))
<1>0. content \in Seq(Piece) /\ calls \in Seq(Objects) /\ st.nextIdx = Len(calls)
  BY DEF Tells
<1>4. message.calls = <<>> <=> calls = <<>>
  <2> DEFINE native == message.calls
  <2>1. native \in Seq(Objects) /\ WithIds(native) = calls
    OBVIOUS
  <2> HIDE DEF native
  <2>2. native = <<>> <=> calls = <<>>
    BY <2>1, WithIdsType
  <2> QED
    BY <2>2 DEF native
<1>1. CASE calls # <<>>
  <2>1. ~Holding(m, calls) /\ Len(calls) # 0
    BY <1>0, <1>1 DEF Holding
  <2>2. st.contentBuf = <<>> /\ Told(evs, content, calls)
    BY <2>1 DEF Tells
  <2>3. Drained(m, st) = NoCalls(<<>>)
    BY <1>0, <2>1, <2>2 DEF Drained
  <2>4. ToldOf(m, message) = [calls |-> calls, text |-> content]
    <3>1. ParseResponse(m, message) = [calls |-> message.calls, text |-> content]
      BY <1>1, <1>4 DEF ParseResponse
    <3> QED
      BY <1>1, <1>4, <3>1 DEF ToldOf
  <2> QED
    BY <1>0, <2>2, <2>3, <2>4, NothingHeld
<1>2. CASE calls = <<>> /\ BufferContent(m)
  <2>1. Holding(m, calls) /\ Len(calls) = 0
    BY <1>2 DEF Holding
  <2>2. st.contentBuf = content /\ st.nextIdx = 0 /\ Told(evs, <<>>, <<>>)
    BY <1>2, <2>1 DEF Tells
  <2>3. Drained(m, st) = Parse(m, content)
    BY <1>2, <2>2 DEF Drained
  <2>5. Parse(m, content) \in ParsedOf(Piece)
    BY <1>0, ParseType
  <2>4. ToldOf(m, message) = Parse(m, content)
    <3> DEFINE parsed == Parse(m, content)
    <3>1. ParseResponse(m, message) = parsed
      BY <1>2, <1>4, Zenon DEF ParseResponse, BufferContent
    <3>2. parsed \in ParsedOf(Piece)
      BY <2>5
    <3> HIDE DEF parsed
    <3>3. [calls |-> parsed.calls, text |-> parsed.text] = parsed
      BY <3>2 DEF ParsedOf
    <3>4. ToldOf(m, message) = [calls |-> parsed.calls, text |-> parsed.text]
      BY <1>2, <1>4, <3>1, Zenon DEF ToldOf
    <3> QED
      BY <3>3, <3>4 DEF parsed
  <2> QED
    BY <1>0, <2>2, <2>3, <2>4, <2>5, AllHeld
<1>3. CASE calls = <<>> /\ ~BufferContent(m)
  <2>1. ~Holding(m, calls)
    BY <1>3 DEF Holding
  <2>2. st.contentBuf = <<>> /\ Told(evs, content, calls)
    BY <2>1 DEF Tells
  <2>3. Drained(m, st) = NoCalls(<<>>)
    BY <1>3, <2>2 DEF Drained
  <2>4. ToldOf(m, message) = NoCalls(content)
    <3>1. ParseResponse(m, message) = NoCalls(content)
      BY <1>3, <1>4, Zenon DEF ParseResponse, BufferContent
    <3>2. NoCalls(content) = [calls |-> NoCalls(content).calls, text |-> NoCalls(content).text]
      BY DEF NoCalls
    <3> QED
      BY <1>3, <1>4, <3>1, <3>2, Zenon DEF ToldOf
  <2>5. NoCalls(content) = [calls |-> calls, text |-> content]
    BY <1>3 DEF NoCalls
  <2> QED
    BY <1>0, <2>2, <2>3, <2>4, <2>5, NothingHeld
<1> QED
  BY <1>1, <1>2, <1>3

\* The contents and the calls of the frames, from the first on.
LEMMA MessageParts ==
  ASSUME NEW m \in Modes, NEW b \in Bodies(m)
  PROVE  \E text \in [0..Len(b) -> Seq(Piece)], calls \in [0..Len(b) -> Seq(Objects)] :
           /\ text[0] = <<>> /\ calls[0] = <<>>
           /\ \A k \in 1..Len(b) : /\ text[k] = text[k - 1] \o b[k].content
                                   /\ calls[k] = calls[k - 1] \o b[k].calls
           /\ MessageOf(b).content = text[Len(b)] /\ MessageOf(b).calls = calls[Len(b)]
<1> DEFINE n == Len(b)
           contents == [k \in DOMAIN b |-> b[k].content]
           native == [k \in DOMAIN b |-> b[k].calls]
<1>1. b \in Seq(Frame) /\ n \in Nat /\ DOMAIN b = 1..n
  BY BodyAssumption
<1>2. \A k \in 1..n : b[k].content \in Seq(Piece) /\ b[k].calls \in Seq(Objects)
  <2>1. \A k \in 1..n : b[k].content \in Seq(Piece) /\ b[k].calls \in Seq(Calls)
    BY <1>1, IngestAssumption
  <2>2. Seq(Calls) \subseteq Seq(Objects)
    BY DEF Objects
  <2> QED
    BY <2>1, <2>2
<1>3. contents \in Seq(Seq(Piece)) /\ Len(contents) = n /\ \A k \in 1..n : contents[k] = b[k].content
  BY <1>1, <1>2
<1>4. native \in Seq(Seq(Objects)) /\ Len(native) = n /\ \A k \in 1..n : native[k] = b[k].calls
  BY <1>1, <1>2
<1>5. MessageOf(b).content = FlattenSeq(contents) /\ MessageOf(b).calls = FlattenSeq(native)
  BY DEF MessageOf
<1> HIDE DEF contents, native, n
<1>6. \E f \in [0..n -> Seq(Piece)] :
        f[0] = <<>> /\ (\A k \in 1..n : f[k] = f[k - 1] \o contents[k]) /\ FlattenSeq(contents) = f[n]
  BY <1>3, Flattened
<1>7. \E f \in [0..n -> Seq(Objects)] :
        f[0] = <<>> /\ (\A k \in 1..n : f[k] = f[k - 1] \o native[k]) /\ FlattenSeq(native) = f[n]
  BY <1>4, Flattened
<1>8. PICK text \in [0..n -> Seq(Piece)] :
        text[0] = <<>> /\ (\A k \in 1..n : text[k] = text[k - 1] \o contents[k]) /\ FlattenSeq(contents) = text[n]
  BY <1>6
<1>9. PICK calls \in [0..n -> Seq(Objects)] :
        calls[0] = <<>> /\ (\A k \in 1..n : calls[k] = calls[k - 1] \o native[k]) /\ FlattenSeq(native) = calls[n]
  BY <1>7
<1>10. \A k \in 1..n : /\ text[k] = text[k - 1] \o b[k].content
                       /\ calls[k] = calls[k - 1] \o b[k].calls
  BY <1>3, <1>4, <1>8, <1>9
<1> QED
  BY <1>5, <1>8, <1>9, <1>10, Zenon DEF n

\* One frame of a body, taken in.
LEMMA StepOf ==
  ASSUME NEW m \in Modes, NEW b \in Bodies(m), NEW k \in 1..Len(b)
  PROVE  LET prev == Run(m, b)[k - 1]
             next == Run(m, b)[k]
             step == IngestFrame(m, prev.st, b[k])
         IN  /\ next.evs = prev.evs \o step.evs /\ next.st = step.st
             /\ b[k].content \in Seq(Piece) /\ b[k].calls \in Seq(Objects)
             /\ b[k].usage \in Usage /\ (b[k].done => k = Len(b))
<1> DEFINE prev == Run(m, b)[k - 1]
           next == Run(m, b)[k]
           f == b[k]
<1>1. b \in Seq(Frame) /\ k \in DOMAIN b
  BY BodyAssumption
<1>2. /\ f.content \in Seq(Piece) /\ f.calls \in Seq(Calls) /\ f.usage \in Usage /\ IsLast(f) = f.done
      /\ FrameEvents(m, prev.st, f) = IngestFrame(m, prev.st, f).evs
      /\ FrameAfter(m, prev.st, f) = IngestFrame(m, prev.st, f).st
  BY <1>1, IngestAssumption
<1>3. next.evs = prev.evs \o FrameEvents(m, prev.st, f) /\ next.st = FrameAfter(m, prev.st, f)
  BY RunAssumption
<1>4. IsLast(f) => k = Len(b)
  BY <1>1, BodyAssumption
<1>5. f.calls \in Seq(Objects)
  <2>1. Seq(Calls) \subseteq Seq(Objects)
    BY DEF Objects
  <2> QED
    BY <1>2, <2>1
<1> HIDE DEF prev, next, f
<1>6. /\ next.evs = prev.evs \o IngestFrame(m, prev.st, f).evs /\ next.st = IngestFrame(m, prev.st, f).st
      /\ f.content \in Seq(Piece) /\ f.calls \in Seq(Objects)
      /\ f.usage \in Usage /\ (f.done => k = Len(b))
  BY <1>2, <1>3, <1>4, <1>5, Zenon
<1> QED
  BY <1>6 DEF prev, next, f

\* A body that ends with a Done frame becomes events that tell what Generate
\* returns, with the ids of the stream, and the Done.
EndOf(b, gen) == Done(Last(b).usage, FinishOf(Len(gen.calls), MapOllamaDoneReason(Last(b).reason)))
LEMMA WholeTold ==
  ASSUME NEW m \in Modes, m.hasTools, NEW b \in Bodies(m), b # <<>>, Last(b).done
  PROVE  LET gen == ToldOf(m, MessageOf(b))
         IN  \E evs : ToldAs(evs, gen) /\ Whole(m, b) = evs \o <<EndOf(b, gen)>>
<1> DEFINE n == Len(b)
           r == Run(m, b)
           gen == ToldOf(m, MessageOf(b))
<1>1. b \in Seq(Frame) /\ n \in Nat /\ n > 0 /\ DOMAIN b = 1..n /\ Last(b) = b[n] /\ n - 1 \in Nat
  <2>1. b \in Seq(Frame)
    BY BodyAssumption
  <2> QED
    BY <2>1 DEF Last
<1>2. PICK text \in [0..n -> Seq(Piece)], calls \in [0..n -> Seq(Objects)] :
        /\ text[0] = <<>> /\ calls[0] = <<>>
        /\ \A k \in 1..n : /\ text[k] = text[k - 1] \o b[k].content
                           /\ calls[k] = calls[k - 1] \o b[k].calls
        /\ MessageOf(b).content = text[n] /\ MessageOf(b).calls = calls[n]
  BY MessageParts
<1>3. ASSUME NEW k \in 1..n
      PROVE  /\ r[k].evs = r[k - 1].evs \o IngestFrame(m, r[k - 1].st, b[k]).evs
             /\ r[k].st = IngestFrame(m, r[k - 1].st, b[k]).st
             /\ b[k].content \in Seq(Piece) /\ b[k].calls \in Seq(Objects)
             /\ b[k].usage \in Usage /\ (b[k].done => k = n)
  BY StepOf
<1>4. r[0].evs = <<>> /\ r[0].st = OllamaInit
  <2>1. r[0].evs = <<>>
    BY RunAssumption
  <2>2. r[0].st = OllamaInit
    BY IngestAssumption
  <2> QED
    BY <2>1, <2>2
<1> HIDE DEF r, n, gen
<1> DEFINE So(k) == Tells(m, r[k].evs, r[k].st, text[k], WithIds(calls[k]))
           After(k) == IngestContent(m, r[k - 1].st, b[k])
<1>5. So(0)
  <2>1. <<>> \in Seq(Piece) /\ <<>> \in Seq(Objects) /\ Len(<<>>) = 0
    OBVIOUS
  <2>2. OllamaInit.nextIdx = 0 /\ OllamaInit.contentBuf = <<>>
    BY DEF OllamaInit
  <2>3. WithIds(<<>>) = <<>>
    BY <2>1, WithIdsType
  <2> QED
    BY <1>2, <1>4, <2>1, <2>2, <2>3, ToldNothing, Zenon DEF Tells
<1>6. ASSUME NEW k \in 1..n, So(k - 1)
      PROVE  /\ Tells(m, r[k - 1].evs \o After(k).evs, After(k).st, text[k], WithIds(calls[k]))
             /\ After(k).evs \in Seq(AnyEvent)
  <2> DEFINE evs == r[k - 1].evs
             st == r[k - 1].st
             f == b[k]
  <2>1. Tells(m, evs, st, text[k - 1], WithIds(calls[k - 1])) /\ f.content \in Seq(Piece) /\ f.calls \in Seq(Objects)
    BY <1>3, <1>6
  <2>2. text[k] = text[k - 1] \o f.content /\ WithIds(calls[k]) = WithIds(calls[k - 1]) \o WithIds(f.calls)
    <3> DEFINE before == calls[k - 1]
               native == f.calls
    <3>1. text[k] = text[k - 1] \o f.content /\ calls[k] = before \o native
      BY <1>2
    <3>2. before \in Seq(Objects) /\ native \in Seq(Objects)
      <4>1. k - 1 \in 0..n
        BY <1>1
      <4> QED
        BY <1>3, <4>1
    <3> HIDE DEF before, native
    <3>3. WithIds(before \o native) = WithIds(before) \o WithIds(native)
      BY <3>2, WithIdsOfBoth DEF BothWithIds
    <3> QED
      BY <3>1, <3>3 DEF before, native
  <2> HIDE DEF evs, st, f
  <2>3. /\ Tells(m, evs \o IngestContent(m, st, f).evs, IngestContent(m, st, f).st,
                 text[k - 1] \o f.content, WithIds(calls[k - 1]) \o WithIds(f.calls))
        /\ IngestContent(m, st, f).evs \in Seq(AnyEvent)
    BY <2>1, FrameTold
  <2> QED
    BY <2>2, <2>3 DEF evs, st, f
<1> DEFINE P == {k \in 0..(n - 1) : So(k)}
<1>7. 0 \in P
  BY <1>1, <1>5
<1>8. ASSUME NEW k \in 0..(n - 1), k # n - 1, k \in P PROVE k + 1 \in P
  <2>1. k + 1 \in 1..n /\ k + 1 \in 0..(n - 1) /\ (k + 1) - 1 = k /\ k + 1 # n
    BY <1>1, <1>8
  <2>2. So(k)
    BY <1>8
  <2> HIDE DEF P
  <2>3. ~b[k + 1].done
    BY <1>3, <2>1
  <2>4. IngestFrame(m, r[k].st, b[k + 1]) = After(k + 1)
    BY <2>1, <2>3 DEF IngestFrame, Ending
  <2> DEFINE j == k + 1
  <2>5. j \in 1..n /\ j - 1 = k
    BY <2>1
  <2> HIDE DEF So, After, j
  <2>6. r[j].evs = r[k].evs \o After(j).evs /\ r[j].st = After(j).st
    BY <1>3, <2>4, <2>5 DEF j
  <2>7. Tells(m, r[k].evs \o After(j).evs, After(j).st, text[j], WithIds(calls[j]))
    BY <1>6, <2>2, <2>5
  <2>8. So(j)
    BY <2>6, <2>7, Zenon DEF So
  <2> QED
    BY <2>1, <2>8 DEF P, j
<1>9. n - 1 \in P
  <2> HIDE DEF P, So
  <2> DEFINE last == n - 1
  <2>1. last \in Nat /\ last \in 0..last
    BY <1>1
  <2>2. 0 \in P /\ \A k \in 0..last : k # last /\ k \in P => k + 1 \in P
    BY <1>7, <1>8
  <2> HIDE DEF last
  <2>3. \A k \in 0..last : k \in P
    BY <2>1, <2>2, UpTo
  <2> QED
    BY <2>1, <2>3 DEF last
<1> DEFINE mid == After(n)
           evs == r[n - 1].evs
           parsed == Drained(m, mid.st)
           rest == Rest(mid.st, parsed)
           end == EndOf(b, gen)
<1>10. n \in 1..n /\ b[n].done
  BY <1>1
<1>11. Tells(m, evs \o mid.evs, mid.st, text[n], WithIds(calls[n])) /\ mid.evs \in Seq(AnyEvent)
  <2>1. So(n - 1)
    BY <1>9
  <2> HIDE DEF So, After
  <2> QED
    BY <1>6, <1>10, <2>1
<1>12. IngestFrame(m, r[n - 1].st, b[n]) = IngestDone(mid, parsed, b[n])
  BY <1>10 DEF IngestFrame, Ending
<1> HIDE DEF After, So, P
<1>13. DoneAsTold(evs \o mid.evs, mid.st, parsed, gen)
  <2> DEFINE message == MessageOf(b)
             before == evs \o mid.evs
             st == mid.st
  <2>1. message.content = text[n] /\ message.calls = calls[n] /\ calls[n] \in Seq(Objects)
    <3>1. n \in 0..n
      BY <1>1
    <3> QED
      BY <1>2, <3>1
  <2> HIDE DEF message, before, st
  <2>2. Tells(m, before, st, text[n], WithIds(calls[n]))
    BY <1>11 DEF before, st
  <2>3. DoneAsTold(before, st, Drained(m, st), ToldOf(m, message))
    BY <2>1, <2>2, DoneTold
  <2> QED
    BY <2>3 DEF before, st, message, gen
<1>14. r[n].evs = evs \o ((mid.evs \o rest) \o <<end>>)
  <2>1. r[n].evs = evs \o IngestFrame(m, r[n - 1].st, b[n]).evs
    BY <1>3, <1>10
  <2>2. mid.st.nextIdx + Len(parsed.calls) = Len(gen.calls)
    BY <1>13, Zenon DEF DoneAsTold
  <2> HIDE DEF mid, evs, parsed
  <2>3. IngestDone(mid, parsed, b[n]).evs = (mid.evs \o rest) \o <<end>>
    <3> DEFINE f == b[n]
               said == Done(f.usage, FinishOf(mid.st.nextIdx + Len(parsed.calls), MapOllamaDoneReason(f.reason)))
    <3>1. IngestDone(mid, parsed, f).evs = (mid.evs \o rest) \o <<said>>
      <4> HIDE DEF f
      <4> QED
        BY DoneEvents
    <3>2. said = end
      BY <1>1, <2>2, Zenon DEF EndOf
    <3> HIDE DEF said, end, rest
    <3> QED
      BY <3>1, <3>2
  <2> QED
    BY <1>12, <2>1, <2>3
<1>15. evs \o ((mid.evs \o rest) \o <<end>>) = ((evs \o mid.evs) \o rest) \o <<end>>
  <2> DEFINE a == evs
             b1 == mid.evs
             c == rest
             d == <<end>>
  <2> DEFINE All == AnyEvent \cup {end}
  <2>1. rest \in Seq(AnyEvent)
    BY <1>13, Zenon DEF DoneAsTold
  <2>2. evs \in Seq(AnyEvent)
    <3>1. So(n - 1)
      BY <1>9 DEF P
    <3> QED
      BY <3>1 DEF So, Tells, Told, Sums
  <2> HIDE DEF evs, mid, rest, end
  <2>3. a \in Seq(All) /\ b1 \in Seq(All) /\ c \in Seq(All) /\ d \in Seq(All)
    BY <1>11, <2>1, <2>2
  <2> HIDE DEF a, b1, c, d, All
  <2>4. Chained(Chained(Chained(a, b1), c), d) = Chained(a, Chained(Chained(b1, c), d))
    BY <2>3, RegroupedTwice
  <2> QED
    BY <2>4 DEF Chained, a, b1, c, d
<1>16. ToldAs((evs \o mid.evs) \o rest, gen)
  BY <1>13, Zenon DEF DoneAsTold
<1>17. Whole(m, b) = ((evs \o mid.evs) \o rest) \o <<end>>
  BY <1>14, <1>15 DEF Whole, r, n
<1> QED
  BY <1>16, <1>17 DEF gen

-----------------------------------------------------------------------------
(* What a consumer accumulates from such events and their Done.            *)

\* The texts of the events of a kind.
LEMMA TextsOfKind ==
  ASSUME NEW evs \in Seq(AnyEvent), NEW A, NEW B, \A e \in ToSet(evs) : e \in A <=> e \in B
  PROVE  Joined(evs, A) = Picked(TextIn, evs, B)
<1> DEFINE kept == Kept(evs, A)
<1>1. kept \in Seq(AnyEvent)
  BY KeptType
<1>2. Kept(evs, A) = Kept(evs, B)
  <2>1. \A x \in AnyEvent : x \in ToSet(evs) => (x \in A <=> x \in B)
    OBVIOUS
  <2> QED
    BY <2>1, KeptRange
<1>3. Joined(evs, A) = [k \in DOMAIN kept |-> kept[k].text]
  BY DEF Joined, Mapped
<1>4. Picked(TextIn, evs, B) = Each(TextIn, kept)
  BY <1>2 DEF Picked
<1> HIDE DEF kept
<1>5. \A k \in DOMAIN kept : TextIn[kept[k]] = kept[k].text
  BY <1>1 DEF TextIn
<1>6. [k \in DOMAIN kept |-> kept[k].text] = Each(TextIn, kept)
  BY <1>5 DEF Each
<1> QED
  BY <1>3, <1>4, <1>6

LEMMA OneJoined ==
  ASSUME NEW S, NEW s \in Seq(S)
  PROVE  FlattenSeq(<<s>>) = s
<1>1. <<>> \in Seq(Seq(S)) /\ Append(<<>>, s) = <<s>> /\ <<>> \o s = s
  BY ConcatEmptySeq
<1>2. FlattenLonger(<<>>, s)
  BY <1>1, FlattenAppend
<1> QED
  BY <1>1, <1>2, FlattenEmpty DEF FlattenLonger

\* The Done, with what precedes it.
Tell(whole, text, calls, end) ==
  /\ FlattenSeq(Joined(whole, TextEvents)) = text
  /\ \A i \in Nat : ArgsByIndex(whole, i) = ArgsAt(calls, i)
  /\ StartsOf(whole) = {ToolStart(k - 1, calls[k]) : k \in DOMAIN calls}
  /\ DoneOf(whole) = {end}
LEMMA WithDone ==
  ASSUME NEW evs, NEW text, NEW calls \in Seq(Objects), Told(evs, text, calls),
         NEW end \in AnyEvent, end.kind = "done", NEW whole, whole = Append(evs, end), whole \in Seq(K1Event)
  PROVE  Tell(whole, text, calls, end)
<1>1. /\ evs \in Seq(AnyEvent) /\ \A k \in DOMAIN evs : evs[k].kind # "done"
      /\ FlattenSeq(Picked(TextIn, evs, Said)) = text
      /\ Kept(evs, Begun) = StartsFor(calls)
      /\ \A i \in Nat : Picked(TextIn, evs, ArgsFor(i)) = ArgsAt(calls, i)
  BY DEF Told, Sums
<1>2. /\ whole \in Seq(AnyEvent) /\ ToSet(whole) \subseteq AnyEvent /\ ToSet(whole) \subseteq K1Event
      /\ ToSet(whole) = ToSet(evs) \cup {end}
  <2>1. /\ whole \in Seq(AnyEvent) /\ DOMAIN whole = DOMAIN evs \cup {Len(evs) + 1}
        /\ whole[Len(evs) + 1] = end /\ \A k \in DOMAIN evs : whole[k] = evs[k]
    BY <1>1
  <2>2. \A k \in DOMAIN whole : whole[k] \in AnyEvent
    BY <2>1
  <2>3. \A k \in DOMAIN whole : whole[k] \in K1Event
    OBVIOUS
  <2> QED
    BY <2>1, <2>2, <2>3, Zenon DEF ToSet
<1>3. ASSUME NEW A, NEW B, end \notin B, \A e \in ToSet(whole) : e \in A <=> e \in B
      PROVE  Joined(whole, A) = Picked(TextIn, evs, B)
  <2>1. Joined(whole, A) = Picked(TextIn, whole, B)
    BY <1>2, <1>3, TextsOfKind
  <2>2. PickedLonger(TextIn, evs, end, B)
    BY <1>1, PickedAppend
  <2> QED
    BY <1>3, <2>1, <2>2, Zenon DEF PickedLonger
<1>4. FlattenSeq(Joined(whole, TextEvents)) = text
  <2>1. \A e \in ToSet(whole) : e \in TextEvents <=> e \in Said
    BY <1>2 DEF TextEvents, Said
  <2>2. end \notin Said
    BY DEF Said
  <2>3. Joined(whole, TextEvents) = Picked(TextIn, evs, Said)
    BY <1>3, <2>1, <2>2
  <2> QED
    BY <1>1, <2>3
<1>5. ASSUME NEW i \in Nat PROVE ArgsByIndex(whole, i) = ArgsAt(calls, i)
  <2>1. \A e \in ToSet(whole) : e \in ArgsEvents(i) <=> e \in ArgsFor(i)
    BY <1>2 DEF ArgsEvents, ArgsFor
  <2>2. end \notin ArgsFor(i)
    BY DEF ArgsFor
  <2>3. Joined(whole, ArgsEvents(i)) = Picked(TextIn, evs, ArgsFor(i))
    BY <1>3, <2>1, <2>2
  <2> QED
    BY <1>1, <2>3 DEF ArgsByIndex
<1>6. StartsOf(whole) = {ToolStart(k - 1, calls[k]) : k \in DOMAIN calls}
  <2>1. StartsOf(whole) = {e \in ToSet(evs) : e \in Begun}
    <3>1. ToSet(evs) \subseteq AnyEvent
      BY <1>1 DEF ToSet
    <3> QED
      BY <1>2, <3>1 DEF StartsOf, Begun
  <2>2. ToSet(Kept(evs, Begun)) = {e \in ToSet(evs) : e \in Begun}
    BY <1>1, KeptElements
  <2>3. ToSet(StartsFor(calls)) = {ToolStart(k - 1, calls[k]) : k \in DOMAIN calls}
    BY DEF StartsFor, ToSet
  <2> QED
    BY <1>1, <2>1, <2>2, <2>3
<1>7. DoneOf(whole) = {end}
  <2>1. \A e \in ToSet(evs) : e.kind # "done"
    BY <1>1 DEF ToSet
  <2> QED
    BY <1>2, <2>1, Zenon DEF DoneOf
<1> QED
  BY <1>4, <1>5, <1>6, <1>7 DEF Tell

\* The response of joined texts.
LEMMA FlatIs ==
  ASSUME NEW said, NEW started, NEW finish, NEW usage
  PROVE  Flat(Response(said, started, finish, usage))
           = Response(FlattenSeq(said), {ToolCall(c.call, FlattenSeq(c.args)) : c \in started}, finish, usage)
<1> DEFINE r == Response(said, started, finish, usage)
           text == FlattenSeq(said)
           calls == {ToolCall(c.call, FlattenSeq(c.args)) : c \in started}
<1>1. r.text = said /\ r.calls = started
  BY DEF Response
<1>2. Flat(r) = [[r EXCEPT !.text = text] EXCEPT !.calls = calls]
  <2> HIDE DEF r
  <2> QED
    BY <1>1 DEF Flat
<1> HIDE DEF text, calls
<1>3. [[r EXCEPT !.text = text] EXCEPT !.calls = calls] = Response(text, calls, finish, usage)
  <2>1. [r EXCEPT !.text = text] = Response(text, started, finish, usage)
    BY DEF Response
  <2>2. [Response(text, started, finish, usage) EXCEPT !.calls = calls] = Response(text, calls, finish, usage)
    BY DEF Response
  <2> QED
    BY <2>1, <2>2
<1> QED
  BY <1>2, <1>3 DEF text, calls

CallsOf(calls) == {ToolCall(c, Arguments(c)) : c \in ToSet(calls)}
AddUp(whole, text, calls, end) ==
  Flat(Accumulated(whole)) = Response(text, CallsOf(calls), end.finish, end.usage)
LEMMA AccumulatedIs ==
  ASSUME NEW evs, NEW text, NEW calls \in Seq(Objects), Told(evs, text, calls),
         NEW end \in AnyEvent, end.kind = "done", NEW whole, whole = Append(evs, end), whole \in Seq(K1Event)
  PROVE  AddUp(whole, text, calls, end)
<1>1. /\ FlattenSeq(Joined(whole, TextEvents)) = text
      /\ \A i \in Nat : ArgsByIndex(whole, i) = ArgsAt(calls, i)
      /\ StartsOf(whole) = {ToolStart(k - 1, calls[k]) : k \in DOMAIN calls}
      /\ DoneOf(whole) = {end}
  <2>1. Tell(whole, text, calls, end)
    BY WithDone
  <2> QED
    BY <2>1 DEF Tell
<1> DEFINE started == {ToolCall(e.call, ArgsByIndex(whole, e.index)) : e \in StartsOf(whole)}
           joined == {ToolCall(c.call, FlattenSeq(c.args)) : c \in started}
           said == Joined(whole, TextEvents)
<1>2. Accumulated(whole) = Response(said, started, end.finish, end.usage)
  <2>1. DoneOf(whole) # {} /\ (CHOOSE e \in DoneOf(whole) : TRUE) = end
    BY <1>1
  <2> HIDE DEF started, said
  <2>2. /\ (IF DoneOf(whole) = {} THEN NoFinish ELSE (CHOOSE e \in DoneOf(whole) : TRUE).finish) = end.finish
        /\ (IF DoneOf(whole) = {} THEN NoUsage ELSE (CHOOSE e \in DoneOf(whole) : TRUE).usage) = end.usage
    BY <2>1, Zenon
  <2> QED
    BY <2>2, Zenon DEF Accumulated, started, said
<1>3. started = {ToolCall(calls[k], Single(calls[k])) : k \in DOMAIN calls}
  <2>1. ASSUME NEW k \in DOMAIN calls
        PROVE  /\ ToolStart(k - 1, calls[k]).call = calls[k]
               /\ ArgsByIndex(whole, ToolStart(k - 1, calls[k]).index) = Single(calls[k])
    <3>1. k - 1 \in Nat /\ k - 1 < Len(calls) /\ (k - 1) + 1 = k /\ calls[k] \in Objects
      OBVIOUS
    <3>2. ToolStart(k - 1, calls[k]).call = calls[k] /\ ToolStart(k - 1, calls[k]).index = k - 1
      <4> DEFINE c == calls[k]
                 n == k - 1
      <4> HIDE DEF c, n
      <4>1. ToolStart(n, c).call = c /\ ToolStart(n, c).index = n
        BY DEF ToolStart, Blank
      <4> QED
        BY <4>1 DEF c, n
    <3>3. ArgsAt(calls, k - 1) = Single(calls[k])
      BY <3>1 DEF ArgsAt
    <3> QED
      BY <1>1, <3>1, <3>2, <3>3
  <2> DEFINE first(k) == ToolStart(k - 1, calls[k])
             args(e) == ArgsByIndex(whole, e.index)
             one(k) == Single(calls[k])
  <2>2. \A k \in DOMAIN calls : first(k).call = calls[k] /\ args(first(k)) = one(k)
    BY <2>1
  <2>3. StartsOf(whole) = {first(k) : k \in DOMAIN calls}
    BY <1>1
  <2> HIDE DEF first, args, one
  <2>4. {ToolCall(e.call, args(e)) : e \in StartsOf(whole)} = {ToolCall(calls[k], one(k)) : k \in DOMAIN calls}
    BY <2>2, <2>3
  <2> QED
    BY <2>4 DEF args, one
<1>4. joined = CallsOf(calls)
  <2>1. \A k \in DOMAIN calls : FlattenSeq(Single(calls[k])) = Arguments(calls[k])
    <3> SUFFICES ASSUME NEW k \in DOMAIN calls PROVE FlattenSeq(Single(calls[k])) = Arguments(calls[k])
      OBVIOUS
    <3> DEFINE s == Arguments(calls[k])
    <3>1. s \in Seq(Objects)
      <4>1. calls[k] \in Objects
        OBVIOUS
      <4> QED
        BY <4>1, ArgumentsType
    <3> HIDE DEF s
    <3>2. FlattenSeq(<<s>>) = s
      BY <3>1, OneJoined
    <3> QED
      BY <3>2 DEF Single, s
  <2> DEFINE one(k) == Single(calls[k])
             it(k) == Arguments(calls[k])
             flat(c) == FlattenSeq(c.args)
             made(k) == ToolCall(calls[k], one(k))
  <2>2. \A k \in DOMAIN calls : made(k).call = calls[k] /\ flat(made(k)) = it(k)
    BY <2>1 DEF ToolCall
  <2>3. started = {made(k) : k \in DOMAIN calls}
    BY <1>3
  <2> HIDE DEF one, it, flat, made, started
  <2>4. {ToolCall(c.call, flat(c)) : c \in started} = {ToolCall(calls[k], it(k)) : k \in DOMAIN calls}
    BY <2>2, <2>3
  <2>5. CallsOf(calls) = {ToolCall(calls[k], it(k)) : k \in DOMAIN calls}
    BY Zenon DEF CallsOf, ToSet, it
  <2> QED
    BY <2>4, <2>5 DEF flat
<1>5. Flat(Response(said, started, end.finish, end.usage))
        = Response(FlattenSeq(said), joined, end.finish, end.usage)
  BY FlatIs
<1> HIDE DEF joined, said, started
<1> QED
  BY <1>1, <1>2, <1>4, <1>5 DEF said, AddUp

LEMMA EndType ==
  ASSUME NEW u \in Usage, NEW n \in Nat, NEW reason
  PROVE  LET end == Done(u, FinishOf(n, MapOllamaDoneReason(reason)))
         IN  /\ end \in AnyEvent /\ end.kind = "done" /\ end.usage = u
             /\ end.finish = FinishOf(n, MapOllamaDoneReason(reason))
<1> DEFINE finish == FinishOf(n, MapOllamaDoneReason(reason))
<1>1. finish \in FinishReasons
  <2>1. finish \in {"stop", "length", "unknown", "tool_calls"}
    BY Finishes
  <2> QED
    BY <2>1, SomeFinish
<1>2. NoText \in Seq(Piece) /\ NoCall \in Objects
  BY PieceAssumption DEF Objects
<1> HIDE DEF finish, Usage
<1> QED
  BY <1>1, <1>2 DEF Done, Blank, AnyEvent, finish

\* There is a call if and only if the set of calls is not empty.
LEMMA SomeCalls ==
  ASSUME NEW calls \in Seq(Objects)
  PROVE  /\ Cardinality(CallsOf(calls)) \in Nat
         /\ Cardinality(CallsOf(calls)) > 0 <=> Len(calls) > 0
         /\ CallsOf(calls) = {} <=> calls = <<>>
<1> DEFINE n == Len(calls)
           f == [k \in 1..n |-> ToolCall(calls[k], Arguments(calls[k]))]
           T == CallsOf(calls)
<1>1. n \in Nat /\ DOMAIN calls = 1..n /\ (n > 0 <=> calls # <<>>)
  OBVIOUS
<1>2. T = {f[k] : k \in 1..n}
  BY <1>1 DEF CallsOf, ToSet
<1> HIDE DEF T, n
<1>3. T = {} <=> calls = <<>>
  <2> HIDE DEF f
  <2>1. n > 0 <=> 1..n # {}
    <3>1. n \in Nat
      BY <1>1
    <3>2. n > 0 => 1 \in 1..n
      BY <3>1
    <3>3. ~(n > 0) => \A k \in 1..n : FALSE
      BY <3>1
    <3> QED
      BY <3>2, <3>3
  <2> QED
    BY <1>1, <1>2, <2>1
<1>4. f \in [1..n -> T] /\ \A t \in T : \E k \in 1..n : f[k] = t
  BY <1>2
<1>5. f \in Surjection(1..n, T)
  BY <1>4 DEF Surjection
<1>6. IsFiniteSet(1..n)
  BY <1>1, FS_Interval
<1> HIDE DEF f
<1>7. IsFiniteSet(T)
  BY <1>5, <1>6, FS_Surjection
<1>8. Cardinality(T) \in Nat /\ (Cardinality(T) = 0 <=> T = {})
  BY <1>7, FS_CardinalityType, FS_EmptySet
<1> QED
  BY <1>1, <1>3, <1>8 DEF T, n

\* What Generate parses are calls.
LEMMA NativeOrParsed ==
  ASSUME NEW m \in Modes, NEW b \in Bodies(m)
  PROVE  ParseResponse(m, MessageOf(b)).calls \in Seq(Objects)
<1> DEFINE message == MessageOf(b)
<1>1. message.content \in Seq(Piece) /\ message.calls \in Seq(Objects)
  <2>1. b \in Seq(Frame)
    BY BodyAssumption
  <2>2. Len(b) \in 0..Len(b)
    BY <2>1
  <2> QED
    BY <2>2, MessageParts
<1> HIDE DEF message
<1>2. Parse(m, message.content).calls \in Seq(Objects)
  <2>1. Parse(m, message.content) \in ParsedOf(Piece)
    BY <1>1, ParseType
  <2>2. Seq(Piece \cap Objects) \subseteq Seq(Objects)
    OBVIOUS
  <2> QED
    BY <2>1, <2>2 DEF ParsedOf
<1>3. NoCalls(message.content).calls \in Seq(Objects)
  BY DEF NoCalls
<1>4. ParseResponse(m, message).calls
        \in {message.calls, NoCalls(message.content).calls, Parse(m, message.content).calls}
  BY Zenon DEF ParseResponse
<1>5. ParseResponse(m, message).calls \in Seq(Objects)
  BY <1>1, <1>2, <1>3, <1>4
<1> QED
  BY <1>5 DEF message

\* The calls of the stream are those Generate returns, with ids if they came natively.
LEMMA SameCalls ==
  ASSUME NEW message, NEW calls \in Seq(Objects)
  PROVE  AsStreamed(message, CallsOf(calls))
           = CallsOf(IF message.calls = <<>> THEN calls ELSE WithIds(calls))
<1>1. CASE message.calls = <<>>
  BY <1>1 DEF AsStreamed
<1>2. CASE message.calls # <<>>
  <2> DEFINE id(c) == Identified[c]
             args(c) == Arguments(c)
             told == WithIds(calls)
  <2>1. ToSet(told) = {id(c) : c \in ToSet(calls)}
    BY WithIdsType, EachElements
  <2>2. \A c \in ToSet(calls) : args(id(c)) = args(c)
    <3>1. ToSet(calls) \subseteq Objects
      BY DEF ToSet
    <3> QED
      BY <3>1, ArgumentsType
  <2> DEFINE made(c) == ToolCall(c, args(c))
             want(c) == ToolCall(id(c), args(c))
             renamed(c) == ToolCall(id(c.call), c.args)
  <2>3. AsStreamed(message, CallsOf(calls)) = {renamed(c) : c \in CallsOf(calls)}
    BY <1>2 DEF AsStreamed
  <2>4. CallsOf(calls) = {made(c) : c \in ToSet(calls)} /\ CallsOf(told) = {made(c) : c \in ToSet(told)}
    BY DEF CallsOf
  <2>5. \A c \in ToSet(calls) : renamed(made(c)) = want(c)
    BY DEF ToolCall
  <2>6. \A c \in ToSet(calls) : made(id(c)) = want(c)
    BY <2>2
  <2> HIDE DEF id, args, told, made, want, renamed
  <2>7. {renamed(c) : c \in CallsOf(calls)} = {want(c) : c \in ToSet(calls)}
    BY <2>4, <2>5
  <2>8. CallsOf(told) = {want(c) : c \in ToSet(calls)}
    BY <2>1, <2>4, <2>6
  <2> QED
    BY <1>2, <2>3, <2>7, <2>8 DEF told
<1> QED
  BY <1>1, <1>2

\* An answer streamed to its Done adds up to what Generate makes of the frames.
LEMMA WholeAgrees ==
  ASSUME NEW m \in Modes, m.hasTools, NEW b \in Bodies(m), b # <<>>, Last(b).done
  PROVE  LET streamed == Flat(Accumulated(Whole(m, b)))
             generated == OllamaGenerate(m, b)
         IN  /\ streamed.calls = AsStreamed(MessageOf(b), generated.calls)
             /\ streamed.usage = generated.usage
             /\ streamed.calls # {} => streamed.text = generated.text
             /\ streamed.finish = FinishOf(Cardinality(streamed.calls), generated.finish)
<1> DEFINE gen == ToldOf(m, MessageOf(b))
           parsed == ParseResponse(m, MessageOf(b))
           message == MessageOf(b)
           whole == Whole(m, b)
           end == EndOf(b, gen)
           reason == Last(b).reason
           usage == Last(b).usage
<1>1. PICK evs : ToldAs(evs, gen) /\ whole = evs \o <<end>>
  BY WholeTold
<1>2. PICK text : Told(evs, text, gen.calls) /\ (gen.calls # <<>> => text = gen.text)
  BY <1>1, Zenon DEF ToldAs
<1>3. gen.calls \in Seq(Objects) /\ Len(gen.calls) \in Nat
  BY <1>1, Zenon, LenProperties DEF ToldAs
<1>4. usage \in Usage
  <2>1. b \in Seq(Frame)
    BY BodyAssumption
  <2>2. Len(b) \in 1..Len(b) /\ Last(b) = b[Len(b)]
    BY <2>1 DEF Last
  <2>3. b[Len(b)].usage \in Usage
    BY <2>2, StepOf
  <2> QED
    BY <2>2, <2>3
<1>5. /\ end \in AnyEvent /\ end.kind = "done" /\ end.usage = usage
      /\ end.finish = FinishOf(Len(gen.calls), MapOllamaDoneReason(reason))
  <2> DEFINE n == Len(gen.calls)
  <2>1. n \in Nat
    BY <1>3
  <2> HIDE DEF n, usage, reason, gen
  <2>2. LET e == Done(usage, FinishOf(n, MapOllamaDoneReason(reason)))
        IN  /\ e \in AnyEvent /\ e.kind = "done" /\ e.usage = usage
            /\ e.finish = FinishOf(n, MapOllamaDoneReason(reason))
    BY <1>4, <2>1, EndType
  <2> QED
    BY <2>2 DEF EndOf, n, usage, reason
<1>6. whole \in Seq(K1Event)
  <2>1. b \in Seq(Frame)
    BY BodyAssumption
  <2>2. Len(b) \in 0..Len(b)
    BY <2>1
  <2>3. whole \in Seq(Event)
    BY <2>2, RunAssumption DEF Whole
  <2> QED
    BY <2>3, EventAssumption
<1>14. /\ gen.text = parsed.text
       /\ gen.calls = IF message.calls = <<>> THEN parsed.calls ELSE WithIds(parsed.calls)
  BY DEF ToldOf
<1>15. parsed.calls \in Seq(Objects)
  BY NativeOrParsed
<1> HIDE DEF gen, parsed, message, whole, end, reason, usage
<1>7. whole = Append(evs, end)
  <2>1. evs \in Seq(AnyEvent)
    BY <1>2 DEF Told, Sums
  <2> QED
    BY <1>1, <1>5, <2>1
<1> DEFINE calls == gen.calls
           finish == MapOllamaDoneReason(reason)
<1>8. Flat(Accumulated(whole)) = Response(text, CallsOf(calls), end.finish, end.usage)
  <2> HIDE DEF calls
  <2>1. calls \in Seq(Objects) /\ Told(evs, text, calls)
    BY <1>2, <1>3 DEF calls
  <2> QED
    <3>1. AddUp(whole, text, calls, end)
      BY <1>5, <1>6, <1>7, <2>1, AccumulatedIs
    <3> QED
      BY <3>1 DEF AddUp
<1>9. OllamaGenerate(m, b) = Response(gen.text, CallsOf(parsed.calls), finish, usage)
  BY <1>14 DEF OllamaGenerate, OllamaResponse, MessageOf, parsed, CallsOf, reason, usage
<1>16. AsStreamed(message, CallsOf(parsed.calls)) = CallsOf(calls)
  BY <1>14, <1>15, SameCalls
<1>10. /\ Cardinality(CallsOf(calls)) \in Nat
       /\ Cardinality(CallsOf(calls)) > 0 <=> Len(calls) > 0
       /\ CallsOf(calls) = {} <=> calls = <<>>
  BY <1>3, SomeCalls
<1>11. FinishOf(Len(calls), finish) = FinishOf(Cardinality(CallsOf(calls)), finish)
  BY <1>10, Zenon DEF FinishOf
<1> DEFINE streamed == Response(text, CallsOf(calls), end.finish, end.usage)
           generated == Response(gen.text, CallsOf(parsed.calls), finish, usage)
<1>12. /\ streamed.calls = CallsOf(calls) /\ generated.calls = CallsOf(parsed.calls)
       /\ streamed.usage = end.usage /\ generated.usage = usage
       /\ streamed.text = text /\ generated.text = gen.text
       /\ streamed.finish = end.finish /\ generated.finish = finish
  BY DEF Response
<1> HIDE DEF streamed, generated, calls, finish
<1>13. /\ streamed.calls = AsStreamed(message, generated.calls)
       /\ streamed.usage = generated.usage
       /\ streamed.calls # {} => streamed.text = generated.text
       /\ streamed.finish = FinishOf(Cardinality(streamed.calls), generated.finish)
  BY <1>2, <1>5, <1>10, <1>11, <1>12, <1>16, Zenon DEF calls, finish
<1> QED
  BY <1>8, <1>9, <1>13, Zenon DEF streamed, generated, whole, message

\* With tools bound, an answer streamed to its Done adds up to what Generate returns
\* for it, but that a native call without an id has its name for one: the stream
\* parses at the end the text it held back, which without native calls is the whole
\* content, and Generate parses the content of the message.  For every answer of the server, any tags and objects in its text, and every order of
\* producer, Next and Close.
THEOREM GenerateAgreesHolds == Spec => []GenerateAgrees
<1>1. IInv => GenerateAgrees
  <2> SUFFICES ASSUME IInv, outcome = "eof", Disciplined, mode.hasTools, body # <<>>, Last(body).done
               PROVE  LET streamed == Flat(Accumulated(delivered))
                          generated == OllamaGenerate(mode, body)
                      IN  /\ streamed.calls = AsStreamed(MessageOf(body), generated.calls)
                          /\ streamed.usage = generated.usage
                          /\ streamed.calls # {} => streamed.text = generated.text
                          /\ streamed.finish = FinishOf(Cardinality(streamed.calls), generated.finish)
    BY DEF GenerateAgrees
  <2>1. delivered = Whole(mode, body)
    BY EndedWhole DEF HasEnded
  <2>2. mode \in Modes /\ body \in Bodies(mode)
    BY DEF IInv, TypeOK
  <2> QED
    BY <2>1, <2>2, WholeAgrees
<1> QED
  BY <1>1, IInvHolds, PTL
=============================================================================
