--------------------------- MODULE SSELoopProofs ---------------------------
(***************************************************************************)
(* The reader loop of SSELoop for every translator, every set of bodies    *)
(* the server can send, any number of goroutines calling Close and any     *)
(* number of requests: types, the mutex, the single source of the content, *)
(* the single retry, the closing of upstream streams, the quiet after      *)
(* Close.  And, with the adapters' own translators, for every answer that  *)
(* a server completes: the refinement of the contract, the rules of the    *)
(* helper, and the agreement of a drained stream with Generate.            *)
(***************************************************************************)
EXTENDS SSEContract, ConformanceTheorems

\* The upstream stream is read only while Next holds an open one and has
\* nothing queued, a closed reader has none, and no other stream is open.
StreamInv ==
  /\ npc = "recv" => stream # 0 /\ queue = <<>>
  /\ closed => stream = 0
  /\ stream = 0 /\ ~closed => queue = <<>>
  /\ live = {stream} \ {0}
  /\ Disciplined /\ outcome \in {"eof", "closed", "error"} => npc = "over" /\ stream = 0

\* A request is only sent when nothing was, or once after a failed one.
RequestInv ==
  Disciplined =>
    /\ Len(served) <= IF retried THEN 2 ELSE 1
    /\ stream = 0 /\ npc # "over" /\ ~closed => Len(served) = IF retried THEN 1 ELSE 0

\* What is queued, and all content delivered, is of the latest request; a
\* reader about to send another has delivered no content.
SourceInv ==
  /\ \A i \in DOMAIN queue : queue[i].req = Len(served)
  /\ Disciplined =>
       /\ \A i \in DOMAIN delivered :
            ~IsDone(delivered[i].ev) => deliveredByte /\ delivered[i].req = Len(served)
       /\ stream = 0 /\ npc # "over" /\ ~closed => ~deliveredByte

IInv == TypeOK /\ StreamInv /\ RequestInv /\ SourceInv

\* Tagging a sequence of events gives a sequence of events tagged with the
\* latest request.
LEMMA TagAllType ==
  ASSUME NEW evs \in Seq(Event), served \in Seq(Scripts(dialect)), served # <<>>
  PROVE  /\ TagAll(evs) \in Seq(Tagged)
         /\ DOMAIN TagAll(evs) = DOMAIN evs
         /\ \A i \in DOMAIN TagAll(evs) : TagAll(evs)[i].req = Len(served)
<1>1. Len(served) \in Nat \ {0}
  OBVIOUS
<1>2. \A i \in 1..Len(evs) : [req |-> Len(served), ev |-> evs[i]] \in Tagged
  BY <1>1 DEF Tagged
<1>3. DOMAIN evs = 1..Len(evs) /\ Len(evs) \in Nat
  OBVIOUS
<1>4. TagAll(evs) \in [1..Len(evs) -> Tagged]
  BY <1>2, <1>3 DEF TagAll
<1>5. TagAll(evs) \in Seq(Tagged)
  BY <1>3, <1>4
<1> QED
  BY <1>3, <1>5 DEF TagAll

LEMMA InitIInv == Init => IInv
<1> SUFFICES ASSUME Init PROVE IInv
  OBVIOUS
<1>1. TypeOK
  <2>1. TrInit(dialect) \in TrState(dialect)
    BY TranslatorAssumption DEF Init
  <2>2. cpc \in [Closers -> {"idle", "lock", "done"}]
    BY DEF Init
  <2>3. served \in Seq(Scripts(dialect)) /\ queue \in Seq(Tagged) /\ delivered \in Seq(Tagged)
    BY DEF Init
  <2> QED
    BY <2>1, <2>2, <2>3 DEF Init, TypeOK
<1>2. StreamInv /\ RequestInv /\ SourceInv
  BY DEF Init, StreamInv, RequestInv, SourceInv, Disciplined
<1> QED
  BY <1>1, <1>2 DEF IInv

\* A queue of events of the latest request gives a head of that kind.
LEMMA HeadType ==
  ASSUME TypeOK, queue # <<>>
  PROVE  /\ Head(queue) \in Tagged
         /\ Head(queue) = queue[1]
         /\ Tail(queue) \in Seq(Tagged)
         /\ \A i \in DOMAIN Tail(queue) : i + 1 \in DOMAIN queue /\ Tail(queue)[i] = queue[i + 1]
  BY DEF TypeOK

\* Reading goes on with the open stream, or with that of a new request.
LEMMA ReadEffect ==
  ASSUME TypeOK, NextRead
  PROVE  \/ stream # 0 /\ UNCHANGED <<stream, served, pos, live>>
         \/ /\ stream = 0
            /\ served' \in Seq(Scripts(dialect)) /\ Len(served') = Len(served) + 1
            /\ stream' = Len(served')
            /\ live' = live \cup {stream'}
            /\ pos' = 0
<1>1. CASE stream # 0
  BY <1>1 DEF NextRead, server
<1>2. CASE stream = 0
  <2>1. PICK body \in Scripts(dialect) : served' = Append(served, body)
    BY <1>2 DEF NextRead
  <2> QED
    BY <1>2, <2>1 DEF NextRead, TypeOK
<1> QED
  BY <1>1, <1>2

\* Every step of the reader, its closers, the context and the server
\* preserves the types.
LEMMA NextTypeOK ==
  ASSUME TypeOK, StreamInv, [Next]_vars
  PROVE  TypeOK'
<1> USE DEF TypeOK
<1>1. CASE NextCall
  BY <1>1 DEF NextCall, reader, server
<1>2. CASE NextLock
  BY <1>2 DEF NextLock, reader, server
<1>3. CASE NextClosed
  BY <1>3 DEF NextClosed, Return, reader, server
<1>4. CASE NextPop
  <2>1. Head(queue) \in Tagged /\ Tail(queue) \in Seq(Tagged)
    BY <1>4, HeadType DEF NextPop
  <2>2. queue' \in Seq(Tagged) /\ delivered' \in Seq(Tagged)
    BY <1>4, <2>1 DEF NextPop, PopHead
  <2> QED
    BY <1>4, <2>2 DEF NextPop, Return, CountsAsByte, server
<1>5. CASE NextRead
  <2>1. served' \in Seq(Scripts(dialect)) /\ stream' \in {0, Len(served')}
    BY <1>5, ReadEffect
  <2>2. Len(served') \in Nat
    BY <2>1
  <2>3. pos' \in Nat
    BY <1>5, ReadEffect
  <2>4. live' = live \/ live' = live \cup {stream'}
    BY <1>5, ReadEffect
  <2>5. stream' \in Nat
    BY <2>1, <2>2
  <2>6. live' \subseteq Nat
    BY <2>4, <2>5
  <2> QED
    BY <1>5, <2>1, <2>3, <2>6 DEF NextRead
<1>6. CASE RecvChunk
  <2> DEFINE c == served[Len(served)][pos + 1]
  <2>1. served # <<>> /\ Len(served) \in DOMAIN served
    BY <1>6 DEF RecvChunk, StreamInv
  <2>2. served[Len(served)] \in Seq(Chunk(dialect))
    BY <2>1, TranslatorAssumption
  <2>3. c \in Chunk(dialect)
    BY <1>6, <2>2 DEF RecvChunk
  <2>4. ChunkEvents(dialect, tr, c) \in Seq(Event) /\ ChunkState(dialect, tr, c) \in TrState(dialect)
    BY <2>3, TranslatorAssumption
  <2>5. TagAll(ChunkEvents(dialect, tr, c)) \in Seq(Tagged)
    BY <2>1, <2>4, TagAllType
  <2>6. queue' \in Seq(Tagged) /\ tr' \in TrState(dialect)
    BY <1>6, <2>4, <2>5 DEF RecvChunk
  <2> QED
    BY <1>6, <2>6 DEF RecvChunk
<1>7. CASE RecvEnd
  BY <1>7 DEF RecvEnd, Return, DropStream
<1>8. CASE RecvError
  BY <1>8 DEF RecvError, Return, DropStream
<1>9. ASSUME NEW k \in Closers, CloseCall(k) PROVE TypeOK'
  BY <1>9 DEF CloseCall, reader, server
<1>10. ASSUME NEW k \in Closers, CloseRun(k) PROVE TypeOK'
  BY <1>10 DEF CloseRun, DropStream
<1>11. CASE Cancel
  BY <1>11 DEF Cancel, reader, server
<1>12. CASE UNCHANGED vars
  BY <1>12 DEF vars, reader, server
<1> QED
  BY <1>1, <1>2, <1>3, <1>4, <1>5, <1>6, <1>7, <1>8, <1>9, <1>10, <1>11, <1>12
     DEF Next, Finished

\* Each step also preserves the state of the upstream stream.
LEMMA NextStreamInv ==
  ASSUME TypeOK, StreamInv, [Next]_vars
  PROVE  StreamInv'
<1> USE DEF StreamInv, Disciplined
<1>1. CASE NextCall
  BY <1>1 DEF NextCall, reader, server
<1>2. CASE NextLock
  BY <1>2 DEF NextLock, reader, server
<1>3. CASE NextClosed
  BY <1>3 DEF NextClosed, Return, Stops, reader, server
<1>4. CASE NextPop
  BY <1>4 DEF NextPop, Return, server
<1>5. CASE NextRead
  <2>1. stream' # 0
    BY <1>5, ReadEffect DEF TypeOK
  <2>2. ~closed' /\ queue' = <<>> /\ outcome' = outcome /\ habit' = habit /\ npc = "loop"
    BY <1>5 DEF NextRead
  <2>3. live' = {stream'} \ {0}
    BY <1>5, <2>1, ReadEffect
  <2> QED
    BY <2>1, <2>2, <2>3
<1>6. CASE RecvChunk
  BY <1>6 DEF RecvChunk
<1>7. CASE RecvEnd
  BY <1>7 DEF RecvEnd, Return, DropStream, Stops, TypeOK
<1>8. CASE RecvError
  BY <1>8 DEF RecvError, Return, DropStream, Stops, TypeOK
<1>9. ASSUME NEW k \in Closers, CloseCall(k) PROVE StreamInv'
  BY <1>9 DEF CloseCall, reader, server
<1>10. ASSUME NEW k \in Closers, CloseRun(k) PROVE StreamInv'
  BY <1>10 DEF CloseRun, DropStream, TypeOK
<1>11. CASE Cancel
  BY <1>11 DEF Cancel, reader, server
<1>12. CASE UNCHANGED vars
  BY <1>12 DEF vars, reader, server
<1> QED
  BY <1>1, <1>2, <1>3, <1>4, <1>5, <1>6, <1>7, <1>8, <1>9, <1>10, <1>11, <1>12
     DEF Next, Finished

\* No step sends a third request for a consumer that stops at the end.
LEMMA NextRequestInv ==
  ASSUME TypeOK, StreamInv, RequestInv, [Next]_vars
  PROVE  RequestInv'
<1> SUFFICES ASSUME Disciplined' PROVE RequestInv'
  BY DEF RequestInv
<1>0. Len(served) \in Nat
  BY DEF TypeOK
<1>h. habit' = habit
  BY DEF Next, NextCall, NextLock, NextClosed, NextPop, NextRead, RecvChunk, RecvEnd, RecvError,
         CloseCall, CloseRun, Cancel, Finished, vars
<1>d. Disciplined
  BY <1>h DEF Disciplined
<1> USE <1>0, <1>d DEF RequestInv
<1>1. CASE NextCall
  BY <1>1 DEF NextCall, reader, server
<1>2. CASE NextLock
  BY <1>2 DEF NextLock, reader, server
<1>3. CASE NextClosed
  BY <1>3 DEF NextClosed, Return, reader, server
<1>4. CASE NextPop
  BY <1>4 DEF NextPop, Return, server
<1>5. CASE NextRead
  <2>1. CASE stream # 0
    BY <1>5, <2>1, ReadEffect DEF NextRead
  <2>2. CASE stream = 0
    BY <1>5, <2>2, ReadEffect, SMTT(30) DEF NextRead, TypeOK
  <2> QED
    BY <2>1, <2>2
<1>6. CASE RecvChunk
  BY <1>6 DEF RecvChunk, StreamInv
<1>7. CASE RecvEnd
  BY <1>7, <1>d DEF RecvEnd, Return, DropStream, Stops, Disciplined
<1>8. CASE RecvError
  <2>1. stream # 0 /\ stream = Len(served)
    BY <1>8 DEF RecvError, StreamInv, TypeOK
  <2>2. CASE MayRetry
    BY <1>8, <2>1, <2>2 DEF RecvError, DropStream, MayRetry
  <2>3. CASE ~MayRetry
    BY <1>8, <2>3, <1>d DEF RecvError, DropStream, Return, Stops, Disciplined
  <2> QED
    BY <2>2, <2>3
<1>9. ASSUME NEW k \in Closers, CloseCall(k) PROVE RequestInv'
  BY <1>9 DEF CloseCall, reader, server
<1>10. ASSUME NEW k \in Closers, CloseRun(k) PROVE RequestInv'
  BY <1>10 DEF CloseRun, DropStream
<1>11. CASE Cancel
  BY <1>11 DEF Cancel, reader, server
<1>12. CASE UNCHANGED vars
  BY <1>12 DEF vars, reader, server
<1> QED
  BY <1>1, <1>2, <1>3, <1>4, <1>5, <1>6, <1>7, <1>8, <1>9, <1>10, <1>11, <1>12
     DEF Next, Finished

\* Each step keeps the content delivered within one request.
LEMMA NextSourceInv ==
  ASSUME TypeOK, StreamInv, SourceInv, [Next]_vars
  PROVE  SourceInv'
<1>0. Len(served) \in Nat
  BY DEF TypeOK
<1>h. habit' = habit
  BY DEF Next, NextCall, NextLock, NextClosed, NextPop, NextRead, RecvChunk, RecvEnd, RecvError,
         CloseCall, CloseRun, Cancel, Finished, vars
<1>d. Disciplined' <=> Disciplined
  BY <1>h DEF Disciplined
<1> USE <1>0, <1>d DEF SourceInv
<1>1. CASE NextCall
  BY <1>1 DEF NextCall, reader, server
<1>2. CASE NextLock
  BY <1>2 DEF NextLock, reader, server
<1>3. CASE NextClosed
  BY <1>3 DEF NextClosed, Return, reader, server
<1>4. CASE NextPop
  <2>1. /\ Head(queue) = queue[1] /\ 1 \in DOMAIN queue
        /\ \A i \in DOMAIN Tail(queue) : i + 1 \in DOMAIN queue /\ Tail(queue)[i] = queue[i + 1]
    BY <1>4, HeadType DEF NextPop, TypeOK
  <2>2. Head(queue).req = Len(served)
    BY <2>1
  <2>3. queue' = Tail(queue) /\ served' = served /\ stream' = stream /\ closed' = closed
    BY <1>4 DEF NextPop, PopHead, server
  <2>4. \A i \in DOMAIN queue' : queue'[i].req = Len(served')
    BY <2>1, <2>3
  <2>5. stream # 0
    BY <1>4 DEF NextPop, StreamInv
  <2>6. ASSUME Disciplined, NEW i \in DOMAIN delivered', ~IsDone(delivered'[i].ev)
        PROVE  deliveredByte' /\ delivered'[i].req = Len(served')
    <3>1. delivered' = Append(delivered, Head(queue))
          /\ deliveredByte' = (deliveredByte \/ ~IsDone(Head(queue).ev))
      BY <1>4 DEF NextPop, CountsAsByte
    <3>2. CASE i \in DOMAIN delivered
      <4>1. delivered'[i] = delivered[i]
        BY <3>1, <3>2 DEF TypeOK
      <4> QED
        BY <2>3, <2>6, <3>1, <3>2, <4>1
    <3>3. CASE i = Len(delivered) + 1
      <4>1. delivered'[i] = Head(queue)
        BY <3>1, <3>3 DEF TypeOK
      <4> QED
        BY <2>2, <2>3, <2>6, <3>1, <4>1
    <3>4. Len(delivered) \in Nat /\ DOMAIN delivered = 1..Len(delivered)
      BY DEF TypeOK
    <3>5. DOMAIN delivered' = 1..(Len(delivered) + 1)
      BY <3>1, <3>4 DEF TypeOK
    <3>6. i \in DOMAIN delivered \/ i = Len(delivered) + 1
      BY <2>6, <3>4, <3>5
    <3> QED
      BY <3>2, <3>3, <3>6
  <2> QED
    BY <2>3, <2>4, <2>5, <2>6
<1>5. CASE NextRead
  <2>1. queue' = <<>> /\ delivered' = delivered /\ deliveredByte' = deliveredByte /\ ~closed
    BY <1>5 DEF NextRead
  <2>2. CASE stream # 0
    BY <1>5, <2>1, <2>2, ReadEffect DEF NextRead
  <2>3. CASE stream = 0
    BY <1>5, <2>1, <2>3, ReadEffect DEF NextRead, TypeOK
  <2> QED
    BY <2>2, <2>3
<1>6. CASE RecvChunk
  <2> DEFINE c == served[Len(served)][pos + 1]
             evs == ChunkEvents(dialect, tr, c)
  <2>1. served # <<>> /\ Len(served) \in DOMAIN served
    BY <1>6 DEF RecvChunk, StreamInv, TypeOK
  <2>2. c \in Chunk(dialect)
    <3>1. served[Len(served)] \in Seq(Chunk(dialect))
      BY <2>1, TranslatorAssumption DEF TypeOK
    <3> QED
      BY <1>6, <3>1 DEF RecvChunk, TypeOK
  <2>3. evs \in Seq(Event)
    BY <2>2, TranslatorAssumption DEF TypeOK
  <2>4. /\ TagAll(evs) \in Seq(Tagged)
        /\ \A i \in DOMAIN TagAll(evs) : TagAll(evs)[i].req = Len(served)
    BY <2>1, <2>3, TagAllType DEF TypeOK
  <2>5. queue' = TagAll(evs)
    BY <1>6, <2>4 DEF RecvChunk, StreamInv
  <2> QED
    BY <1>6, <2>4, <2>5 DEF RecvChunk, StreamInv
<1>7. CASE RecvEnd
  BY <1>7 DEF RecvEnd, Return, DropStream, Stops, Disciplined
<1>8. CASE RecvError
  <2>1. CASE MayRetry
    BY <1>8, <2>1 DEF RecvError, DropStream, MayRetry
  <2>2. CASE ~MayRetry
    BY <1>8, <2>2 DEF RecvError, DropStream, Return, Stops, Disciplined
  <2> QED
    BY <2>1, <2>2
<1>9. ASSUME NEW k \in Closers, CloseCall(k) PROVE SourceInv'
  BY <1>9 DEF CloseCall, reader, server
<1>10. ASSUME NEW k \in Closers, CloseRun(k) PROVE SourceInv'
  BY <1>10 DEF CloseRun, DropStream
<1>11. CASE Cancel
  BY <1>11 DEF Cancel, reader, server
<1>12. CASE UNCHANGED vars
  BY <1>12 DEF vars, reader, server
<1> QED
  BY <1>1, <1>2, <1>3, <1>4, <1>5, <1>6, <1>7, <1>8, <1>9, <1>10, <1>11, <1>12
     DEF Next, Finished

\* The four parts are inductive together.
LEMMA IInvInductive == Spec => []IInv
<1>1. IInv /\ [Next]_vars => IInv'
  BY NextTypeOK, NextStreamInv, NextRequestInv, NextSourceInv DEF IInv
<1> QED
  BY <1>1, InitIInv, PTL DEF Spec

\* The fields of the reader keep their types and r.mu is held exactly while
\* Next runs: no return path of Next leaves it locked.
THEOREM TypeCorrect == Spec => []TypeOK
<1>1. IInv => TypeOK
  BY DEF IInv
<1> QED
  BY <1>1, IInvInductive, PTL

\* A consumer that stops at the end of the stream gets content of one request
\* only: the retry never splices two completions.
THEOREM SingleSourceHolds == Spec => []SingleSource
<1>1. IInv => SingleSource
  BY DEF IInv, SourceInv, SingleSource
<1> QED
  BY <1>1, IInvInductive, PTL

\* Such a consumer causes at most two requests.
THEOREM AtMostOneRetryHolds == Spec => []AtMostOneRetry
<1>1. IInv => AtMostOneRetry
  BY DEF IInv, TypeOK, RequestInv, AtMostOneRetry
<1> QED
  BY <1>1, IInvInductive, PTL

\* No upstream stream stays open that the reader does not hold, and none once
\* the stream ended, failed or was closed.
THEOREM NoStreamLeakHolds == Spec => []NoStreamLeak
<1>1. IInv => NoStreamLeak
  BY DEF IInv, StreamInv, NoStreamLeak
<1> QED
  BY <1>1, IInvInductive, PTL

\* After Close took effect nothing is delivered and nothing is requested, for
\* any consumer.
THEOREM QuietAfterCloseHolds == Spec => QuietAfterClose
<1>1. IInv /\ [Next]_vars =>
        [closed => delivered' = delivered /\ served' = served /\ pos' = pos]_vars
  <2> SUFFICES ASSUME IInv, [Next]_vars, closed
               PROVE  delivered' = delivered /\ served' = served /\ pos' = pos
    OBVIOUS
  <2>1. npc # "recv"
    BY DEF IInv, StreamInv
  <2> QED
    BY <2>1 DEF Next, NextCall, NextLock, NextClosed, NextPop, NextRead, RecvChunk, RecvEnd,
                RecvError, CloseCall, CloseRun, Cancel, Finished, vars, server
<1> QED
  BY <1>1, IInvInductive, PTL DEF Spec, QuietAfterClose
-----------------------------------------------------------------------------
(* The refinement of StreamContract.                                       *)

AnyDone(evs) == \E k \in DOMAIN evs : IsDone(evs[k])

\* The completion of a sequence with a Done ends with its first one.
LEMMA FirstDone ==
  ASSUME NEW evs \in Seq(Event), NEW m \in 1..Len(evs), IsDone(evs[m]),
         \A i \in 1..Len(evs) : i < m => ~IsDone(evs[i])
  PROVE  Completion(evs) = SubSeq(evs, 1, m)
<1> DEFINE dones == {i \in DOMAIN evs : IsDone(evs[i])}
<1>1. DOMAIN evs = 1..Len(evs) /\ Len(evs) \in Nat
  OBVIOUS
<1>2. m \in dones /\ \A i \in dones : m <= i
  BY <1>1
<1>3. dones # {} /\ dones \subseteq Nat
  BY <1>1, <1>2
<1> HIDE DEF dones
<1>4. Min(dones) \in dones /\ \A i \in dones : Min(dones) <= i
  <2>1. \E x \in dones : \A y \in dones : x =< y
    BY <1>2
  <2>2. Min(dones) = CHOOSE x \in dones : \A y \in dones : x =< y
    BY DEF Min
  <2> QED
    BY <2>1, <2>2
<1>5. Min(dones) = m
  <2>1. Min(dones) \in Nat /\ m \in Nat /\ m <= Min(dones) /\ Min(dones) <= m
    BY <1>2, <1>3, <1>4
  <2> QED
    BY <2>1
<1> QED
  BY <1>3, <1>5 DEF Completion, dones

LEMMA NoDone ==
  ASSUME NEW evs, ~AnyDone(evs)
  PROVE  Completion(evs) = evs
<1>1. {i \in DOMAIN evs : IsDone(evs[i])} = {}
  BY DEF AnyDone
<1> QED
  BY <1>1 DEF Completion

LEMMA HasFirstDone ==
  ASSUME NEW evs \in Seq(Event), AnyDone(evs)
  PROVE  \E m \in 1..Len(evs) : /\ IsDone(evs[m])
                                /\ \A i \in 1..Len(evs) : i < m => ~IsDone(evs[i])
<1> DEFINE dones == {i \in 1..Len(evs) : IsDone(evs[i])}
<1>1. DOMAIN evs = 1..Len(evs) /\ Len(evs) \in Nat
  OBVIOUS
<1>2. dones \in SUBSET Nat /\ dones # {}
  BY <1>1 DEF AnyDone
<1>3. \E m \in dones : \A i \in dones : m <= i
  <2> HIDE DEF dones
  <2> QED
    BY <1>2, LeastNumber
<1> QED
  BY <1>1, <1>3

LEMMA CompletionType ==
  ASSUME NEW evs \in Seq(Event)
  PROVE  Completion(evs) \in Seq(Event)
<1>1. CASE ~AnyDone(evs)
  BY <1>1, NoDone
<1>2. CASE AnyDone(evs)
  <2>1. PICK m \in 1..Len(evs) : /\ IsDone(evs[m])
                                 /\ \A i \in 1..Len(evs) : i < m => ~IsDone(evs[i])
    BY <1>2, HasFirstDone
  <2>2. Completion(evs) = SubSeq(evs, 1, m)
    BY <2>1, FirstDone
  <2> QED
    BY <2>2
<1> QED
  BY <1>1, <1>2

\* An event after a Done does not count.
LEMMA CompletionKept ==
  ASSUME NEW evs \in Seq(Event), NEW e \in Event, AnyDone(evs)
  PROVE  AnyDone(Append(evs, e)) /\ Completion(Append(evs, e)) = Completion(evs)
<1> DEFINE more == Append(evs, e)
<1>1. PICK m \in 1..Len(evs) : /\ IsDone(evs[m])
                               /\ \A i \in 1..Len(evs) : i < m => ~IsDone(evs[i])
  BY HasFirstDone
<1>2. /\ more \in Seq(Event) /\ Len(more) = Len(evs) + 1 /\ Len(evs) \in Nat
      /\ \A i \in 1..Len(evs) : more[i] = evs[i]
  OBVIOUS
<1> HIDE DEF more
<1>3. m \in 1..Len(more) /\ IsDone(more[m]) /\ \A i \in 1..Len(more) : i < m => ~IsDone(more[i])
  BY <1>1, <1>2
<1>4. Completion(more) = SubSeq(more, 1, m) /\ Completion(evs) = SubSeq(evs, 1, m)
  BY <1>1, <1>2, <1>3, FirstDone
<1>5. SubSeq(more, 1, m) = SubSeq(evs, 1, m)
  <2>1. /\ SubSeq(more, 1, m) \in Seq(Event) /\ Len(SubSeq(more, 1, m)) = m
        /\ \A i \in 1..m : SubSeq(more, 1, m)[i] = more[i]
    BY <1>2, <1>3
  <2>2. /\ SubSeq(evs, 1, m) \in Seq(Event) /\ Len(SubSeq(evs, 1, m)) = m
        /\ \A i \in 1..m : SubSeq(evs, 1, m)[i] = evs[i]
    BY <1>1
  <2>3. \A i \in 1..m : more[i] = evs[i]
    BY <1>1, <1>2
  <2> QED
    BY <2>1, <2>2, <2>3, SeqEqual
<1>6. AnyDone(more)
  <2>1. DOMAIN more = 1..Len(more)
    BY <1>2
  <2> QED
    BY <1>3, <2>1 DEF AnyDone
<1> QED
  BY <1>4, <1>5, <1>6 DEF more

\* The event after a sequence without a Done is the next one of any completion
\* that goes on with it, and the last one if it is a Done.
LEMMA CompletionDue ==
  ASSUME NEW evs \in Seq(Event), NEW e \in Event, NEW full \in Seq(Event), ~AnyDone(evs),
         Continues(full, Append(evs, e))
  PROVE  /\ Completion(evs) = evs
         /\ Completion(Append(evs, e)) = Append(evs, e)
         /\ Len(evs) < Len(Completion(full))
         /\ Completion(full)[Len(evs) + 1] = e
         /\ AnyDone(Append(evs, e)) => Completion(full) = Append(evs, e)
<1> DEFINE more == Append(evs, e)
           n == Len(evs) + 1
<1>1. /\ more \in Seq(Event) /\ Len(more) = n /\ n \in Nat \ {0} /\ DOMAIN more = 1..n
      /\ \A i \in 1..n : i < n => more[i] = evs[i] /\ i \in DOMAIN evs
      /\ more[n] = e /\ Len(evs) < n
  OBVIOUS
<1>2. Completion(evs) = evs
  BY NoDone
<1>3. \A i \in 1..n : i < n => ~IsDone(more[i])
  BY <1>1 DEF AnyDone
<1>4. Len(full) \in Nat /\ n <= Len(full) /\ \A i \in 1..n : full[i] = more[i]
  BY <1>1 DEF Continues
<1> HIDE DEF more, n
<1>5. CASE IsDone(e)
  <2>1. Completion(full) = SubSeq(full, 1, n)
    <3>1. n \in 1..Len(full) /\ IsDone(full[n]) /\ \A i \in 1..Len(full) : i < n => ~IsDone(full[i])
      BY <1>1, <1>3, <1>4, <1>5
    <3> QED
      BY <3>1, FirstDone
  <2>2. Completion(more) = SubSeq(more, 1, n)
    <3>1. n \in 1..Len(more) /\ IsDone(more[n]) /\ \A i \in 1..Len(more) : i < n => ~IsDone(more[i])
      BY <1>1, <1>3, <1>5
    <3> QED
      BY <1>1, <3>1, FirstDone
  <2>3. SubSeq(full, 1, n) = more
    <3>1. /\ SubSeq(full, 1, n) \in Seq(Event) /\ Len(SubSeq(full, 1, n)) = n
          /\ \A i \in 1..n : SubSeq(full, 1, n)[i] = full[i]
      BY <1>1, <1>4
    <3> QED
      BY <1>1, <1>4, <3>1, SeqEqual
  <2>4. SubSeq(more, 1, n) = more
    <3>1. /\ SubSeq(more, 1, n) \in Seq(Event) /\ Len(SubSeq(more, 1, n)) = n
          /\ \A i \in 1..n : SubSeq(more, 1, n)[i] = more[i]
      BY <1>1
    <3> QED
      BY <1>1, <3>1, SeqEqual
  <2> QED
    BY <1>1, <1>2, <2>1, <2>2, <2>3, <2>4 DEF more, n
<1>6. CASE ~IsDone(e)
  <2>1. ~AnyDone(more)
    BY <1>1, <1>3, <1>6 DEF AnyDone
  <2>2. Completion(more) = more
    BY <2>1, NoDone
  <2>3. CASE ~AnyDone(full)
    <3>1. Completion(full) = full
      BY <2>3, NoDone
    <3> QED
      BY <1>1, <1>2, <1>4, <2>1, <2>2, <3>1 DEF more, n
  <2>4. CASE AnyDone(full)
    <3>1. PICK m \in 1..Len(full) : /\ IsDone(full[m])
                                    /\ \A i \in 1..Len(full) : i < m => ~IsDone(full[i])
      BY <2>4, HasFirstDone
    <3>2. Completion(full) = SubSeq(full, 1, m)
      BY <3>1, FirstDone
    <3>3. n < m
      BY <1>1, <1>3, <1>4, <1>6, <3>1
    <3>4. Len(SubSeq(full, 1, m)) = m /\ SubSeq(full, 1, m)[n] = full[n]
      BY <1>1, <3>1, <3>3
    <3>5. Len(Completion(full)) = m /\ Completion(full)[n] = e
      BY <1>1, <1>4, <3>2, <3>3, <3>4
    <3>6. Len(evs) < m
      BY <1>1, <3>3
    <3>7. Len(evs) < Len(Completion(full)) /\ Completion(full)[Len(evs) + 1] = e
      BY <3>5, <3>6 DEF n
    <3> QED
      BY <1>2, <2>1, <2>2, <3>7 DEF more
  <2> QED
    BY <2>3, <2>4
<1> QED
  BY <1>5, <1>6

Acc(d) == [evs : Seq(Event), st : TrState(d)]

LEMMA ExtendedParts ==
  ASSUME NEW d, NEW acc, NEW c
  PROVE  /\ Extended(d, acc, c).evs = acc.evs \o ChunkEvents(d, acc.st, c)
         /\ Extended(d, acc, c).st = ChunkState(d, acc.st, c)
  BY DEF Extended

\* The translation goes through an answer chunk by chunk, whatever its length.
LEMMA RunSteps ==
  ASSUME NEW d \in Dialects, NEW from \in TrState(d), NEW answer \in Scripts(d)
  PROVE  /\ Run(d, from, answer) \in [0..Len(answer) -> Acc(d)]
         /\ Run(d, from, answer)[0] = Start(from)
         /\ \A k \in 1..Len(answer) : /\ answer[k] \in Chunk(d)
                                      /\ Run(d, from, answer)[k] = Extended(d, Run(d, from, answer)[k - 1], answer[k])
<1> DEFINE n == Len(answer)
           step == [p \in Acc(d) \X Chunk(d) |-> Extended(d, p[1], p[2])]
           IsRun(r) == r = [k \in 0..n |-> IF k = 0 THEN Start(from) ELSE Extended(d, r[k - 1], answer[k])]
<1>1. answer \in Seq(Chunk(d)) /\ n \in Nat /\ \A k \in 1..n : answer[k] \in Chunk(d)
  <2>1. answer \in Seq(Chunk(d))
    BY TranslatorAssumption
  <2> QED
    BY <2>1
<1>2. Start(from) \in Acc(d)
  BY TranslatorAssumption DEF Start, Acc
<1>3. \A a \in Acc(d), c \in Chunk(d) : Extended(d, a, c) \in Acc(d)
  BY TranslatorAssumption DEF Extended, Acc
<1>4. step \in [Acc(d) \X Chunk(d) -> Acc(d)]
  BY <1>3
<1> HIDE DEF step
<1>5. PICK r \in [0..Len(answer) -> Acc(d)] : GoesThrough(r, answer, Start(from), step)
  <2> HIDE DEF n
  <2> QED
    BY <1>1, <1>2, <1>4, RunExists
<1>6. r \in [0..n -> Acc(d)] /\ r[0] = Start(from) /\ \A k \in 1..n : r[k] = step[<<r[k - 1], answer[k]>>]
  BY <1>5 DEF GoesThrough
<1> HIDE DEF n
<1>7. \A k \in 0..n : r[k] = IF k = 0 THEN Start(from) ELSE Extended(d, r[k - 1], answer[k])
  <2> SUFFICES ASSUME NEW k \in 0..n, k # 0 PROVE r[k] = Extended(d, r[k - 1], answer[k])
    BY <1>6
  <2>1. k \in 1..n /\ k - 1 \in 0..n
    BY <1>1
  <2>2. r[k - 1] \in Acc(d) /\ answer[k] \in Chunk(d)
    BY <1>1, <1>6, <2>1
  <2> QED
    BY <1>6, <2>1, <2>2 DEF step
<1>8. IsRun(r)
  BY <1>6, <1>7
<1>9. Run(d, from, answer) = CHOOSE acc : IsRun(acc)
  BY DEF Run, n
<1>10. IsRun(Run(d, from, answer))
  <2> HIDE DEF IsRun
  <2> QED
    BY <1>8, <1>9
<1>11. /\ Run(d, from, answer)[0] = Start(from)
       /\ \A k \in 1..n : Run(d, from, answer)[k] = Extended(d, Run(d, from, answer)[k - 1], answer[k])
  <2>1. 0 \in 0..n /\ \A k \in 1..n : k \in 0..n /\ k # 0
    BY <1>1
  <2> QED
    BY <1>10, <2>1
<1>12. \A k \in 0..n : Run(d, from, answer)[k] \in Acc(d)
  <2> DEFINE P == {k \in 0..n : Run(d, from, answer)[k] \in Acc(d)}
  <2>1. 0 \in P
    BY <1>1, <1>2, <1>11
  <2>2. ASSUME NEW k \in 0..n, k # n, k \in P PROVE k + 1 \in P
    <3>1. k + 1 \in 1..n /\ k + 1 \in 0..n /\ (k + 1) - 1 = k
      BY <1>1, <2>2
    <3>2. Run(d, from, answer)[k + 1] = Extended(d, Run(d, from, answer)[k], answer[k + 1])
      BY <1>11, <3>1
    <3> QED
      BY <1>1, <1>3, <2>2, <3>1, <3>2
  <2>3. \A k \in 0..n : k \in P
    <3> HIDE DEF P
    <3> QED
      BY <1>1, <2>1, <2>2, UpTo
  <2> QED
    BY <2>3
<1>13. Run(d, from, answer) \in [0..n -> Acc(d)]
  BY <1>10, <1>12
<1> QED
  BY <1>1, <1>11, <1>13 DEF n


\* An answer starts in a state of the translator.
LEMMA StartsType ==
  ASSUME NEW d \in Dialects
  PROVE  Starts(d) \subseteq TrState(d)
<1> SUFFICES ASSUME NEW st \in Starts(d) PROVE st \in TrState(d)
  OBVIOUS
<1>1. PICK answer \in Scripts(d) : st \in {Run(d, TrInit(d), answer)[k].st : k \in Silent(d, answer)}
  BY DEF Starts
<1>2. PICK k \in 0..Len(answer) : st = Run(d, TrInit(d), answer)[k].st
  BY <1>1 DEF Silent
<1>3. Run(d, TrInit(d), answer)[k] \in Acc(d)
  BY RunSteps, TranslatorAssumption
<1> QED
  BY <1>2, <1>3 DEF Acc

\* A new reader may start, and so may one that read chunks without an event.
LEMMA SilentStarts ==
  ASSUME NEW d \in Dialects, NEW answer \in Scripts(d)
  PROVE  /\ TrInit(d) \in Starts(d)
         /\ \A k \in 0..Len(answer) :
              Run(d, TrInit(d), answer)[k].evs = <<>> => Run(d, TrInit(d), answer)[k].st \in Starts(d)
<1>1. \A k \in 0..Len(answer) :
        Run(d, TrInit(d), answer)[k].evs = <<>> => Run(d, TrInit(d), answer)[k].st \in Starts(d)
  BY DEF Silent, Starts
<1>2. Len(answer) \in Nat
  <2>1. answer \in Seq(Chunk(d))
    BY TranslatorAssumption
  <2> QED
    BY <2>1
<1>3. 0 \in 0..Len(answer) /\ Run(d, TrInit(d), answer)[0] = Start(TrInit(d))
  BY <1>2, RunSteps, TranslatorAssumption
<1>4. Start(TrInit(d)).evs = <<>> /\ Start(TrInit(d)).st = TrInit(d)
  BY DEF Start
<1>5. TrInit(d) \in Starts(d)
  BY <1>1, <1>3, <1>4
<1> QED
  BY <1>1, <1>5

\* The events of the first chunks are the beginning of those of all.
LEMMA RunContinues ==
  ASSUME NEW d \in Dialects, NEW from \in TrState(d), NEW answer \in Scripts(d),
         NEW k \in 0..Len(answer)
  PROVE  /\ Run(d, from, answer)[Len(answer)].evs \in Seq(Event)
         /\ Continues(Run(d, from, answer)[Len(answer)].evs, Run(d, from, answer)[k].evs)
<1> DEFINE n == Len(answer)
           evs == [i \in 0..n |-> Run(d, from, answer)[i].evs]
<1>1. n \in Nat /\ n \in 0..n
  <2>1. answer \in Seq(Chunk(d))
    BY TranslatorAssumption
  <2> QED
    BY <2>1
<1>2. \A i \in 0..n : Run(d, from, answer)[i].evs \in Seq(Event) /\ Run(d, from, answer)[i].st \in TrState(d)
  BY RunSteps DEF Acc
<1>3. evs \in [0..n -> Seq(Event)]
  BY <1>2
<1>4. ASSUME NEW i \in 1..n PROVE Continues(evs[i], evs[i - 1])
  <2> DEFINE before == Run(d, from, answer)[i - 1]
             more == ChunkEvents(d, before.st, answer[i])
  <2>1. i \in 0..n /\ i - 1 \in 0..n
    BY <1>1
  <2>2. answer[i] \in Chunk(d) /\ Run(d, from, answer)[i] = Extended(d, before, answer[i])
    BY RunSteps
  <2>3. before.evs \in Seq(Event) /\ more \in Seq(Event)
    BY <1>2, <2>1, <2>2, TranslatorAssumption
  <2>4. Run(d, from, answer)[i].evs = before.evs \o more
    <3> DEFINE c == answer[i]
    <3>1. Run(d, from, answer)[i] = Extended(d, before, c)
      BY <2>2
    <3> HIDE DEF before, c
    <3>2. Extended(d, before, c).evs = before.evs \o ChunkEvents(d, before.st, c)
      BY ExtendedParts
    <3> QED
      BY <3>1, <3>2 DEF c
  <2>5. evs[i] = before.evs \o more /\ evs[i - 1] = before.evs
    BY <2>1, <2>4
  <2> HIDE DEF before, more, evs
  <2> QED
    BY <2>3, <2>5, ConcatContinues
<1>5. evs[n] = Run(d, from, answer)[Len(answer)].evs /\ evs[k] = Run(d, from, answer)[k].evs
  BY <1>1
<1> HIDE DEF evs, n
<1>6. k \in 0..n /\ evs[n] \in Seq(Event)
  BY <1>1, <1>3 DEF n
<1>7. Continues(evs[n], evs[k])
  BY <1>1, <1>3, <1>4, <1>6, RunGrows
<1> QED
  BY <1>5, <1>6, <1>7

\* While no Done was delivered, an open stream has told the translation of the
\* chunks read, from a state in which an answer may start.
Told == Untagged(delivered) \o Untagged(queue)
ReadingFrom(st) ==
  /\ ~retried => st = TrInit(dialect)
  /\ pos \in 0..Len(Answer)
  /\ Told = Run(dialect, st, Answer)[pos].evs
  /\ tr = Run(dialect, st, Answer)[pos].st
Reading ==
  /\ \A k \in DOMAIN delivered : delivered[k].req = Len(served)
  /\ deliveredByte \/ delivered = <<>>
  /\ \E st \in Starts(dialect) : ReadingFrom(st)

\* Before a stream is opened nothing was delivered.
Waiting == delivered = <<>> /\ IF retried THEN tr \in Starts(dialect) ELSE tr = TrInit(dialect)

\* From a Done on the completion is whole, although a consumer may go on reading
\* and a failure may even start a second request.
DoneShown == AnyDone(Untagged(delivered))
TranslationInv ==
  Disciplined =>
    /\ \A k \in DOMAIN delivered : delivered[k].req \in Requests
    /\ DoneShown => Log = Source
    /\ ~DoneShown /\ stream = 0 /\ ~closed /\ npc # "over" => Waiting
    /\ ~DoneShown /\ stream # 0 => Reading

LEMMA InitTranslationInv == Init => TranslationInv
<1> SUFFICES ASSUME Init PROVE TranslationInv
  OBVIOUS
<1>1. delivered = <<>> /\ Untagged(delivered) = <<>>
  BY UntaggedNone DEF Init
<1> QED
  BY <1>1 DEF Init, TranslationInv, Waiting, DoneShown, AnyDone

\* The sequences of the reader without their tags.
LEMMA UntaggedQueue ==
  ASSUME TypeOK
  PROVE  /\ delivered \in Seq(Tagged) /\ Untagged(delivered) \in Seq(Event)
         /\ Len(Untagged(delivered)) = Len(delivered)
         /\ queue \in Seq(Tagged) /\ Untagged(queue) \in Seq(Event)
<1>1. delivered \in Seq(Tagged) /\ queue \in Seq(Tagged)
  BY DEF TypeOK
<1>2. \A e \in Tagged : e.ev \in Event
  BY DEF Tagged
<1> QED
  BY <1>1, <1>2, UntaggedType

\* The body of a request.
LEMMA AnswerType ==
  ASSUME TypeOK, served # <<>>
  PROVE  /\ Answer \in Scripts(dialect) /\ Answer \in Seq(Chunk(dialect)) /\ Len(Answer) \in Nat
         /\ Len(served) \in Nat \ {0} /\ dialect \in Dialects
<1>1. Len(served) \in DOMAIN served /\ Len(served) \in Nat \ {0} /\ dialect \in Dialects
  BY DEF TypeOK
<1>2. Answer \in Scripts(dialect)
  BY <1>1 DEF TypeOK, Answer
<1>3. Answer \in Seq(Chunk(dialect))
  BY <1>1, <1>2, TranslatorAssumption
<1> QED
  BY <1>1, <1>2, <1>3

LEMMA StreamServed ==
  ASSUME TypeOK, stream # 0
  PROVE  served # <<>> /\ stream = Len(served)
  BY DEF TypeOK

\* Popping moves the first event from the queue to the end of what was delivered.
LEMMA PopTold ==
  ASSUME TypeOK, NextPop
  PROVE  /\ Told' = Told
         /\ Untagged(queue) # <<>>
         /\ Untagged(delivered') = Append(Untagged(delivered), Head(Untagged(queue)))
<1>1. /\ queue # <<>> /\ queue' = Tail(queue) /\ delivered' = Append(delivered, Head(queue))
  BY DEF NextPop, PopHead
<1>2. /\ delivered \in Seq(Tagged) /\ Untagged(delivered) \in Seq(Event)
      /\ queue \in Seq(Tagged) /\ Untagged(queue) \in Seq(Event)
  BY UntaggedQueue
<1>3. /\ Untagged(queue) # <<>>
      /\ Head(Untagged(queue)) = Head(queue).ev
      /\ Untagged(Append(delivered, Head(queue))) = Append(Untagged(delivered), Head(queue).ev)
      /\ Untagged(Tail(queue)) = Tail(Untagged(queue))
  BY <1>1, <1>2, UntaggedPop
<1>4. /\ Untagged(delivered') = Append(Untagged(delivered), Head(Untagged(queue)))
      /\ Untagged(queue') = Tail(Untagged(queue))
  BY <1>1, <1>3
<1>5. Append(Untagged(delivered), Head(Untagged(queue))) \o Tail(Untagged(queue))
        = Untagged(delivered) \o Untagged(queue)
  BY <1>2, <1>3, PopConcat
<1> QED
  BY <1>3, <1>4, <1>5 DEF Told

\* What stays the same whatever step is taken, and the events that only NextPop
\* delivers.
LEMMA Unchanging ==
  ASSUME [Next]_vars
  PROVE  /\ habit' = habit /\ dialect' = dialect
         /\ ~NextPop => delivered' = delivered
         /\ ~NextRead => served' = served
         /\ closed => closed'
<1>1. habit' = habit /\ dialect' = dialect
  BY DEF Next, NextCall, NextLock, NextClosed, NextPop, NextRead, RecvChunk, RecvEnd, RecvError,
         CloseCall, CloseRun, Cancel, Finished, vars
<1>2. ~NextPop => delivered' = delivered
  BY DEF Next, NextCall, NextLock, NextClosed, NextRead, RecvChunk, RecvEnd, RecvError,
         CloseCall, CloseRun, Cancel, Finished, vars
<1>3. ~NextRead => served' = served
  BY DEF Next, NextCall, NextLock, NextClosed, NextPop, RecvChunk, RecvEnd, RecvError,
         CloseCall, CloseRun, Cancel, Finished, vars, server
<1>4. closed => closed'
  BY DEF Next, NextCall, NextLock, NextClosed, NextPop, NextRead, RecvChunk, RecvEnd, RecvError,
         CloseCall, CloseRun, Cancel, Finished, vars, reader
<1> QED
  BY <1>1, <1>2, <1>3, <1>4

\* The request an event came from is one of those sent, and stays what it was.
LEMMA RequestsKept ==
  ASSUME IInv, [Next]_vars
  PROVE  /\ Requests \subseteq Requests'
         /\ \A r \in Requests : served'[r] = served[r]
<1>1. CASE NextRead
  <2>1. CASE stream = 0
    <3>1. PICK body \in Scripts(dialect) : served' = Append(served, body)
      BY <1>1, <2>1 DEF NextRead
    <3> QED
      BY <3>1 DEF Requests, IInv, TypeOK
  <2>2. CASE stream # 0
    BY <1>1, <2>2 DEF NextRead, server, Requests
  <2> QED
    BY <2>1, <2>2
<1>2. CASE ~NextRead
  BY <1>2, Unchanging DEF Requests
<1> QED
  BY <1>1, <1>2

\* With an empty queue, events that are queued follow the delivered ones.
LEMMA QueueTold ==
  ASSUME TypeOK, served # <<>>, queue = <<>>, delivered' = delivered,
         NEW evs \in Seq(Event), queue' = queue \o TagAll(evs)
  PROVE  Told' = Told \o evs
<1>1. TagAll(evs) \in Seq(Tagged) /\ DOMAIN TagAll(evs) = DOMAIN evs
      /\ \A i \in DOMAIN evs : TagAll(evs)[i].ev = evs[i]
  BY TagAllType DEF TypeOK, TagAll
<1>2. queue' = TagAll(evs)
  BY <1>1
<1>3. Untagged(TagAll(evs)) = evs
  <2>1. Untagged(TagAll(evs)) = [i \in DOMAIN evs |-> evs[i]]
    BY <1>1 DEF Untagged
  <2> QED
    BY <2>1
<1>4. Told' = Untagged(delivered) \o evs
  BY <1>2, <1>3 DEF Told
<1>5. Told = Untagged(delivered)
  <2>1. Untagged(delivered) \o <<>> = Untagged(delivered)
    BY UntaggedQueue, ConcatEmptySeq
  <2> QED
    BY <2>1, UntaggedNone DEF Told
<1> QED
  BY <1>4, <1>5

\* A stream that is read further, and the steps that leave it alone.
LEMMA ChunkReading ==
  ASSUME IInv, Reading, RecvChunk
  PROVE  Reading'
<1> DEFINE c == Answer[pos + 1]
           evs == ChunkEvents(dialect, tr, c)
<1>1. stream # 0 /\ queue = <<>> /\ served # <<>> /\ pos < Len(Answer)
  BY StreamServed DEF RecvChunk, IInv, StreamInv, Answer
<1>2. /\ Answer \in Scripts(dialect) /\ Len(Answer) \in Nat /\ dialect \in Dialects
  BY <1>1, AnswerType DEF IInv
<1>3. PICK st \in Starts(dialect) : ReadingFrom(st)
  BY DEF Reading
<1>4. /\ ~retried => st = TrInit(dialect)
      /\ pos \in 0..Len(Answer)
      /\ Told = Run(dialect, st, Answer)[pos].evs
      /\ tr = Run(dialect, st, Answer)[pos].st
  BY <1>3 DEF ReadingFrom
<1>5. pos + 1 \in 1..Len(Answer) /\ pos + 1 \in 0..Len(Answer) /\ (pos + 1) - 1 = pos
  BY <1>1, <1>2, <1>4
<1>6. st \in TrState(dialect)
  BY <1>2, StartsType
<1>7. c \in Chunk(dialect) /\ Run(dialect, st, Answer)[pos + 1] = Extended(dialect, Run(dialect, st, Answer)[pos], c)
  BY <1>2, <1>5, <1>6, RunSteps
<1>8. evs \in Seq(Event)
  BY <1>2, <1>7, TranslatorAssumption DEF IInv, TypeOK
<1>9. /\ queue' = queue \o TagAll(evs) /\ tr' = ChunkState(dialect, tr, c) /\ pos' = pos + 1
      /\ UNCHANGED <<dialect, delivered, served, retried, deliveredByte>> /\ Answer' = Answer
  BY DEF RecvChunk, Answer
<1>10. /\ Run(dialect, st, Answer)[pos + 1].evs = Told \o evs
       /\ Run(dialect, st, Answer)[pos + 1].st = ChunkState(dialect, tr, c)
  <2> DEFINE before == Run(dialect, st, Answer)[pos]
  <2>1. Told = before.evs /\ tr = before.st
    BY <1>4
  <2> HIDE DEF before, c
  <2>2. /\ Extended(dialect, before, c).evs = Told \o ChunkEvents(dialect, tr, c)
        /\ Extended(dialect, before, c).st = ChunkState(dialect, tr, c)
    BY <2>1, ExtendedParts
  <2> QED
    BY <1>7, <2>2 DEF before
<1> HIDE DEF evs, c
<1>11. Told' = Told \o evs
  BY <1>1, <1>8, <1>9, QueueTold DEF IInv
<1>12. ReadingFrom(st)'
  BY <1>4, <1>5, <1>9, <1>10, <1>11 DEF ReadingFrom
<1> QED
  BY <1>9, <1>12 DEF Reading

LEMMA SameReading ==
  ASSUME Reading, UNCHANGED <<dialect, queue, retried, deliveredByte, tr, served, pos, delivered>>
  PROVE  Reading'
<1>1. Answer' = Answer /\ Told' = Told
  BY DEF Answer, Told
<1> QED
  BY <1>1 DEF Reading, ReadingFrom

\* A popped event that is no Done leaves the rest to be told.
LEMMA PopReading ==
  ASSUME IInv, Reading, NextPop, ~IsDone(Head(queue).ev)
  PROVE  Reading'
<1>1. /\ queue # <<>> /\ delivered' = Append(delivered, Head(queue)) /\ deliveredByte'
      /\ UNCHANGED <<dialect, tr, served, retried, pos>> /\ Answer' = Answer
  BY DEF NextPop, server, Answer, CountsAsByte
<1>2. Told' = Told
  BY PopTold DEF IInv
<1>3. Head(queue).req = Len(served)
  BY <1>1, HeadType DEF IInv, TypeOK, SourceInv
<1>4. \A k \in DOMAIN delivered' : delivered'[k].req = Len(served)
  BY <1>1, <1>3, HeadType DEF Reading, IInv, TypeOK
<1> QED
  BY <1>1, <1>2, <1>4 DEF Reading, ReadingFrom

\* The body of a new request has told nothing.
LEMMA OpenReading ==
  ASSUME IInv, Waiting, NextRead, stream = 0, ~closed
  PROVE  Reading'
<1>1. PICK body \in Scripts(dialect) : served' = Append(served, body)
  BY DEF NextRead
<1>2. /\ queue = <<>> /\ delivered = <<>> /\ pos' = 0
      /\ UNCHANGED <<dialect, queue, retried, deliveredByte, tr, delivered>>
  BY DEF NextRead, Waiting
<1>3. served' \in Seq(Scripts(dialect)) /\ Answer' = body
  BY <1>1 DEF IInv, TypeOK, Answer
<1>4. dialect \in Dialects /\ Len(body) \in Nat
  <2>1. dialect \in Dialects
    BY DEF IInv, TypeOK
  <2>2. body \in Seq(Chunk(dialect))
    BY <2>1, TranslatorAssumption
  <2> QED
    BY <2>1, <2>2
<1>5. tr \in Starts(dialect)
  BY <1>1, <1>4, SilentStarts DEF Waiting
<1>6. Run(dialect, tr, body)[0] = Start(tr)
  BY <1>1, <1>4, RunSteps DEF IInv, TypeOK
<1>7. Start(tr).evs = <<>> /\ Start(tr).st = tr
  BY DEF Start
<1>8. Told' = <<>>
  BY <1>2, UntaggedNone DEF Told
<1>9. ~retried => tr = TrInit(dialect)
  BY DEF Waiting
<1>10. ReadingFrom(tr)'
  BY <1>2, <1>3, <1>4, <1>6, <1>7, <1>8, <1>9 DEF ReadingFrom
<1> QED
  BY <1>2, <1>5, <1>10 DEF Reading

\* A retry waits again: the answer that failed showed no event.
LEMMA RetryWaiting ==
  ASSUME IInv, Reading, RecvError, MayRetry
  PROVE  Waiting'
<1>1. /\ stream # 0 /\ queue = <<>> /\ delivered = <<>> /\ ~retried
      /\ UNCHANGED <<dialect, delivered, tr>>
  BY DEF RecvError, MayRetry, IInv, StreamInv, Reading
<1>2. retried'
  BY DEF RecvError
<1>3. dialect \in Dialects /\ Answer \in Scripts(dialect)
  BY <1>1, StreamServed, AnswerType DEF IInv
<1>4. /\ pos \in 0..Len(Answer) /\ Told = Run(dialect, TrInit(dialect), Answer)[pos].evs
      /\ tr = Run(dialect, TrInit(dialect), Answer)[pos].st
  BY <1>1 DEF Reading, ReadingFrom
<1>5. Told = <<>>
  BY <1>1, UntaggedNone DEF Told
<1>6. tr \in Starts(dialect)
  BY <1>3, <1>4, <1>5, SilentStarts
<1> QED
  BY <1>1, <1>2, <1>6 DEF Waiting

\* The translation of the answer that is read.
Whole == Translation[dialect][Answer]

\* A pop without an earlier Done delivers the next event of the answer, and its
\* last one if it is a Done.
LEMMA PopDue ==
  ASSUME IInv, Reading, NextPop, Disciplined, ~DoneShown
  PROVE  /\ Log' = Append(Log, Head(Untagged(queue)))
         /\ Len(Log) < Len(Whole) /\ Whole[Len(Log) + 1] = Head(Untagged(queue))
         /\ Log = <<>> \/ Source = Whole
         /\ Source' = Whole /\ Whole \in AllCompletions
         /\ DoneShown' => Log' = Whole
<1> DEFINE evs == Untagged(delivered)
           rest == Untagged(queue)
           e == Head(rest)
<1>1. /\ stream # 0 /\ served # <<>> /\ dialect \in Dialects
      /\ Answer \in Scripts(dialect) /\ Len(Answer) \in Nat
  <2>1. stream # 0
    BY DEF NextPop, IInv, StreamInv
  <2> QED
    BY <2>1, StreamServed, AnswerType DEF IInv
<1>2. /\ UNCHANGED <<dialect, habit, served>> /\ Answer' = Answer
      /\ delivered' = Append(delivered, Head(queue)) /\ queue # <<>>
  BY DEF NextPop, server, Answer
<1>3. evs \in Seq(Event) /\ rest \in Seq(Event) /\ rest # <<>> /\ evs' = Append(evs, e)
  BY UntaggedQueue, PopTold DEF IInv
<1>4. e \in Event
  BY <1>3
<1>5. PICK st \in Starts(dialect) : ReadingFrom(st)
  BY DEF Reading
<1> DEFINE full == Run(dialect, st, Answer)[Len(Answer)].evs
<1>6. full \in Seq(Event) /\ Continues(full, evs \o rest)
  BY <1>1, <1>5, StartsType, RunContinues DEF ReadingFrom, Told
<1>7. Whole = Completion(full)
  BY <1>1, FreshStartAssumption DEF Whole, Translation, Completed
<1>8. Continues(full, Append(evs, e))
  <2>1. Append(evs, e) \o Tail(rest) = evs \o rest
    BY <1>3, PopConcat
  <2>2. Append(evs, e) \in Seq(Event) /\ Tail(rest) \in Seq(Event)
    BY <1>3, <1>4
  <2>3. Continues(evs \o rest, Append(evs, e))
    <3> HIDE DEF evs, rest, e
    <3> QED
      BY <2>1, <2>2, ConcatContinues
  <2>4. Len(evs \o rest) \in Nat /\ Len(Append(evs, e)) \in Nat
    BY <1>3, <2>2
  <2> HIDE DEF evs, rest, e, full
  <2> QED
    BY <1>6, <2>3, <2>4 DEF Continues
<1>9. ~AnyDone(evs) /\ (DoneShown' <=> AnyDone(Append(evs, e)))
  BY <1>3 DEF DoneShown
<1>10. Log = Completion(evs) /\ Log' = Completion(Append(evs, e))
  BY <1>2, <1>3 DEF Log, Events, Untagged, Disciplined
<1> HIDE DEF evs, rest, e, full
<1>11. /\ Log = evs /\ Log' = Append(evs, e)
       /\ Len(evs) < Len(Whole) /\ Whole[Len(evs) + 1] = e
       /\ DoneShown' => Whole = Append(evs, e)
  BY <1>3, <1>4, <1>6, <1>7, <1>8, <1>9, <1>10, CompletionDue
<1>12. Whole \in AllCompletions
  BY <1>1 DEF Whole, AllCompletions
<1>13. \A k \in DOMAIN delivered : delivered[k].req = Len(served)
  BY DEF Reading
<1>14. Log = <<>> \/ Source = Whole
  <2> SUFFICES ASSUME Log # <<>> PROVE Source = Whole
    OBVIOUS
  <2>1. delivered # <<>>
    BY <1>11, UntaggedNone DEF evs
  <2>2. 1 \in DOMAIN delivered
    BY <2>1, UntaggedQueue DEF IInv
  <2> QED
    BY <1>13, <2>2 DEF Source, Whole, Answer
<1>15. Source' = Whole
  <2>1. Log' # <<>>
    BY <1>3, <1>4, <1>11
  <2>2. delivered'[1].req = Len(served)
    <3>1. Head(queue).req = Len(served)
      BY <1>2, HeadType DEF IInv, TypeOK, SourceInv
    <3>2. /\ delivered \in Seq(Tagged) /\ Head(queue) \in Tagged
      BY <1>2, HeadType, UntaggedQueue DEF IInv
    <3>3. delivered'[1] = IF delivered = <<>> THEN Head(queue) ELSE delivered[1]
      BY <1>2, <3>2
    <3>4. delivered # <<>> => 1 \in DOMAIN delivered
      BY <3>2
    <3> QED
      BY <1>13, <3>1, <3>3, <3>4
  <2> QED
    BY <1>2, <2>1, <2>2 DEF Source, Whole, Answer
<1> QED
  BY <1>11, <1>12, <1>14, <1>15 DEF e, rest

\* After a Done nothing changes the completion or the answer it is from.
LEMMA DoneKept ==
  ASSUME IInv, TranslationInv, [Next]_vars, Disciplined, DoneShown
  PROVE  DoneShown' /\ Log' = Log /\ Source' = Source
<1> DEFINE evs == Untagged(delivered)
<1>1. /\ evs \in Seq(Event) /\ delivered \in Seq(Tagged)
      /\ DOMAIN evs = DOMAIN delivered /\ AnyDone(evs)
  <2>1. \A x \in Tagged : x.ev \in Event
    BY DEF Tagged
  <2> QED
    BY <2>1, UntaggedQueue, UntaggedType DEF IInv, DoneShown
<1>2. 1 \in DOMAIN delivered /\ delivered[1].req \in Requests
  <2>1. DOMAIN delivered # {} /\ DOMAIN delivered = 1..Len(delivered) /\ Len(delivered) \in Nat
    BY <1>1 DEF AnyDone
  <2> QED
    BY <2>1 DEF TranslationInv
<1>3. Disciplined' /\ dialect' = dialect
  BY Unchanging DEF Disciplined
<1>4. /\ AnyDone(evs') /\ Completion(evs') = Completion(evs)
      /\ delivered'[1] = delivered[1]
  <2>1. CASE NextPop
    <3>1. evs' = Append(evs, Head(Untagged(queue))) /\ Head(Untagged(queue)) \in Event
      BY <2>1, PopTold, UntaggedQueue DEF IInv
    <3>2. delivered' = Append(delivered, Head(queue)) /\ Head(queue) \in Tagged
      BY <2>1, HeadType DEF NextPop, IInv
    <3>3. delivered'[1] = delivered[1]
      BY <1>1, <1>2, <3>2
    <3> HIDE DEF evs
    <3> QED
      BY <1>1, <3>1, <3>3, CompletionKept
  <2>2. CASE ~NextPop
    BY <1>1, <2>2, Unchanging
  <2> QED
    BY <2>1, <2>2
<1>5. Log = Completion(evs) /\ Log' = Completion(evs')
  BY <1>3 DEF Log, Events, Untagged
<1>6. served'[delivered'[1].req] = served[delivered[1].req]
  BY <1>2, <1>4, RequestsKept
<1> QED
  BY <1>3, <1>4, <1>5, <1>6 DEF DoneShown, Source

\* A step before the first Done goes on with the waiting or the reading.
LEMMA NextReading ==
  ASSUME IInv, IInv', TranslationInv, [Next]_vars, Disciplined, ~DoneShown, ~DoneShown'
  PROVE  /\ stream' = 0 /\ ~closed' /\ npc' # "over" => Waiting'
         /\ stream' # 0 => Reading'
<1> DEFINE Goal == /\ stream' = 0 /\ ~closed' /\ npc' # "over" => Waiting'
                   /\ stream' # 0 => Reading'
<1> SUFFICES Goal
  OBVIOUS
<1> USE DEF TranslationInv
<1>w. ASSUME UNCHANGED <<dialect, retried, tr, delivered>> PROVE Waiting => Waiting'
  BY <1>w DEF Waiting
<1>s. ASSUME UNCHANGED <<dialect, reader, server, delivered>>, npc # "over" \/ npc' = npc PROVE Goal
  <2>1. UNCHANGED <<stream, queue, retried, deliveredByte, closed, tr, served, pos>>
    BY <1>s DEF reader, server
  <2>2. stream' # 0 => Reading'
    BY <1>s, <2>1, SameReading
  <2>3. stream' = 0 /\ ~closed' /\ npc' # "over" => Waiting'
    BY <1>s, <1>w, <2>1
  <2> QED
    BY <2>2, <2>3
<1>r. npc = "recv" => stream # 0 /\ Reading
  BY DEF IInv, StreamInv
<1>1. CASE NextCall \/ NextLock \/ NextClosed
  <2>1. UNCHANGED <<dialect, reader, server, delivered>> /\ npc # "over"
    BY <1>1 DEF NextCall, NextLock, NextClosed
  <2> QED
    BY <1>s, <2>1
<1>2. CASE NextPop
  <2>1. stream # 0 /\ stream' = stream /\ Reading
    BY <1>2 DEF NextPop, IInv, StreamInv
  <2>2. ~IsDone(Head(queue).ev)
    <3> SUFFICES ASSUME IsDone(Head(queue).ev) PROVE FALSE
      OBVIOUS
    <3>1. /\ delivered' = Append(delivered, Head(queue))
          /\ delivered' \in Seq(Tagged) /\ delivered \in Seq(Tagged)
      BY <1>2 DEF NextPop, IInv, TypeOK
    <3>2. Len(delivered') \in DOMAIN delivered' /\ delivered'[Len(delivered')] = Head(queue)
      BY <3>1
    <3>3. /\ DOMAIN Untagged(delivered') = DOMAIN delivered'
          /\ Untagged(delivered')[Len(delivered')] = Head(queue).ev
      BY <3>2 DEF Untagged
    <3> QED
      BY <3>2, <3>3 DEF DoneShown, AnyDone
  <2> QED
    BY <1>2, <2>1, <2>2, PopReading
<1>3. CASE NextRead
  <2>1. CASE stream = 0
    <3>1. stream' # 0 /\ ~closed /\ Waiting
      BY <1>3, <2>1 DEF NextRead, IInv, TypeOK
    <3> QED
      BY <1>3, <2>1, <3>1, OpenReading
  <2>2. CASE stream # 0
    <3>1. UNCHANGED <<dialect, reader, server, delivered>> /\ npc # "over"
      BY <1>3, <2>2 DEF NextRead, reader, server
    <3> QED
      BY <1>s, <3>1
  <2> QED
    BY <2>1, <2>2
<1>4. CASE RecvChunk
  <2>1. stream' = stream /\ npc = "recv"
    BY <1>4 DEF RecvChunk
  <2> QED
    BY <1>4, <1>r, <2>1, ChunkReading
<1>5. CASE RecvEnd
  <2>1. stream' = 0 /\ npc' = "over"
    BY <1>5 DEF RecvEnd, DropStream, Return, Stops, Disciplined
  <2> QED
    BY <2>1
<1>6. CASE RecvError
  <2>1. stream' = 0 /\ Reading
    BY <1>6, <1>r DEF RecvError, DropStream
  <2>2. CASE MayRetry
    BY <1>6, <2>1, <2>2, RetryWaiting
  <2>3. CASE ~MayRetry
    <3>1. npc' = "over"
      BY <1>6, <2>3 DEF RecvError, Return, Stops, Disciplined
    <3> QED
      BY <2>1, <3>1
  <2> QED
    BY <2>2, <2>3
<1>7. ASSUME NEW c \in Closers, CloseCall(c) PROVE Goal
  <2>1. UNCHANGED <<dialect, reader, server, delivered, npc>>
    BY <1>7 DEF CloseCall
  <2> QED
    BY <1>s, <2>1
<1>8. ASSUME NEW c \in Closers, CloseRun(c) PROVE Goal
  <2>1. stream' = 0 /\ closed'
    BY <1>8 DEF CloseRun, DropStream
  <2> QED
    BY <2>1
<1>9. CASE Cancel \/ UNCHANGED vars
  <2>1. UNCHANGED <<dialect, reader, server, delivered, npc>>
    BY <1>9 DEF Cancel, vars
  <2> QED
    BY <1>s, <2>1
<1> HIDE DEF Goal, TranslationInv
<1> QED
  BY <1>1, <1>2, <1>3, <1>4, <1>5, <1>6, <1>7, <1>8, <1>9 DEF Next, Finished

LEMMA NextTranslationInv ==
  ASSUME IInv, IInv', TranslationInv, [Next]_vars
  PROVE  TranslationInv'
<1> SUFFICES ASSUME Disciplined' PROVE TranslationInv'
  BY DEF TranslationInv
<1>1. Disciplined
  BY Unchanging DEF Disciplined
<1>2. \A k \in DOMAIN delivered' : delivered'[k].req \in Requests'
  <2>1. CASE NextPop
    <3>1. delivered' = Append(delivered, Head(queue)) /\ Head(queue) \in Tagged /\ delivered \in Seq(Tagged)
      BY <2>1, HeadType DEF NextPop, IInv, TypeOK
    <3>2. stream # 0 /\ Head(queue).req = Len(served)
      BY <2>1, HeadType DEF NextPop, IInv, TypeOK, SourceInv, StreamInv
    <3>3. Len(served) \in Requests
      BY <3>2, StreamServed DEF IInv, TypeOK, Requests
    <3>4. \A k \in DOMAIN delivered' : delivered'[k].req \in Requests
      BY <1>1, <3>1, <3>2, <3>3 DEF TranslationInv
    <3> QED
      BY <3>4, RequestsKept
  <2>2. CASE ~NextPop
    BY <1>1, <2>2, Unchanging, RequestsKept DEF TranslationInv
  <2> QED
    BY <2>1, <2>2
<1>3. DoneShown' => Log' = Source'
  <2>1. CASE DoneShown
    BY <1>1, <2>1, DoneKept DEF TranslationInv
  <2>2. CASE ~DoneShown /\ ~NextPop
    BY <2>2, Unchanging DEF DoneShown
  <2>3. CASE ~DoneShown /\ NextPop
    <3>1. Reading
      BY <1>1, <2>3 DEF NextPop, IInv, StreamInv, TranslationInv
    <3> QED
      BY <1>1, <2>3, <3>1, PopDue
  <2> QED
    BY <2>1, <2>2, <2>3
<1>4. /\ ~DoneShown' /\ stream' = 0 /\ ~closed' /\ npc' # "over" => Waiting'
      /\ ~DoneShown' /\ stream' # 0 => Reading'
  <2> SUFFICES ASSUME ~DoneShown'
               PROVE  /\ stream' = 0 /\ ~closed' /\ npc' # "over" => Waiting'
                      /\ stream' # 0 => Reading'
    OBVIOUS
  <2>1. ~DoneShown
    BY <1>1, DoneKept
  <2> QED
    BY <1>1, <2>1, NextReading
<1> QED
  BY <1>2, <1>3, <1>4 DEF TranslationInv

\* The invariants together hold in every reachable state.
LEMMA Translated == Spec => [](IInv /\ TranslationInv)
<1>1. IInv /\ IInv' /\ TranslationInv /\ [Next]_vars => TranslationInv'
  BY NextTranslationInv
<1> QED
  BY <1>1, InitTranslationInv, IInvInductive, PTL DEF Spec

\* A consumer outside of the contract is mapped to one state.
LEMMA UndisciplinedStutters ==
  ASSUME [Next]_vars, ~Disciplined
  PROVE  UNCHANGED <<Log, Source, Status>>
<1>1. ~Disciplined'
  BY Unchanging DEF Disciplined
<1> QED
  BY <1>1 DEF Log, Source, Status

\* A step that pops delivers the next event of the answer, or one after its Done.
LEMMA PopMapped ==
  ASSUME IInv, TranslationInv, NextPop, Disciplined
  PROVE  Contract!Deliver \/ UNCHANGED <<Log, Source, Status>>
<1>1. /\ stream # 0 /\ ~closed /\ ~closed' /\ Disciplined' /\ npc = "loop"
      /\ outcome' \in {"event", "done"}
  BY DEF NextPop, Return, IInv, StreamInv, Disciplined
<1>2. outcome \notin {"eof", "error"}
  BY <1>1 DEF IInv, StreamInv
<1>3. Status = "running" /\ Status' = "running"
  BY <1>1, <1>2 DEF Status
<1>4. CASE DoneShown
  BY <1>3, <1>4, DoneKept DEF Next
<1>5. CASE ~DoneShown
  <2>1. Reading
    BY <1>1, <1>5 DEF TranslationInv
  <2> QED
    BY <1>3, <1>5, <2>1, PopDue DEF Contract!Deliver
<1> QED
  BY <1>4, <1>5

\* A Done that was delivered is in the log.
LEMMA DoneLogged ==
  ASSUME TypeOK, Disciplined, DoneShown
  PROVE  Log # <<>> /\ delivered # <<>>
<1> DEFINE evs == Untagged(delivered)
<1>1. evs \in Seq(Event) /\ Log = Completion(evs)
  BY UntaggedQueue DEF Log, Events, Untagged
<1>2. delivered # <<>>
  <2>1. delivered = <<>> => Untagged(delivered) = <<>>
    BY UntaggedNone
  <2> QED
    BY <2>1 DEF DoneShown, AnyDone
<1>3. AnyDone(evs)
  BY DEF DoneShown
<1> HIDE DEF evs
<1>4. PICK m \in 1..Len(evs) : IsDone(evs[m]) /\ \A i \in 1..Len(evs) : i < m => ~IsDone(evs[i])
  BY <1>1, <1>3, HasFirstDone
<1>5. Log = SubSeq(evs, 1, m)
  BY <1>1, <1>4, FirstDone
<1>6. Len(SubSeq(evs, 1, m)) = m /\ m # 0
  BY <1>1, <1>4
<1> QED
  BY <1>2, <1>5, <1>6

\* Without a Done the end of the body is that of the completion.
LEMMA EofWhole ==
  ASSUME IInv, TranslationInv, RecvEnd, Disciplined, ~DoneShown
  PROVE  Log = Whole
<1>1. /\ stream # 0 /\ queue = <<>> /\ pos = Len(Answer)
  BY DEF RecvEnd, IInv, StreamInv, Answer
<1>2. Reading
  BY <1>1 DEF TranslationInv
<1>3. PICK st \in Starts(dialect) : ReadingFrom(st)
  BY <1>2 DEF Reading
<1>4. Untagged(delivered) = Run(dialect, st, Answer)[Len(Answer)].evs
  <2>1. Untagged(delivered) \o <<>> = Untagged(delivered)
    BY UntaggedQueue, ConcatEmptySeq DEF IInv
  <2> QED
    BY <1>1, <1>3, <2>1, UntaggedNone DEF ReadingFrom, Told
<1>5. dialect \in Dialects /\ Answer \in Scripts(dialect)
  BY <1>1, StreamServed, AnswerType DEF IInv
<1>6. Log = Completion(Untagged(delivered))
  BY DEF Log, Events, Untagged
<1>7. Whole = Completed(dialect, st, Answer)
  BY <1>3, <1>5, FreshStartAssumption DEF Whole, Translation
<1> QED
  BY <1>4, <1>6, <1>7 DEF Completed

\* io.EOF comes when the completion was delivered.
LEMMA EofMapped ==
  ASSUME IInv, TranslationInv, RecvEnd, Disciplined
  PROVE  Contract!End
<1>1. /\ stream # 0 /\ queue = <<>> /\ ~closed /\ npc = "recv" /\ pos = Len(Answer)
  BY DEF RecvEnd, IInv, StreamInv, Answer
<1>2. /\ UNCHANGED <<delivered, served, dialect, habit>> /\ outcome' = "eof"
      /\ outcome \notin {"eof", "error"}
  BY <1>1 DEF RecvEnd, Return, IInv, StreamInv
<1>3. Log' = Log /\ Source' = Source
  BY <1>2 DEF Log, Source, Disciplined, Events
<1>4. Status = "running" /\ Status' = "ended"
  BY <1>1, <1>2 DEF Status, Disciplined
<1>5. CASE DoneShown
  <2>1. Log = Source
    BY <1>5 DEF TranslationInv
  <2>2. Log # <<>>
    BY <1>5, DoneLogged DEF IInv
  <2> QED
    BY <1>3, <1>4, <2>1, <2>2 DEF Contract!End
<1>6. CASE ~DoneShown
  <2>1. Reading
    BY <1>1, <1>6 DEF TranslationInv
  <2>2. dialect \in Dialects /\ Answer \in Scripts(dialect)
    BY <1>1, StreamServed, AnswerType DEF IInv
  <2>3. Log = Whole
    BY <1>6, EofWhole
  <2>4. Whole \in AllCompletions
    BY <2>2 DEF Whole, AllCompletions
  <2>5. Source = Log
    <3>1. CASE Log = <<>>
      BY <3>1 DEF Source
    <3>2. CASE Log # <<>>
      <4>1. Log = Untagged(delivered)
        BY <1>6, NoDone DEF DoneShown, Log, Events, Untagged
      <4>2. delivered # <<>>
        BY <3>2, <4>1, UntaggedNone
      <4>3. 1 \in DOMAIN delivered
        BY <4>2, UntaggedQueue DEF IInv
      <4> QED
        BY <2>1, <2>3, <3>2, <4>3 DEF Source, Whole, Reading, Answer
    <3> QED
      BY <3>1, <3>2
  <2> QED
    BY <1>3, <1>4, <2>3, <2>4, <2>5 DEF Contract!End
<1> QED
  BY <1>5, <1>6

\* The other steps leave log and source alone; an error or a Close cuts what is
\* running, and nothing ends or revives it.
LEMMA QuietMapped ==
  ASSUME IInv, IInv', TranslationInv, [Next]_vars, ~NextPop, ~RecvEnd, Disciplined
  PROVE  Contract!Cut \/ UNCHANGED <<Log, Source, Status>>
<1>1. Disciplined' /\ delivered' = delivered /\ dialect' = dialect /\ (closed => closed')
  BY Unchanging DEF Disciplined
<1>2. Log' = Log
  BY <1>1 DEF Log, Events
<1>3. Source' = Source
  <2>1. CASE Log = <<>>
    BY <1>2, <2>1 DEF Source
  <2>2. CASE Log # <<>>
    <3>1. delivered # <<>>
      <4>1. delivered = <<>> => ~AnyDone(Untagged(delivered)) /\ Untagged(delivered) = <<>>
        BY UntaggedNone DEF AnyDone
      <4> QED
        BY <2>2, <4>1, NoDone DEF Log, Events, Untagged
    <3>2. delivered[1].req \in Requests
      BY <3>1, UntaggedQueue DEF IInv, TranslationInv
    <3> QED
      BY <1>1, <1>2, <2>2, <3>2, RequestsKept DEF Source
  <2> QED
    BY <2>1, <2>2
<1>4. outcome' # outcome => outcome' \in {"closed", "error"} /\ (outcome' = "closed" => closed)
                            /\ npc # "over"
  BY DEF Next, NextCall, NextLock, NextClosed, NextRead, RecvChunk, RecvError, Return, CloseCall,
         CloseRun, Cancel, Finished, vars
<1>5. outcome' # outcome => outcome \notin {"eof", "error"}
  BY <1>4 DEF IInv, StreamInv
<1>6. \/ Status' = Status
      \/ Status = "running" /\ Status' = "cut"
  BY <1>1, <1>4, <1>5 DEF Status
<1> QED
  BY <1>2, <1>3, <1>6 DEF Contract!Cut

\* The reader of the SSE adapters implements StreamContract for every
\* translator, every set of bodies and any number of goroutines calling Close:
\* a consumer that stops at the end gets the events of one answer without a gap
\* up to its first Done, io.EOF only when they were all delivered, and nothing
\* after the end, an error or Close.  Of a first attempt that failed nothing
\* shows, for bodies as FreshStartAssumption has them.
THEOREM Refinement == Spec => ImplementsContract
<1>1. Init => Contract!Init
  <2> SUFFICES ASSUME Init PROVE Contract!Init
    OBVIOUS
  <2>1. Log = <<>>
    <3>1. ~AnyDone(Untagged(delivered)) /\ Untagged(delivered) = <<>>
      BY UntaggedNone DEF Init, AnyDone
    <3> QED
      BY <3>1, NoDone DEF Log, Events, Untagged
  <2> QED
    BY <2>1 DEF Init, Contract!Init, Source, Status
<1> DEFINE Inv == IInv /\ TranslationInv
<1>2. Inv /\ Inv' /\ [Next]_vars => [Contract!Next]_<<Log, Source, Status>>
  <2> SUFFICES ASSUME Inv, Inv', [Next]_vars
               PROVE  Contract!Next \/ UNCHANGED <<Log, Source, Status>>
    OBVIOUS
  <2>1. CASE ~Disciplined
    BY <2>1, UndisciplinedStutters
  <2>2. CASE Disciplined /\ NextPop
    BY <2>2, PopMapped DEF Contract!Next
  <2>3. CASE Disciplined /\ RecvEnd
    BY <2>3, EofMapped DEF Contract!Next
  <2>4. CASE Disciplined /\ ~NextPop /\ ~RecvEnd
    BY <2>4, QuietMapped DEF Contract!Next
  <2> QED
    BY <2>1, <2>2, <2>3, <2>4
<1>3. Spec => Contract!Spec
  <2> HIDE DEF Inv
  <2>1. Spec => []Inv
    BY Translated DEF Inv
  <2> QED
    BY <1>1, <1>2, <2>1, PTL DEF Spec, Contract!Spec
<1> QED
  BY <1>3 DEF ImplementsContract

-----------------------------------------------------------------------------
(* What a drained stream delivers conforms.                                *)

\* What was told of the first p chunks of body, in either format.
TellsOf(d, body, p, evs, st) ==
  IF d \in ChunkAdapters THEN Follows(body, p, evs, st) ELSE MsgFollows(body, p, evs, st)

\* No call is open, neither for the consumer nor in the reader's state.
Resting(d, evs, st) ==
  /\ Keeps(evs, {}, {})
  /\ IF d \in ChunkAdapters THEN st.toolIndexes = {}
     ELSE \A i \in Indexes : st.blockKinds[i] # "tool_use"

\* c is what the Done is made from.
EndsAnswer(d, c) ==
  IF d \in ChunkAdapters THEN c.usage.source = "reported" ELSE c.type = "message_stop"

\* Of an answer that is all there was, the Done is the last that was told, and it
\* was told once the upstream's announcement was read.
AllLatest == \A k \in DOMAIN delivered : delivered[k].req = Len(served)
Announced == pos = Len(Answer) /\ AnnouncesEnd(dialect, Answer)
EndTold ==
  AllLatest =>
    /\ \A k \in DOMAIN Told : IsDone(Told[k]) => k = Len(Told) /\ Announced
    /\ Announced => AnyDone(Told)

\* An answer is read from rest, and goes on as its chunks say.
ConformanceInv ==
  Disciplined =>
    /\ Lawful(Told)
    /\ stream = 0 /\ ~closed /\ npc # "over" => Resting(dialect, Told, tr)
    /\ stream # 0 =>
         pos \in 0..Len(Answer) /\ TellsOf(dialect, Answer, pos, Told, tr) /\ EndTold
    /\ outcome = "eof" => queue = <<>> /\ pos = Len(Answer) /\ EndTold

\* The answers and translators are those of the two formats.
LEMMA AnswerInFormat ==
  ASSUME NEW d \in Dialects, NEW body \in Scripts(d)
  PROVE  /\ body \in Seq(Chunk(d)) /\ Len(body) \in Nat /\ DOMAIN body = 1..Len(body)
         /\ d \in ChunkAdapters =>
              /\ body \in Seq(OAChunk) /\ CompleteAnswer(body)
              /\ \A k \in DOMAIN body : body[k].usage # NoUsage => body[k].choices = <<>>
         /\ d \notin ChunkAdapters => body \in Seq(AnthropicChunk) /\ CompleteMessage(body)
<1>1. body \in Seq(Chunk(d))
  BY TranslatorAssumption
<1>2. Chunk(d) \subseteq AdapterChunk(d)
  BY AdapterAssumption
<1>3. \A S, T : S \subseteq T => \A s \in Seq(S) : s \in Seq(T)
  <2> SUFFICES ASSUME NEW S, NEW T, S \subseteq T, NEW s \in Seq(S) PROVE s \in Seq(T)
    OBVIOUS
  <2>1. s \in [1..Len(s) -> T] /\ Len(s) \in Nat
    OBVIOUS
  <2> QED
    BY <2>1
<1>4. body \in Seq(AdapterChunk(d))
  BY <1>1, <1>2, <1>3
<1>5. CompleteFor(d, body)
  BY AnswerAssumption
<1>6. ASSUME d \in ChunkAdapters
      PROVE  /\ body \in Seq(OAChunk) /\ CompleteAnswer(body)
             /\ \A k \in DOMAIN body : body[k].usage # NoUsage => body[k].choices = <<>>
  BY <1>4, <1>5, <1>6, Zenon DEF AdapterChunk, CompleteFor
<1>7. ASSUME d \notin ChunkAdapters PROVE body \in Seq(AnthropicChunk) /\ CompleteMessage(body)
  BY <1>4, <1>5, <1>7, Zenon DEF AdapterChunk, CompleteFor
<1> QED
  BY <1>1, <1>6, <1>7

LEMMA StepInFormat ==
  ASSUME NEW d \in Dialects, NEW st \in TrState(d), NEW c \in Chunk(d)
  PROVE  /\ d \in ChunkAdapters =>
              /\ st \in OAState /\ ChunkState(d, st, c) \in OAState
              /\ ChunkEvents(d, st, c) = OATranslate(st, c).evs
              /\ ChunkState(d, st, c) = OATranslate(st, c).st
         /\ d \notin ChunkAdapters =>
              /\ st \in AnthropicState /\ ChunkState(d, st, c) \in AnthropicState
              /\ ChunkEvents(d, st, c) = AnthropicTranslate(st, c)
              /\ ChunkState(d, st, c) = AnthropicAfter(st, c)
<1>1. /\ ChunkState(d, st, c) \in TrState(d) /\ TrState(d) = AdapterState(d)
      /\ ChunkEvents(d, st, c) = Step(d, st, c).evs /\ ChunkState(d, st, c) = Step(d, st, c).st
  <2>1. ChunkState(d, st, c) \in TrState(d)
    BY TranslatorAssumption
  <2>2. TrState(d) = AdapterState(d) /\ ChunkEvents(d, st, c) = AdapterEvents(d, st, c)
        /\ ChunkState(d, st, c) = AdapterAfter(d, st, c)
    BY AdapterAssumption
  <2> QED
    BY <2>1, <2>2 DEF AdapterEvents, AdapterAfter
<1>2. d \in ChunkAdapters \cup MessageAdapters
  BY AdapterAssumption
<1>3. ASSUME d \in ChunkAdapters
      PROVE  /\ st \in OAState /\ ChunkState(d, st, c) \in OAState
             /\ Step(d, st, c) = OATranslate(st, c)
  <2>1. AdapterState(d) = OAState
    BY <1>3, Zenon DEF AdapterState
  <2>2. d \in {"openai", "deepseek", "kimi"}
    BY <1>3, Zenon DEF ChunkAdapters
  <2>3. Step(d, st, c) = OATranslate(st, c)
    BY <2>2 DEF Step, OpenAIStep, DeepSeekStep, KimiStep
  <2> QED
    BY <1>1, <2>1, <2>3
<1>4. ASSUME d \notin ChunkAdapters
      PROVE  /\ st \in AnthropicState /\ ChunkState(d, st, c) \in AnthropicState
             /\ Step(d, st, c) = [evs |-> AnthropicTranslate(st, c), st |-> AnthropicAfter(st, c)]
  <2>1. AdapterState(d) = AnthropicState
    BY <1>4, Zenon DEF AdapterState
  <2>2. d \in {"anthropic", "minimax"}
    BY <1>2, <1>4, Zenon DEF MessageAdapters
  <2>3. Step(d, st, c) = [evs |-> AnthropicTranslate(st, c), st |-> AnthropicAfter(st, c)]
    BY <2>2 DEF Step, AnthropicStep, MiniMaxStep
  <2> QED
    BY <1>1, <2>1, <2>3
<1> QED
  BY <1>1, <1>3, <1>4

\* What is told of the next chunk of an answer in the format of OpenAI.
LEMMA ChunkTold ==
  ASSUME NEW body \in Seq(OAChunk), CompleteAnswer(body),
         \A k \in DOMAIN body : body[k].usage # NoUsage => body[k].choices = <<>>,
         NEW p \in Nat, p + 1 \in DOMAIN body, NEW st \in OAState, NEW evs,
         Follows(body, p, evs, st)
  PROVE  LET chunk == body[p + 1]
             new == OATranslate(st, chunk).evs
         IN  /\ Follows(body, p + 1, evs \o new, OATranslate(st, chunk).st)
             /\ chunk.usage.source # "reported" => new \in Seq(Content)
             /\ chunk.usage.source = "reported" =>
                  /\ p + 1 = Len(body)
                  /\ \E done \in K1Event : done.kind = "done" /\ new = <<done>>
<1> DEFINE chunk == body[p + 1]
           new == OATranslate(st, chunk).evs
           next == OATranslate(st, chunk).st
<1>1. /\ chunk \in OAChunk /\ Len(body) \in Nat /\ DOMAIN body = 1..Len(body)
      /\ 1..(p + 1) = 1..p \cup {p + 1}
  OBVIOUS
<1>2. evs \in Seq(K1Event)
  BY DEF Follows, BeforeFinish, AfterFinish, Keeps
<1>3. CASE chunk.usage.source = "reported"
  <2> DEFINE done == Done(chunk.usage, st.lastFinish)
  <2>1. new = <<done>> /\ next = st
    BY <1>3 DEF OATranslate
  <2>2. chunk.usage \in Usage /\ chunk.usage # NoUsage
    BY <1>1, <1>3 DEF OAChunk, Usage, NoUsage
  <2>3. chunk.choices = <<>> /\ p + 1 = Len(body)
    BY <2>2 DEF CompleteAnswer
  <2>4. ~Finishes(chunk)
    BY <2>3 DEF Finishes
  <2>5. PICK f \in DOMAIN body : Finishes(body[f])
    BY DEF CompleteAnswer
  <2>6. f \in 1..p
    BY <1>1, <2>3, <2>4, <2>5
  <2>7. AfterFinish(evs, st)
    BY <2>5, <2>6 DEF Follows
  <2> HIDE DEF chunk
  <2>8. AfterFinish(Append(evs, done), st)
    BY <1>3, <2>2, <2>7, AnswerDoneKeeps
  <2>9. done \in K1Event /\ done.kind = "done"
    <3>1. st.lastFinish \in FinishReasons \cup {NoFinish}
      BY DEF OAState
    <3> QED
      BY <2>2, <3>1 DEF Done, Blank, K1Event
  <2> HIDE DEF done, new, next
  <2>10. evs \o <<done>> = Append(evs, done)
    BY <1>2, <2>9
  <2>11. \E k \in 1..(p + 1) : Finishes(body[k])
    BY <1>1, <2>5, <2>6
  <2>12. Follows(body, p + 1, evs \o new, next)
    BY <2>1, <2>8, <2>10, <2>11, Zenon DEF Follows
  <2> QED
    BY <1>3, <2>1, <2>3, <2>9, <2>12, Zenon DEF new, next, chunk
<1>4. CASE chunk.usage.source # "reported"
  <2>1. OATranslate(st, chunk) = ChoicesOf(st, chunk)
    BY <1>4, Zenon DEF OATranslate, ChoicesOf
  <2>2. Follows(body, p + 1, evs \o ChoicesOf(st, chunk).evs, ChoicesOf(st, chunk).st)
    BY ChunkKeeps
  <2>3. Len(chunk.choices) <= 1
    BY DEF CompleteAnswer
  <2>4. ASSUME BeforeFinish(evs, st) PROVE ChoicesOf(st, chunk).evs \in Seq(Content)
    <3>1. IsFiniteSet(st.toolIndexes)
      BY <2>4 DEF BeforeFinish
    <3> QED
      BY <1>1, <2>3, <3>1, ChoicesAreContent
  <2>5. ASSUME \E k \in 1..p : Finishes(body[k]) PROVE ChoicesOf(st, chunk).evs \in Seq(Content)
    <3>1. PICK f \in DOMAIN body : /\ \A j \in 1..(f - 1) : ~Finishes(body[j])
                                  /\ \A j \in (f + 1)..Len(body) : body[j].choices = <<>>
      BY DEF CompleteAnswer
    <3>2. chunk.choices = <<>>
      BY <1>1, <2>5, <3>1
    <3>3. ChoicesOf(st, chunk).evs = <<>>
      BY <1>1, <3>2, NoChoices
    <3>4. <<>> \in Seq(Content)
      OBVIOUS
    <3> QED
      BY <3>3, <3>4, Zenon
  <2>6. ChoicesOf(st, chunk).evs \in Seq(Content)
    BY <2>4, <2>5 DEF Follows
  <2> QED
    BY <1>4, <2>1, <2>2, <2>6, Zenon DEF chunk
<1> QED
  BY <1>3, <1>4

\* What is told of the next chunk of an answer, whatever its format.
LEMMA StepTold ==
  ASSUME NEW d \in Dialects, NEW body \in Scripts(d), NEW p \in 0..Len(body), p < Len(body),
         NEW st \in TrState(d), NEW evs, TellsOf(d, body, p, evs, st)
  PROVE  LET c == body[p + 1]
             new == ChunkEvents(d, st, c)
         IN  /\ TellsOf(d, body, p + 1, evs \o new, ChunkState(d, st, c))
             /\ ~EndsAnswer(d, c) => \A k \in DOMAIN new : ~IsDone(new[k])
             /\ EndsAnswer(d, c) =>
                  p + 1 = Len(body) /\ \E done \in Event : IsDone(done) /\ new = <<done>>
<1> DEFINE c == body[p + 1]
           new == ChunkEvents(d, st, c)
<1>1. /\ body \in Seq(Chunk(d)) /\ Len(body) \in Nat /\ DOMAIN body = 1..Len(body)
      /\ p \in Nat /\ p + 1 \in DOMAIN body
  BY AnswerInFormat
<1>2. c \in Chunk(d)
  BY <1>1
<1>3. Event = K1Event /\ \A ev \in Event : IsDone(ev) <=> ev.kind = "done"
  BY AdapterAssumption DEF IsDoneEvent
<1>4. ASSUME new \in Seq(Content) PROVE \A k \in DOMAIN new : ~IsDone(new[k])
  <2>1. \A e \in Content : ~IsDone(e)
    BY <1>3 DEF Content
  <2> HIDE DEF new
  <2> QED
    BY <1>4, <2>1
<1>5. CASE d \in ChunkAdapters
  <2>1. /\ body \in Seq(OAChunk) /\ CompleteAnswer(body)
        /\ \A k \in DOMAIN body : body[k].usage # NoUsage => body[k].choices = <<>>
    BY <1>5, AnswerInFormat
  <2>2. /\ st \in OAState /\ new = OATranslate(st, c).evs
        /\ ChunkState(d, st, c) = OATranslate(st, c).st
    BY <1>2, <1>5, StepInFormat
  <2>3. Follows(body, p, evs, st)
    BY <1>5, Zenon DEF TellsOf
  <2>4. /\ Follows(body, p + 1, evs \o OATranslate(st, c).evs, OATranslate(st, c).st)
        /\ c.usage.source # "reported" => OATranslate(st, c).evs \in Seq(Content)
        /\ c.usage.source = "reported" =>
             /\ p + 1 = Len(body)
             /\ \E done \in K1Event : done.kind = "done" /\ OATranslate(st, c).evs = <<done>>
    BY <1>1, <2>1, <2>2, <2>3, ChunkTold
  <2> HIDE DEF c, new
  <2>5. EndsAnswer(d, c) <=> c.usage.source = "reported"
    BY <1>5, Zenon DEF EndsAnswer
  <2>6. TellsOf(d, body, p + 1, evs \o new, ChunkState(d, st, c))
    BY <1>5, <2>2, <2>4, Zenon DEF TellsOf
  <2>7. ~EndsAnswer(d, c) => new \in Seq(Content)
    BY <2>2, <2>4, <2>5, Zenon
  <2>8. EndsAnswer(d, c) => p + 1 = Len(body) /\ \E done \in Event : IsDone(done) /\ new = <<done>>
    BY <1>3, <2>2, <2>4, <2>5, Zenon
  <2> QED
    BY <1>4, <2>6, <2>7, <2>8, Zenon DEF c, new
<1>6. CASE d \notin ChunkAdapters
  <2>1. body \in Seq(AnthropicChunk) /\ CompleteMessage(body)
    BY <1>6, AnswerInFormat
  <2>2. /\ st \in AnthropicState /\ new = AnthropicTranslate(st, c)
        /\ ChunkState(d, st, c) = AnthropicAfter(st, c) /\ AnthropicAfter(st, c) \in AnthropicState
    BY <1>2, <1>6, StepInFormat
  <2>3. MsgFollows(body, p, evs, st)
    BY <1>6, Zenon DEF TellsOf
  <2>4. /\ MsgFollows(body, p + 1, evs \o AnthropicTranslate(st, c), AnthropicAfter(st, c))
        /\ c.type # "message_stop" => AnthropicTranslate(st, c) \in Seq(Content)
        /\ c.type = "message_stop" =>
             /\ p + 1 = Len(body)
             /\ \E done \in K1Event : done.kind = "done" /\ AnthropicTranslate(st, c) = <<done>>
    BY <1>1, <2>1, <2>2, <2>3, MessageFollows
  <2> HIDE DEF c, new
  <2>5. EndsAnswer(d, c) <=> c.type = "message_stop"
    BY <1>6, Zenon DEF EndsAnswer
  <2>6. TellsOf(d, body, p + 1, evs \o new, ChunkState(d, st, c))
    BY <1>6, <2>2, <2>4, Zenon DEF TellsOf
  <2>7. ~EndsAnswer(d, c) => new \in Seq(Content)
    BY <2>2, <2>4, <2>5, Zenon
  <2>8. EndsAnswer(d, c) => p + 1 = Len(body) /\ \E done \in Event : IsDone(done) /\ new = <<done>>
    BY <1>3, <2>2, <2>4, <2>5, Zenon
  <2> QED
    BY <1>4, <2>6, <2>7, <2>8, Zenon DEF c, new
<1> QED
  BY <1>5, <1>6

\* An answer ends with what its Done is made from, if it has that.
LEMMA AnnouncedLast ==
  ASSUME NEW d \in Dialects, NEW body \in Scripts(d)
  PROVE  /\ AnnouncesEnd(d, body) <=> \E k \in DOMAIN body : EndsAnswer(d, body[k])
         /\ \A k \in DOMAIN body : EndsAnswer(d, body[k]) => k = Len(body)
<1>1. AnnouncesEnd(d, body) <=> \E k \in DOMAIN body : EndsAnswer(d, body[k])
  BY Zenon DEF AnnouncesEnd, EndsAnswer
<1>2. ASSUME NEW k \in DOMAIN body, EndsAnswer(d, body[k]) PROVE k = Len(body)
  <2>1. CASE d \in ChunkAdapters
    <3>1. CompleteAnswer(body)
      BY <2>1, AnswerInFormat
    <3>2. body[k].usage # NoUsage
      BY <1>2, <2>1 DEF EndsAnswer, NoUsage
    <3> QED
      BY <3>1, <3>2, Zenon DEF CompleteAnswer
  <2>2. CASE d \notin ChunkAdapters
    <3>1. CompleteMessage(body)
      BY <2>2, AnswerInFormat
    <3>2. body[k].type = "message_stop"
      BY <1>2, <2>2, Zenon DEF EndsAnswer
    <3> QED
      BY <3>1, <3>2 DEF CompleteMessage, InPlace
  <2> QED
    BY <2>1, <2>2
<1> QED
  BY <1>1, <1>2

\* From rest, every answer can be told.
LEMMA RestTells ==
  ASSUME NEW d, NEW body, NEW evs, NEW st, Resting(d, evs, st)
  PROVE  TellsOf(d, body, 0, evs, st)
<1>1. CASE d \in ChunkAdapters
  <2>1. Keeps(evs, {}, {}) /\ st.toolIndexes = {}
    BY <1>1, Zenon DEF Resting
  <2>2. Follows(body, 0, evs, st)
    BY <2>1, FollowsNothing
  <2> QED
    BY <1>1, <2>2, Zenon DEF TellsOf
<1>2. CASE d \notin ChunkAdapters
  <2>1. Keeps(evs, {}, {}) /\ \A i \in Indexes : st.blockKinds[i] # "tool_use"
    BY <1>2, Zenon DEF Resting
  <2>2. MsgFollows(body, 0, evs, st)
    BY <2>1, MsgFollowsNothing
  <2> QED
    BY <1>2, <2>2, Zenon DEF TellsOf
<1> QED
  BY <1>1, <1>2

\* What tells an answer keeps the rules.
LEMMA TellsKeep ==
  ASSUME NEW d, NEW body, NEW p, NEW evs, NEW st, TellsOf(d, body, p, evs, st)
  PROVE  evs \in Seq(K1Event) /\ Lawful(evs)
<1>1. CASE d \in ChunkAdapters
  <2>1. Follows(body, p, evs, st)
    BY <1>1, Zenon DEF TellsOf
  <2> QED
    BY <2>1 DEF Follows, BeforeFinish, AfterFinish, Keeps
<1>2. CASE d \notin ChunkAdapters
  <2>1. MsgFollows(body, p, evs, st)
    BY <1>2, Zenon DEF TellsOf
  <2> QED
    BY <2>1 DEF MsgFollows, BlocksTold, Keeps
<1> QED
  BY <1>1, <1>2

\* A reader that told nothing but Dones is at rest.
LEMMA DonesRest ==
  ASSUME NEW d, NEW body, NEW p, NEW evs, NEW st, TellsOf(d, body, p, evs, st),
         \A k \in DOMAIN evs : evs[k].kind = "done"
  PROVE  Resting(d, evs, st)
<1>1. evs \in Seq(K1Event) /\ Lawful(evs)
  BY TellsKeep
<1>2. Opened(evs) = {} /\ Ended(evs) = {}
  <2>1. \A k \in 1..Len(evs) : evs[k].kind \notin {"tool_start", "tool_end"}
    BY <1>1
  <2>2. (Len(evs) + 1) - 1 = Len(evs)
    BY <1>1
  <2> QED
    BY <2>1, <2>2 DEF Opened, Ended, SeenIndex
<1>3. Keeps(evs, {}, {})
  BY <1>1, <1>2 DEF Keeps
<1>4. CASE d \in ChunkAdapters
  <2>1. Follows(body, p, evs, st)
    BY <1>4, Zenon DEF TellsOf
  <2>2. Opened(evs) = st.toolIndexes
    BY <2>1 DEF Follows, BeforeFinish, AfterFinish, Keeps
  <2>3. st.toolIndexes = {}
    BY <1>2, <2>2
  <2> QED
    BY <1>3, <1>4, <2>3, Zenon DEF Resting
<1>5. CASE d \notin ChunkAdapters
  <2>1. MsgFollows(body, p, evs, st)
    BY <1>5, Zenon DEF TellsOf
  <2>2. /\ Opened(evs) = ToolBlocks(body, p) \ StoppedBlocks(body, p)
        /\ Ended(evs) = ToolBlocks(body, p) \cap StoppedBlocks(body, p)
    BY <2>1 DEF MsgFollows, BlocksTold, Keeps
  <2>3. ToolBlocks(body, p) = {}
    BY <1>2, <2>2
  <2>4. \A i \in Indexes : st.blockKinds[i] # "tool_use"
    BY <2>1, <2>3 DEF MsgFollows, BlocksKnown
  <2> QED
    BY <1>3, <1>5, <2>4, Zenon DEF Resting
<1> QED
  BY <1>4, <1>5

LEMMA InitConformanceInv == Init => ConformanceInv
<1> SUFFICES ASSUME Init PROVE ConformanceInv
  OBVIOUS
<1>1. dialect \in Dialects /\ tr = AdapterInit(dialect) /\ stream = 0 /\ outcome = "none"
  BY AdapterAssumption DEF Init
<1>2. Told = <<>>
  <2>1. delivered = <<>> /\ queue = <<>>
    BY DEF Init
  <2> QED
    BY <2>1, UntaggedNone DEF Told
<1>3. Keeps(<<>>, {}, {}) /\ Lawful(<<>>)
  BY NothingKeeps DEF Keeps
<1>4. CASE dialect \in ChunkAdapters
  <2>1. tr = OAInit
    BY <1>1, <1>4, Zenon DEF AdapterInit
  <2>2. tr.toolIndexes = {}
    BY <2>1 DEF OAInit
  <2>3. Resting(dialect, Told, tr)
    BY <1>2, <1>3, <1>4, <2>2, Zenon DEF Resting
  <2> QED
    BY <1>1, <1>2, <1>3, <2>3 DEF ConformanceInv
<1>5. CASE dialect \notin ChunkAdapters
  <2>1. tr = AnthropicInit
    BY <1>1, <1>5, Zenon DEF AdapterInit
  <2>2. \A i \in Indexes : tr.blockKinds[i] = NoBlock
    BY <2>1, Zenon DEF AnthropicInit
  <2>3. NoBlock # "tool_use"
    BY DEF NoBlock
  <2>4. Resting(dialect, Told, tr)
    BY <1>2, <1>3, <1>5, <2>2, <2>3, Zenon DEF Resting
  <2> QED
    BY <1>1, <1>2, <1>3, <2>4 DEF ConformanceInv
<1> QED
  BY <1>4, <1>5

LEMMA ToldType ==
  ASSUME TypeOK
  PROVE  Told \in Seq(Event) /\ (queue = <<>> => Told = Untagged(delivered))
<1>1. Untagged(delivered) \in Seq(Event) /\ Untagged(queue) \in Seq(Event)
  BY UntaggedQueue
<1>2. Untagged(delivered) \o <<>> = Untagged(delivered)
  BY <1>1, ConcatEmptySeq
<1> QED
  BY <1>1, <1>2, UntaggedNone DEF Told

\* Steps that tell nothing and leave the stream alone.
LEMMA SameConformance ==
  ASSUME ConformanceInv, outcome' \in {outcome, "closed"}, npc = "over" => npc' = "over",
         UNCHANGED <<habit, dialect, queue, tr, served, pos, delivered, stream, closed>>
  PROVE  ConformanceInv'
<1>1. /\ Told' = Told /\ Answer' = Answer /\ (Disciplined' <=> Disciplined)
      /\ (AllLatest' <=> AllLatest) /\ (Announced' <=> Announced)
  BY DEF Told, Answer, Disciplined, AllLatest, Announced
<1>2. EndTold' <=> EndTold
  BY <1>1 DEF EndTold
<1> QED
  BY <1>1, <1>2 DEF ConformanceInv

\* An event that moves from the queue to the consumer was told before.
LEMMA PopConformance ==
  ASSUME IInv, ConformanceInv, Disciplined, NextPop
  PROVE  ConformanceInv'
<1>1. /\ UNCHANGED <<habit, dialect, tr, served, pos, stream, closed>>
      /\ outcome' \in {"done", "event"} /\ delivered' = Append(delivered, Head(queue))
      /\ Answer' = Answer
  BY DEF NextPop, Return, server, Answer
<1>2. Told' = Told
  BY PopTold DEF IInv
<1>3. stream # 0
  BY DEF NextPop, IInv, StreamInv
<1>4. EndTold => EndTold'
  <2>1. AllLatest' => AllLatest
    <3>1. delivered \in Seq(Tagged)
      BY DEF IInv, TypeOK
    <3>2. \A k \in DOMAIN delivered : k \in DOMAIN delivered' /\ delivered'[k] = delivered[k]
      BY <1>1, <3>1
    <3> QED
      BY <1>1, <3>2 DEF AllLatest
  <2>2. Announced' <=> Announced
    BY <1>1 DEF Announced
  <2> QED
    BY <1>2, <2>1, <2>2 DEF EndTold
<1> QED
  BY <1>1, <1>2, <1>3, <1>4 DEF ConformanceInv

\* A new answer is told from rest.
LEMMA OpenConformance ==
  ASSUME IInv, TranslationInv, ConformanceInv, Disciplined, NextRead, stream = 0, IInv'
  PROVE  ConformanceInv'
<1>1. PICK body \in Scripts(dialect) : served' = Append(served, body)
  BY DEF NextRead
<1>2. /\ npc = "loop" /\ ~closed /\ pos' = 0 /\ queue = <<>>
      /\ UNCHANGED <<habit, dialect, queue, tr, delivered, closed, outcome>>
  BY DEF NextRead
<1>3. Told' = Told /\ stream' # 0 /\ Answer' = body /\ Len(served') = Len(served) + 1 /\ Len(served) \in Nat
  <2>1. served \in Seq(Scripts(dialect))
    BY DEF IInv, TypeOK
  <2>2. Len(served') = Len(served) + 1 /\ Len(served) \in Nat /\ served'[Len(served')] = body
    BY <1>1, <2>1
  <2>3. stream' = Len(served) + 1
    BY DEF NextRead
  <2> QED
    BY <1>2, <2>2, <2>3 DEF Told, Answer
<1>4. Len(body) \in Nat /\ DOMAIN body = 1..Len(body) /\ dialect \in Dialects
  BY AnswerInFormat DEF IInv, TypeOK
<1>5. TellsOf(dialect, body, 0, Told, tr)
  <2>1. Resting(dialect, Told, tr)
    BY <1>2 DEF ConformanceInv
  <2> QED
    BY <2>1, RestTells
<1>6. EndTold'
  <2> SUFFICES ASSUME AllLatest'
               PROVE  /\ \A k \in DOMAIN Told' : IsDone(Told'[k]) => k = Len(Told') /\ Announced'
                      /\ Announced' => AnyDone(Told')
    BY DEF EndTold
  <2>1. delivered \in Seq(Tagged) /\ \A k \in DOMAIN delivered : delivered[k].req \in Requests
    BY DEF IInv, TypeOK, TranslationInv
  <2>2. \A k \in DOMAIN delivered : FALSE
    BY <1>2, <1>3, <2>1 DEF AllLatest, Requests
  <2>3. delivered = <<>>
    BY <2>1, <2>2
  <2>4. Told' = <<>>
    BY <1>2, <1>3, <2>3, UntaggedNone DEF Told
  <2>5. ~Announced'
    <3>1. ASSUME Len(body) = 0 PROVE ~AnnouncesEnd(dialect, body)
      <4>1. \A k \in DOMAIN body : FALSE
        BY <1>4, <3>1
      <4> QED
        BY <1>4, <4>1, AnnouncedLast
    <3>2. Announced' <=> 0 = Len(body) /\ AnnouncesEnd(dialect, body)
      BY <1>2, <1>3 DEF Announced
    <3> QED
      BY <3>1, <3>2
  <2>6. \A k \in DOMAIN Told' : FALSE
    BY <2>4
  <2> QED
    BY <2>5, <2>6
<1>7. outcome' # "eof"
  BY <1>2 DEF IInv, StreamInv
<1>8. Lawful(Told)
  BY DEF ConformanceInv
<1>9. TellsOf(dialect, Answer, pos, Told, tr)' /\ (pos \in 0..Len(Answer))'
  BY <1>2, <1>3, <1>4, <1>5
<1> QED
  BY <1>3, <1>6, <1>7, <1>8, <1>9 DEF ConformanceInv

\* What a chunk becomes is told after what was told before.
LEMMA ChunkConformance ==
  ASSUME IInv, ConformanceInv, Disciplined, RecvChunk
  PROVE  ConformanceInv'
<1> DEFINE c == Answer[pos + 1]
           new == ChunkEvents(dialect, tr, c)
<1>1. stream # 0 /\ queue = <<>> /\ served # <<>> /\ pos < Len(Answer)
  BY StreamServed DEF RecvChunk, IInv, StreamInv, Answer
<1>2. Answer \in Scripts(dialect) /\ Len(Answer) \in Nat /\ dialect \in Dialects
  BY <1>1, AnswerType DEF IInv
<1>3. pos \in 0..Len(Answer) /\ TellsOf(dialect, Answer, pos, Told, tr) /\ EndTold
  BY <1>1 DEF ConformanceInv
<1>4. tr \in TrState(dialect)
  BY DEF IInv, TypeOK
<1>5. /\ TellsOf(dialect, Answer, pos + 1, Told \o new, ChunkState(dialect, tr, c))
      /\ ~EndsAnswer(dialect, c) => \A k \in DOMAIN new : ~IsDone(new[k])
      /\ EndsAnswer(dialect, c) =>
           pos + 1 = Len(Answer) /\ \E done \in Event : IsDone(done) /\ new = <<done>>
  BY <1>1, <1>2, <1>3, <1>4, StepTold
<1>6. /\ queue' = queue \o TagAll(new) /\ tr' = ChunkState(dialect, tr, c) /\ pos' = pos + 1
      /\ UNCHANGED <<habit, dialect, stream, closed, delivered, served, outcome>> /\ Answer' = Answer
  BY DEF RecvChunk, Answer
<1>7. new \in Seq(Event)
  <2>1. Answer \in Seq(Chunk(dialect)) /\ DOMAIN Answer = 1..Len(Answer)
    BY <1>2, AnswerInFormat
  <2>2. c \in Chunk(dialect)
    BY <1>1, <1>3, <2>1
  <2> QED
    BY <1>2, <1>4, <2>2, TranslatorAssumption
<1>8. /\ AnnouncesEnd(dialect, Answer) <=> \E k \in DOMAIN Answer : EndsAnswer(dialect, Answer[k])
      /\ \A k \in DOMAIN Answer : EndsAnswer(dialect, Answer[k]) => k = Len(Answer)
      /\ pos + 1 \in DOMAIN Answer
  <2>1. DOMAIN Answer = 1..Len(Answer)
    BY <1>2, AnswerInFormat
  <2>2. pos + 1 \in DOMAIN Answer
    BY <1>1, <1>2, <1>3, <2>1
  <2> QED
    BY <1>2, <2>2, AnnouncedLast
<1>9. Announced' <=> EndsAnswer(dialect, c)
  <2>1. Announced' <=> pos + 1 = Len(Answer) /\ AnnouncesEnd(dialect, Answer)
    BY <1>6 DEF Announced
  <2>2. ASSUME pos + 1 = Len(Answer), NEW k \in DOMAIN Answer, EndsAnswer(dialect, Answer[k])
        PROVE  EndsAnswer(dialect, c)
    <3>1. k = pos + 1
      BY <1>8, <2>2
    <3> QED
      BY <2>2, <3>1
  <2> QED
    BY <1>8, <2>1, <2>2
<1> HIDE DEF new, c
<1>10. Told' = Told \o new
  BY <1>1, <1>6, <1>7, QueueTold DEF IInv
<1>11. Told \in Seq(Event) /\ Len(Told) \in Nat /\ Len(new) \in Nat
       /\ DOMAIN Told = 1..Len(Told) /\ DOMAIN new = 1..Len(new)
  BY <1>7, ToldType DEF IInv
<1>12. Len(Told') = Len(Told) + Len(new) /\ DOMAIN Told' = 1..(Len(Told) + Len(new))
       /\ \A k \in 1..(Len(Told) + Len(new)) :
            Told'[k] = IF k <= Len(Told) THEN Told[k] ELSE new[k - Len(Told)]
  BY <1>7, <1>10, <1>11
<1>13. EndTold'
  <2> SUFFICES ASSUME AllLatest'
               PROVE  /\ \A k \in DOMAIN Told' : IsDone(Told'[k]) => k = Len(Told') /\ Announced'
                      /\ Announced' => AnyDone(Told')
    BY DEF EndTold
  <2>1. AllLatest
    BY <1>6 DEF AllLatest
  <2>2. \A k \in DOMAIN Told : ~IsDone(Told[k])
    BY <1>1, <1>2, <1>3, <2>1 DEF EndTold, Announced
  <2>3. ASSUME NEW k \in DOMAIN Told', IsDone(Told'[k]) PROVE k = Len(Told') /\ Announced'
    <3>1. k > Len(Told) /\ k - Len(Told) \in DOMAIN new /\ IsDone(new[k - Len(Told)])
      BY <1>11, <1>12, <2>2, <2>3
    <3>2. EndsAnswer(dialect, c)
      BY <1>5, <3>1
    <3>3. Len(new) = 1
      BY <1>5, <3>2
    <3> QED
      BY <1>9, <1>11, <1>12, <3>1, <3>2, <3>3
  <2>4. ASSUME Announced' PROVE AnyDone(Told')
    <3>1. PICK done \in Event : IsDone(done) /\ new = <<done>>
      BY <1>5, <1>9, <2>4
    <3>2. Len(new) = 1 /\ new[1] = done
      BY <3>1
    <3>3. Len(Told) + 1 \in DOMAIN Told' /\ Told'[Len(Told) + 1] = done
      BY <1>11, <1>12, <3>2
    <3> QED
      BY <3>1, <3>3 DEF AnyDone
  <2> QED
    BY <2>3, <2>4
<1>14. TellsOf(dialect, Answer, pos, Told, tr)'
  BY <1>5, <1>6, <1>10
<1>15. Lawful(Told')
  <2>1. TellsOf(dialect, Answer, pos + 1, Told', tr')
    BY <1>5, <1>6, <1>10
  <2> QED
    BY <2>1, TellsKeep
<1>16. outcome' # "eof"
  BY <1>6 DEF RecvChunk, IInv, StreamInv
<1>17. pos + 1 \in 0..Len(Answer)
  BY <1>1, <1>2, <1>3
<1> QED
  BY <1>1, <1>6, <1>13, <1>14, <1>15, <1>16, <1>17 DEF ConformanceInv

\* A body that ends leaves what was told as it is.
LEMMA EndConformance ==
  ASSUME IInv, ConformanceInv, Disciplined, RecvEnd
  PROVE  ConformanceInv'
<1>1. stream # 0 /\ queue = <<>> /\ pos = Len(Answer)
  BY DEF RecvEnd, IInv, StreamInv, Answer
<1>2. /\ UNCHANGED <<habit, dialect, queue, tr, served, pos, delivered, closed>>
      /\ stream' = 0 /\ npc' = "over"
  BY DEF RecvEnd, DropStream, Return, Stops, Disciplined
<1>3. /\ Told' = Told /\ Answer' = Answer /\ (AllLatest' <=> AllLatest) /\ (Announced' <=> Announced)
  BY <1>2 DEF Told, Answer, AllLatest, Announced
<1>4. EndTold /\ Lawful(Told)
  BY <1>1 DEF ConformanceInv
<1>5. EndTold'
  BY <1>3, <1>4 DEF EndTold
<1> QED
  BY <1>1, <1>2, <1>3, <1>4, <1>5 DEF ConformanceInv

\* A retry starts from rest, because only Dones can have been told.
LEMMA ErrorConformance ==
  ASSUME IInv, ConformanceInv, Disciplined, RecvError
  PROVE  ConformanceInv'
<1>1. stream # 0 /\ queue = <<>> /\ npc = "recv"
  BY DEF RecvError, IInv, StreamInv
<1>2. /\ UNCHANGED <<habit, dialect, queue, tr, served, pos, delivered, closed>> /\ stream' = 0
  BY DEF RecvError, DropStream
<1>3. Told' = Told
  BY <1>2 DEF Told
<1>4. TellsOf(dialect, Answer, pos, Told, tr) /\ Lawful(Told)
  BY <1>1 DEF ConformanceInv
<1>5. outcome' # "eof"
  BY <1>1 DEF RecvError, Return, IInv, StreamInv
<1>6. CASE MayRetry
  <2>1. Told \in Seq(Event) /\ Told = Untagged(delivered)
    BY <1>1, ToldType DEF IInv
  <2>2. \A k \in DOMAIN delivered : IsDone(delivered[k].ev)
    BY <1>6 DEF MayRetry, IInv, SourceInv
  <2>3. \A k \in DOMAIN Told : Told[k] \in Event /\ IsDone(Told[k])
    <3>1. DOMAIN Told = DOMAIN delivered /\ \A k \in DOMAIN delivered : Told[k] = delivered[k].ev
      BY <2>1 DEF Untagged
    <3> QED
      BY <2>1, <2>2, <3>1
  <2>4. \A k \in DOMAIN Told : Told[k].kind = "done"
    BY <2>3, AdapterAssumption DEF IsDoneEvent
  <2>5. Resting(dialect, Told, tr)
    BY <1>4, <2>4, DonesRest
  <2> QED
    BY <1>2, <1>3, <1>4, <1>5, <2>5 DEF ConformanceInv
<1>7. CASE ~MayRetry
  <2>1. npc' = "over"
    BY <1>7 DEF RecvError, Return, Stops, Disciplined
  <2> QED
    BY <1>2, <1>3, <1>4, <1>5, <2>1 DEF ConformanceInv
<1> QED
  BY <1>6, <1>7

LEMMA CloseConformance ==
  ASSUME ConformanceInv, Disciplined, NEW k \in Closers, CloseRun(k)
  PROVE  ConformanceInv'
<1>1. /\ UNCHANGED <<habit, dialect, queue, tr, served, pos, delivered, outcome>>
      /\ closed' /\ stream' = 0
  BY DEF CloseRun, DropStream
<1>2. /\ Told' = Told /\ Answer' = Answer /\ (AllLatest' <=> AllLatest) /\ (Announced' <=> Announced)
  BY <1>1 DEF Told, Answer, AllLatest, Announced
<1>3. EndTold' <=> EndTold
  BY <1>2 DEF EndTold
<1> QED
  BY <1>1, <1>2, <1>3 DEF ConformanceInv

LEMMA NextConformanceInv ==
  ASSUME IInv, IInv', TranslationInv, ConformanceInv, [Next]_vars
  PROVE  ConformanceInv'
<1> SUFFICES ASSUME Disciplined' PROVE ConformanceInv'
  BY DEF ConformanceInv
<1>0. Disciplined
  BY Unchanging DEF Disciplined
<1>1. CASE NextCall
  BY <1>1, SameConformance DEF NextCall, reader, server
<1>2. CASE NextLock
  BY <1>2, SameConformance DEF NextLock, reader, server
<1>3. CASE NextClosed
  BY <1>3, SameConformance DEF NextClosed, Return, reader, server
<1>4. CASE NextPop
  BY <1>0, <1>4, PopConformance
<1>5. CASE NextRead
  <2>1. CASE stream # 0
    BY <1>5, <2>1, SameConformance DEF NextRead, server
  <2>2. CASE stream = 0
    BY <1>0, <1>5, <2>2, OpenConformance
  <2> QED
    BY <2>1, <2>2
<1>6. CASE RecvChunk
  BY <1>0, <1>6, ChunkConformance
<1>7. CASE RecvEnd
  BY <1>0, <1>7, EndConformance
<1>8. CASE RecvError
  BY <1>0, <1>8, ErrorConformance
<1>9. ASSUME NEW k \in Closers, CloseCall(k) PROVE ConformanceInv'
  BY <1>9, SameConformance DEF CloseCall, reader, server
<1>10. ASSUME NEW k \in Closers, CloseRun(k) PROVE ConformanceInv'
  BY <1>0, <1>10, CloseConformance
<1>11. CASE Cancel
  BY <1>11, SameConformance DEF Cancel, reader, server
<1>12. CASE UNCHANGED vars
  BY <1>12, SameConformance DEF vars, reader, server
<1> QED
  BY <1>1, <1>2, <1>3, <1>4, <1>5, <1>6, <1>7, <1>8, <1>9, <1>10, <1>11, <1>12
     DEF Next, Finished

\* After a Start, an index has a Start or an End that was its last mark.
LEMMA LastMark ==
  ASSUME NEW evs, NEW n \in Nat, NEW i, NEW j \in 1..n, IsMark(evs[j], i)
  PROVE  SeenIndex(evs, n + 1, i, "tool_start") \/ SeenIndex(evs, n + 1, i, "tool_end")
<1> DEFINE P == {m \in 0..n : j <= m =>
                   SeenIndex(evs, m + 1, i, "tool_start") \/ SeenIndex(evs, m + 1, i, "tool_end")}
<1>1. 0 \in P
  OBVIOUS
<1>2. ASSUME NEW m \in 0..n, m # n, m \in P PROVE m + 1 \in P
  <2>1. m + 1 \in Nat \ {0} /\ m + 1 \in 0..n
    BY <1>2
  <2>2. \A kind \in {"tool_start", "tool_end"} :
          SeenIndex(evs, (m + 1) + 1, i, kind)
            <=> IF IsMark(evs[m + 1], i) THEN evs[m + 1].kind = kind ELSE SeenIndex(evs, m + 1, i, kind)
    BY <2>1, SeenNext
  <2>3. IsMark(evs[m + 1], i) => evs[m + 1].kind \in {"tool_start", "tool_end"}
    BY DEF IsMark
  <2>4. j <= m + 1 => j <= m \/ IsMark(evs[m + 1], i)
    BY <1>2
  <2> QED
    BY <1>2, <2>1, <2>2, <2>3, <2>4
<1> HIDE DEF P
<1>3. \A m \in 0..n : m \in P
  BY <1>1, <1>2, UpTo
<1> QED
  BY <1>3 DEF P

\* Where no call is seen open, all are closed.
LEMMA NoneOpenClosed ==
  ASSUME NEW evs \in Seq(K1Event), Lawful(evs), NEW k \in DOMAIN evs,
         \A i \in Indexes : ~SeenIndex(evs, k, i, "tool_start")
  PROVE  CallsClosed(SubSeq(evs, 1, k - 1))
<1> DEFINE n == k - 1
           before == SubSeq(evs, 1, n)
<1>1. /\ n \in Nat /\ k = n + 1 /\ k \in Nat /\ DOMAIN before = 1..n /\ Len(before) = n
      /\ \A j \in 1..n : before[j] = evs[j] /\ j \in DOMAIN evs /\ evs[j] \in K1Event
  OBVIOUS
<1> HIDE DEF before, n
<1>2. ASSUME NEW j \in 1..n, before[j].kind = "tool_start"
      PROVE  SeenIndex(before, n + 1, before[j].index, "tool_end")
  <2> DEFINE i == evs[j].index
  <2>1. evs[j].kind = "tool_start" /\ before[j].index = i
    BY <1>1, <1>2
  <2>2. i \in Indexes
    <3>1. AllowedAt(evs, j)
      BY <1>1 DEF Lawful
    <3>2. i \in Indexes \cup {-1} /\ i >= 0
      BY <1>1, <2>1, <3>1 DEF AllowedAt, K1Event
    <3> QED
      BY <3>2
  <2>3. IsMark(evs[j], i)
    BY <2>1 DEF IsMark
  <2>4. SeenIndex(evs, n + 1, i, "tool_end")
    BY <1>1, <2>2, <2>3, LastMark
  <2>5. SeenIndex(evs, n + 1, i, "tool_end") <=> SeenIndex(before, n + 1, i, "tool_end")
    BY <1>1, SeenSame
  <2> QED
    BY <2>1, <2>4, <2>5
<1>3. CallsClosed(before)
  BY <1>1, <1>2 DEF CallsClosed
<1> QED
  BY <1>3 DEF before, n

\* What was delivered is the beginning of what was told.
LEMMA DeliveredTold ==
  ASSUME TypeOK, Lawful(Told)
  PROVE  /\ Events \in Seq(K1Event) /\ Lawful(Events) /\ Len(Events) = Len(delivered)
         /\ DOMAIN Events = DOMAIN delivered /\ \A k \in DOMAIN delivered : Events[k] = delivered[k].ev
<1> DEFINE q == Untagged(queue)
<1>1. Events = Untagged(delivered)
  BY DEF Events, Untagged
<1>2. /\ delivered \in Seq(Tagged) /\ Untagged(delivered) \in Seq(Event) /\ q \in Seq(Event)
      /\ Len(Untagged(delivered)) = Len(delivered)
  BY UntaggedQueue
<1>3. Event = K1Event
  BY AdapterAssumption
<1>4. Told = Events \o q
  BY <1>1 DEF Told
<1> HIDE DEF q
<1>5. DOMAIN Events = 1..Len(Events) /\ Len(Events) \in Nat /\ DOMAIN delivered = 1..Len(delivered)
  BY <1>1, <1>2
<1>6. \A k \in 1..Len(Events) : k \in DOMAIN Told /\ Told[k] = Events[k]
  BY <1>1, <1>2, <1>4
<1>7. Lawful(Events)
  <2> SUFFICES ASSUME NEW k \in 1..Len(Events) PROVE AllowedAt(Events, k)
    BY <1>5 DEF Lawful
  <2>1. AllowedAt(Told, k) /\ Told[k] = Events[k]
    BY <1>6 DEF Lawful
  <2>2. k \in Nat /\ \A j \in 1..(k - 1) : Told[j] = Events[j]
    BY <1>5, <1>6
  <2>3. \A i, kind : SeenIndex(Told, k, i, kind) <=> SeenIndex(Events, k, i, kind)
    BY <2>2, SeenSame
  <2> QED
    BY <2>1, <2>3 DEF AllowedAt
<1> QED
  BY <1>1, <1>2, <1>3, <1>5, <1>7 DEF Events

LEMMA Conformance == IInv /\ ConformanceInv => DrainedConforms
<1> SUFFICES ASSUME IInv, ConformanceInv PROVE DrainedConforms
  OBVIOUS
<1>1. Disciplined => Lawful(Told)
  BY DEF ConformanceInv
<1>2. Event = K1Event /\ \A ev \in Event : IsDone(ev) <=> ev.kind = "done"
  BY AdapterAssumption DEF IsDoneEvent
<1>3. ToolCallsClosed
  <2> SUFFICES ASSUME NEW k \in DOMAIN delivered, IsDone(delivered[k].ev),
                      delivered[k].ev.finish = "tool_calls", Disciplined
               PROVE  CallsClosed(SubSeq(Events, 1, k - 1))
    BY DEF ToolCallsClosed
  <2>1. /\ Events \in Seq(K1Event) /\ Lawful(Events) /\ k \in DOMAIN Events
        /\ Events[k] = delivered[k].ev
    BY <1>1, DeliveredTold DEF IInv
  <2>2. Events[k] \in Event /\ Events[k].kind = "done" /\ Events[k].finish = "tool_calls"
    BY <1>2, <2>1
  <2>3. AllowedAt(Events, k)
    BY <2>1 DEF Lawful
  <2>4. \A i \in Indexes : ~SeenIndex(Events, k, i, "tool_start")
    BY <2>2, <2>3 DEF AllowedAt
  <2> QED
    BY <2>1, <2>4, NoneOpenClosed
<1>4. ASSUME Drained
      PROVE  /\ K1Conforms(Events)
             /\ AnnouncesEnd(dialect, Answer) <=> \E k \in DOMAIN Events : IsDone(Events[k])
  <2>1. Disciplined /\ outcome = "eof" /\ AllLatest
    BY <1>4 DEF Drained, Status, AllLatest
  <2>2. queue = <<>> /\ pos = Len(Answer) /\ EndTold
    BY <2>1 DEF ConformanceInv
  <2>3. Told = Events
    <3>1. Told = Untagged(delivered)
      BY <2>2, ToldType DEF IInv
    <3> QED
      BY <3>1 DEF Events, Untagged
  <2>4. /\ \A k \in DOMAIN Events : IsDone(Events[k]) => k = Len(Events) /\ AnnouncesEnd(dialect, Answer)
        /\ AnnouncesEnd(dialect, Answer) => AnyDone(Events)
    BY <2>1, <2>2, <2>3 DEF EndTold, Announced
  <2>5. Events \in Seq(K1Event) /\ Lawful(Events)
    BY <1>1, <2>1, DeliveredTold DEF IInv
  <2>6. \A k \in DOMAIN Events : Events[k].kind = "done" => k = Len(Events)
    <3>1. \A k \in DOMAIN Events : Events[k] \in Event
      BY <1>2, <2>5
    <3> QED
      BY <1>2, <2>4, <3>1
  <2>7. K1Conforms(Events)
    BY <2>5, <2>6, KeepsConforms
  <2> QED
    BY <2>4, <2>7 DEF AnyDone
<1> QED
  BY <1>3, <1>4, Zenon DEF DrainedConforms

\* Whatever the answers, the chunks they come in, the failures and the goroutines:
\* a stream drained to io.EOF satisfies the rules of AssertStreamToolCalls, has its
\* Done if and only if the upstream sent what it is made from, and no Done says
\* "tool_calls" while a call is open.
THEOREM DrainedConformsHolds == Spec => []DrainedConforms
<1>1. IInv /\ IInv' /\ TranslationInv /\ ConformanceInv /\ [Next]_vars => ConformanceInv'
  BY NextConformanceInv
<1> QED
  BY <1>1, InitConformanceInv, Translated, Conformance, PTL DEF Spec

-----------------------------------------------------------------------------
(* What a drained stream adds up to.                                       *)

\* What a new reader makes of an answer.
FirstRun(d, body) == Run(d, TrInit(d), body)
AllOf(d, body) == FirstRun(d, body)[Len(body)].evs

LEMMA NewRests ==
  ASSUME NEW d \in Dialects
  PROVE  Resting(d, <<>>, TrInit(d))
<1>1. TrInit(d) = AdapterInit(d)
  BY AdapterAssumption
<1>2. Keeps(<<>>, {}, {})
  BY NothingKeeps
<1>3. CASE d \in ChunkAdapters
  <2>1. TrInit(d) = OAInit
    BY <1>1, <1>3, Zenon DEF AdapterInit
  <2>2. TrInit(d).toolIndexes = {}
    BY <2>1 DEF OAInit
  <2> QED
    BY <1>2, <1>3, <2>2, Zenon DEF Resting
<1>4. CASE d \notin ChunkAdapters
  <2>1. TrInit(d) = AnthropicInit
    BY <1>1, <1>4, Zenon DEF AdapterInit
  <2>2. \A i \in Indexes : TrInit(d).blockKinds[i] = NoBlock
    <3>1. AnthropicInit.blockKinds = [i \in Indexes |-> NoBlock]
      BY DEF AnthropicInit
    <3> QED
      BY <2>1, <3>1, Zenon
  <2>3. NoBlock # "tool_use"
    BY DEF NoBlock
  <2> QED
    BY <1>2, <1>4, <2>2, <2>3, Zenon DEF Resting
<1> QED
  BY <1>3, <1>4

\* It goes on as the chunks say,
LEMMA RunTells ==
  ASSUME NEW d \in Dialects, NEW body \in Scripts(d), NEW k \in 0..Len(body)
  PROVE  TellsOf(d, body, k, FirstRun(d, body)[k].evs, FirstRun(d, body)[k].st)
<1> DEFINE n == Len(body)
           run == FirstRun(d, body)
           P == {m \in 0..n : TellsOf(d, body, m, run[m].evs, run[m].st)}
<1>1. body \in Seq(Chunk(d)) /\ n \in Nat /\ TrInit(d) \in TrState(d)
  BY AnswerInFormat, TranslatorAssumption
<1>2. 0 \in P
  <2>1. run[0] = Start(TrInit(d))
    BY <1>1, RunSteps DEF FirstRun
  <2>2. run[0].evs = <<>> /\ run[0].st = TrInit(d)
    BY <2>1 DEF Start
  <2> HIDE DEF run
  <2>3. TellsOf(d, body, 0, run[0].evs, run[0].st)
    BY <2>2, NewRests, RestTells, Zenon
  <2> QED
    BY <1>1, <2>3
<1>3. ASSUME NEW m \in 0..n, m # n, m \in P PROVE m + 1 \in P
  <2> DEFINE before == run[m]
  <2>1. m + 1 \in 1..n /\ m + 1 \in 0..n /\ (m + 1) - 1 = m /\ m < Len(body) /\ m \in 0..Len(body)
    BY <1>1, <1>3
  <2>2. before \in Acc(d) /\ run[m + 1] = Extended(d, before, body[m + 1])
    BY <1>1, <2>1, RunSteps DEF FirstRun
  <2>3. TellsOf(d, body, m, before.evs, before.st)
    BY <1>3
  <2> HIDE DEF run, before
  <2>4. before.st \in TrState(d)
    BY <2>2 DEF Acc
  <2>5. TellsOf(d, body, m + 1, before.evs \o ChunkEvents(d, before.st, body[m + 1]),
                ChunkState(d, before.st, body[m + 1]))
    BY <2>1, <2>3, <2>4, StepTold
  <2>6. /\ Extended(d, before, body[m + 1]).evs = before.evs \o ChunkEvents(d, before.st, body[m + 1])
        /\ Extended(d, before, body[m + 1]).st = ChunkState(d, before.st, body[m + 1])
    BY DEF Extended
  <2>7. TellsOf(d, body, m + 1, run[m + 1].evs, run[m + 1].st)
    BY <2>2, <2>5, <2>6, Zenon
  <2> QED
    BY <2>1, <2>7
<1>4. \A m \in 0..n : m \in P
  <2> HIDE DEF P
  <2> QED
    BY <1>1, <1>2, <1>3, UpTo
<1> QED
  BY <1>4

\* and is a completion, with the Done that the last chunk becomes if it is what
\* a Done is made from.
LEMMA RunEnds ==
  ASSUME NEW d \in Dialects, NEW body \in Scripts(d)
  PROVE  /\ AllOf(d, body) \in Seq(Event) /\ Completion(AllOf(d, body)) = AllOf(d, body)
         /\ \A e \in DoneOf(AllOf(d, body)) :
              /\ Len(body) # 0 /\ EndsAnswer(d, body[Len(body)])
              /\ ChunkEvents(d, FirstRun(d, body)[Len(body) - 1].st, body[Len(body)]) = <<e>>
<1> DEFINE n == Len(body)
           run == FirstRun(d, body)
           Ending(k) == EndsAnswer(d, body[k])
           P == {m \in 0..n : (\A k \in 1..m : ~Ending(k)) => ~AnyDone(run[m].evs)}
<1>1. /\ body \in Seq(Chunk(d)) /\ n \in Nat /\ TrInit(d) \in TrState(d) /\ DOMAIN body = 1..n
      /\ 0 \in 0..n /\ n \in 0..n
  BY AnswerInFormat, TranslatorAssumption
<1>0. n \in Nat
  BY <1>1
<1>2. /\ run[0] = Start(TrInit(d)) /\ \A k \in 0..n : run[k] \in Acc(d)
      /\ \A k \in 1..n : run[k] = Extended(d, run[k - 1], body[k])
  BY <1>1, RunSteps DEF FirstRun
<1>3. \A k \in 0..n : run[k].evs \in Seq(Event) /\ run[k].st \in TrState(d)
                      /\ TellsOf(d, body, k, run[k].evs, run[k].st)
  <2>1. \A k \in 0..n : TellsOf(d, body, k, run[k].evs, run[k].st)
    BY RunTells
  <2> HIDE DEF run
  <2> QED
    BY <1>2, <2>1 DEF Acc
<1> HIDE DEF run
<1>4. Event = K1Event /\ \A ev \in Event : IsDone(ev) <=> ev.kind = "done"
  BY AdapterAssumption DEF IsDoneEvent
<1>5. ASSUME NEW k \in 1..n
      PROVE  LET new == ChunkEvents(d, run[k - 1].st, body[k]) IN
             /\ new \in Seq(Event) /\ run[k].evs = run[k - 1].evs \o new
             /\ ~Ending(k) => \A i \in DOMAIN new : ~IsDone(new[i])
             /\ Ending(k) => k = n /\ \E done \in Event : IsDone(done) /\ new = <<done>>
  <2> DEFINE p == k - 1
             st == run[p].st
  <2>1. p \in 0..Len(body) /\ p < Len(body) /\ p + 1 = k /\ p \in 0..n /\ k \in DOMAIN body
    BY <1>1, <1>5
  <2>2. st \in TrState(d) /\ TellsOf(d, body, p, run[p].evs, st)
    BY <1>3, <2>1
  <2>3. run[k] = Extended(d, run[p], body[k])
    BY <1>2
  <2>4. run[k].evs = run[p].evs \o ChunkEvents(d, st, body[k])
    <3>1. Extended(d, run[p], body[k]).evs = run[p].evs \o ChunkEvents(d, run[p].st, body[k])
      BY DEF Extended
    <3> QED
      BY <2>3, <3>1, Zenon
  <2>5. ChunkEvents(d, st, body[k]) \in Seq(Event)
    <3>1. body[k] \in Chunk(d)
      BY <1>1, <2>1
    <3> HIDE DEF st
    <3> QED
      BY <2>2, <3>1, TranslatorAssumption
  <2> HIDE DEF st, p
  <2>6. LET c == body[p + 1]
            new == ChunkEvents(d, st, c)
        IN  /\ ~EndsAnswer(d, c) => \A i \in DOMAIN new : ~IsDone(new[i])
            /\ EndsAnswer(d, c) =>
                 p + 1 = Len(body) /\ \E done \in Event : IsDone(done) /\ new = <<done>>
    BY <2>1, <2>2, StepTold
  <2>7. /\ ~Ending(k) => \A i \in DOMAIN ChunkEvents(d, st, body[k]) : ~IsDone(ChunkEvents(d, st, body[k])[i])
        /\ Ending(k) => k = n /\ \E done \in Event : IsDone(done) /\ ChunkEvents(d, st, body[k]) = <<done>>
    BY <2>1, <2>6, Zenon
  <2> QED
    BY <2>4, <2>5, <2>7, Zenon DEF st, p
<1>6. 0 \in P
  <2>1. run[0].evs = <<>>
    BY <1>2 DEF Start
  <2>2. ~AnyDone(<<>>)
    BY DEF AnyDone
  <2> QED
    BY <1>1, <2>1, <2>2, Zenon
<1>7. ASSUME NEW m \in 0..n, m # n, m \in P PROVE m + 1 \in P
  <2> DEFINE old == run[m].evs
             new == ChunkEvents(d, run[m].st, body[m + 1])
  <2>1. m + 1 \in 1..n /\ m + 1 \in 0..n /\ (m + 1) - 1 = m
    <3> HIDE DEF P
    <3> QED
      BY <1>0, <1>7
  <2> SUFFICES ASSUME \A k \in 1..(m + 1) : ~Ending(k) PROVE ~AnyDone(run[m + 1].evs)
    BY <2>1
  <2>2. ~Ending(m + 1) /\ ~AnyDone(old)
    <3>1. m + 1 \in 1..(m + 1) /\ \A k \in 1..m : k \in 1..(m + 1)
      BY <1>7
    <3> HIDE DEF Ending
    <3> QED
      BY <1>7, <3>1
  <2>3. new \in Seq(Event) /\ run[m + 1].evs = old \o new /\ \A i \in DOMAIN new : ~IsDone(new[i])
    <3> HIDE DEF Ending
    <3> QED
      BY <1>5, <2>1, <2>2
  <2>4. old \in Seq(Event)
    BY <1>3, <1>7
  <2> HIDE DEF old, new
  <2>5. ~AnyDone(old \o new)
    <3>1. /\ old \o new \in Seq(Event) /\ DOMAIN (old \o new) = 1..(Len(old) + Len(new))
          /\ DOMAIN old = 1..Len(old) /\ DOMAIN new = 1..Len(new)
          /\ Len(old) \in Nat /\ Len(new) \in Nat
      BY <2>3, <2>4
    <3>2. ASSUME NEW i \in 1..(Len(old) + Len(new)) PROVE ~IsDone((old \o new)[i])
      <4>1. CASE i <= Len(old)
        <5>1. i \in DOMAIN old /\ (old \o new)[i] = old[i]
          BY <2>3, <2>4, <3>1, <3>2, <4>1
        <5> QED
          BY <2>2, <5>1 DEF AnyDone
      <4>2. CASE i > Len(old)
        <5>1. i - Len(old) \in DOMAIN new /\ (old \o new)[i] = new[i - Len(old)]
          BY <2>3, <2>4, <3>1, <3>2, <4>2
        <5> QED
          BY <2>3, <5>1
      <4> QED
        BY <3>1, <4>1, <4>2
    <3> QED
      BY <3>1, <3>2 DEF AnyDone
  <2> QED
    BY <2>3, <2>5
<1>8. \A m \in 0..n : m \in P
  <2> HIDE DEF P
  <2> QED
    BY <1>1, <1>6, <1>7, UpTo
<1>9. AllOf(d, body) = run[n].evs
  BY DEF AllOf, run
<1> DEFINE all == run[n].evs
<1>10. all \in Seq(Event)
  BY <1>1, <1>3
<1>11. CASE \A k \in 1..n : ~Ending(k)
  <2>1. ~AnyDone(all)
    BY <1>1, <1>8, <1>11
  <2> HIDE DEF all
  <2>2. Completion(all) = all
    BY <2>1, NoDone
  <2>3. DoneOf(all) = {}
    <3>1. \A k \in DOMAIN all : all[k] \in Event /\ ~IsDone(all[k])
      BY <1>10, <2>1 DEF AnyDone
    <3> QED
      BY <1>4, <3>1 DEF DoneOf, ToSet
  <2> QED
    BY <1>9, <1>10, <2>2, <2>3, Zenon DEF all
<1>12. CASE \E k \in 1..n : Ending(k)
  <2> DEFINE m == n - 1
             old == run[m].evs
  <2>1. Ending(n) /\ n # 0 /\ \A k \in 1..n : Ending(k) => k = n
    <3> HIDE DEF Ending
    <3>1. \A k \in 1..n : Ending(k) => k = n
      BY <1>5
    <3>2. PICK k \in 1..n : Ending(k)
      BY <1>12
    <3> QED
      BY <1>0, <3>1, <3>2
  <2>2. n \in 1..n /\ m \in 0..n /\ \A k \in 1..m : k \in 1..n /\ k # n
    <3> HIDE DEF Ending
    <3> QED
      BY <1>0, <2>1
  <2>3. ~AnyDone(old) /\ old \in Seq(Event)
    <3>1. \A k \in 1..m : ~Ending(k)
      BY <2>1, <2>2
    <3> HIDE DEF Ending, m
    <3> QED
      BY <1>3, <1>8, <2>2, <3>1
  <2>4. PICK done \in Event : IsDone(done) /\ ChunkEvents(d, run[m].st, body[n]) = <<done>>
                              /\ all = old \o <<done>>
    <3> HIDE DEF Ending
    <3> QED
      BY <1>5, <2>1, <2>2
  <2> HIDE DEF all, old, m
  <2>5. /\ Len(old) \in Nat /\ Len(all) = Len(old) + 1 /\ all[Len(all)] = done /\ Len(all) \in 1..Len(all)
        /\ DOMAIN old = 1..Len(old) /\ DOMAIN all = 1..Len(all)
        /\ \A i \in 1..Len(all) : i < Len(all) => i \in DOMAIN old /\ all[i] = old[i]
    BY <2>3, <2>4
  <2>6. \A i \in 1..Len(all) : i < Len(all) => ~IsDone(all[i])
    BY <2>3, <2>5 DEF AnyDone
  <2>7. Completion(all) = all
    <3>1. Completion(all) = SubSeq(all, 1, Len(all))
      BY <1>10, <2>4, <2>5, <2>6, FirstDone
    <3> QED
      BY <1>10, <3>1
  <2>8. \A e \in DoneOf(all) : e = done
    <3> SUFFICES ASSUME NEW e \in DoneOf(all) PROVE e = done
      OBVIOUS
    <3>1. PICK i \in DOMAIN all : e = all[i] /\ e.kind = "done"
      BY DEF DoneOf, ToSet
    <3>2. IsDone(all[i])
      BY <1>4, <1>10, <3>1
    <3>3. i = Len(all)
      BY <2>5, <2>6, <3>2
    <3> QED
      BY <2>5, <3>1, <3>3
  <2> HIDE DEF Ending
  <2>9. \A e \in DoneOf(all) : ChunkEvents(d, run[n - 1].st, body[n]) = <<e>>
    BY <2>4, <2>8 DEF m
  <2> QED
    BY <1>9, <1>10, <2>1, <2>7, <2>9, Zenon DEF all, run, Ending
<1> QED
  BY <1>11, <1>12

\* and adds up to what Generate returns for it, as a stream knows it.
LEMMA ChunksReadAgree ==
  ASSUME NEW d \in Dialects, d \in ChunkAdapters, NEW body \in Scripts(d)
  PROVE  LET response == WithOtherCalls(body, OAResponse(ChatCompletion(body))) IN
         /\ AddsUpTo(AllOf(d, body), response)
         /\ \A e \in DoneOf(AllOf(d, body)) : e = Done(response.usage, response.finish)
<1> DEFINE n == Len(body)
           run == FirstRun(d, body)
           response == WithOtherCalls(body, OAResponse(ChatCompletion(body)))
<1>0. n \in Nat /\ n \in 0..n /\ \A k \in 1..n : k - 1 \in 0..n /\ k \in DOMAIN body
  BY AnswerInFormat
<1>1. /\ body \in Seq(OAChunk) /\ CompleteAnswer(body)
      /\ \A k \in DOMAIN body : body[k].usage # NoUsage => body[k].choices = <<>>
  BY AnswerInFormat
<1>2. OneCallEach(body)
  BY OrderAssumption, Zenon DEF OrderedFor
<1>3. /\ run[0] = Start(TrInit(d)) /\ \A k \in 0..n : run[k] \in Acc(d)
      /\ \A k \in 1..n : body[k] \in Chunk(d) /\ run[k] = Extended(d, run[k - 1], body[k])
  BY RunSteps, TranslatorAssumption DEF FirstRun
<1>4. \A k \in 0..n : TellsOf(d, body, k, run[k].evs, run[k].st)
  BY RunTells
<1> HIDE DEF run
<1>5. \A k \in 0..n : /\ run[k].evs \in Seq(K1Event) /\ run[k].st \in TrState(d)
                      /\ Follows(body, k, run[k].evs, run[k].st)
  <2>1. \A k \in 0..n : run[k].evs \in Seq(Event) /\ run[k].st \in TrState(d)
    BY <1>3 DEF Acc
  <2>2. Event = K1Event
    BY AdapterAssumption
  <2>3. \A k \in 0..n : Follows(body, k, run[k].evs, run[k].st)
    BY <1>4, Zenon DEF TellsOf
  <2> QED
    BY <2>1, <2>2, <2>3
<1>6. ASSUME NEW k \in 1..n
      PROVE  /\ run[k - 1].st \in OAState
             /\ run[k].evs = run[k - 1].evs \o OATranslate(run[k - 1].st, body[k]).evs
             /\ run[k].st = OATranslate(run[k - 1].st, body[k]).st
             /\ ChunkEvents(d, run[k - 1].st, body[k]) = OATranslate(run[k - 1].st, body[k]).evs
  <2> DEFINE before == run[k - 1]
             st == before.st
             c == body[k]
  <2>1. st \in TrState(d) /\ c \in Chunk(d)
    BY <1>0, <1>3, <1>5
  <2>2. run[k] = Extended(d, before, c)
    BY <1>3
  <2>3. Extended(d, before, c).evs = before.evs \o ChunkEvents(d, st, c)
        /\ Extended(d, before, c).st = ChunkState(d, st, c)
    BY DEF Extended
  <2> HIDE DEF st, c, before
  <2>4. /\ st \in OAState /\ ChunkEvents(d, st, c) = OATranslate(st, c).evs
        /\ ChunkState(d, st, c) = OATranslate(st, c).st
    BY <2>1, StepInFormat
  <2> QED
    BY <2>2, <2>3, <2>4, Zenon DEF st, c, before
<1>7. ReadsAnswer(body, run)
  <2>1. run[0].evs = <<>>
    BY <1>3 DEF Start
  <2>2. \A k \in 1..n : Follows(body, k - 1, run[k - 1].evs, run[k - 1].st)
    BY <1>0, <1>5
  <2> QED
    BY <1>0, <1>5, <1>6, <2>1, <2>2, Zenon DEF ReadsAnswer
<1>8. /\ AddsUpTo(run[n].evs, response)
      /\ \A k \in 1..n : body[k].usage.source = "reported" =>
           OATranslate(run[k - 1].st, body[k]).evs = <<Done(response.usage, response.finish)>>
  BY <1>1, <1>2, <1>7, AnswerReadAgrees
<1> HIDE DEF response
<1>9. AllOf(d, body) = run[n].evs
  BY DEF AllOf, run
<1>10. ASSUME NEW e \in DoneOf(AllOf(d, body)) PROVE e = Done(response.usage, response.finish)
  <2> DEFINE done == Done(response.usage, response.finish)
  <2>1. n # 0 /\ EndsAnswer(d, body[n]) /\ ChunkEvents(d, run[n - 1].st, body[n]) = <<e>>
    BY <1>10, RunEnds DEF run
  <2>2. n \in 1..n
    BY <1>0, <2>1
  <2>3. body[n].usage.source = "reported"
    BY <2>1, Zenon DEF EndsAnswer
  <2> HIDE DEF done
  <2>4. <<e>> = <<done>>
    BY <1>6, <1>8, <2>1, <2>2, <2>3, Zenon DEF done
  <2>5. e = done
    BY <2>4
  <2> QED
    BY <2>5 DEF done
<1> QED
  BY <1>8, <1>9, <1>10, Zenon DEF response

LEMMA MessagesReadAgree ==
  ASSUME NEW d \in Dialects, d \notin ChunkAdapters, NEW body \in Scripts(d)
  PROVE  LET response == AnthropicResponse(Message(body)) IN
         /\ AddsUpTo(AllOf(d, body), response)
         /\ \A e \in DoneOf(AllOf(d, body)) : e = Done(LastUsage(body), response.finish)
<1> DEFINE n == Len(body)
           run == FirstRun(d, body)
           response == AnthropicResponse(Message(body))
<1>0. n \in Nat /\ n \in 0..n /\ \A k \in 1..n : k - 1 \in 0..n /\ k \in DOMAIN body
  BY AnswerInFormat
<1>1. body \in Seq(AnthropicChunk) /\ CompleteMessage(body)
  BY AnswerInFormat
<1>2. BlockByBlock(body)
  BY OrderAssumption, Zenon DEF OrderedFor
<1>3. /\ run[0] = Start(TrInit(d)) /\ \A k \in 0..n : run[k] \in Acc(d)
      /\ \A k \in 1..n : body[k] \in Chunk(d) /\ run[k] = Extended(d, run[k - 1], body[k])
  BY RunSteps, TranslatorAssumption DEF FirstRun
<1> HIDE DEF run
<1>4. Event = K1Event
  BY AdapterAssumption
<1>5. \A k \in 0..n : run[k].evs \in Seq(K1Event) /\ run[k].st \in TrState(d)
  BY <1>3, <1>4 DEF Acc
<1>6. ASSUME NEW k \in 1..n
      PROVE  /\ run[k - 1].st \in AnthropicState /\ run[k].st \in AnthropicState
             /\ AnthropicTranslate(run[k - 1].st, body[k]) \in Seq(K1Event)
             /\ run[k].evs = run[k - 1].evs \o AnthropicTranslate(run[k - 1].st, body[k])
             /\ run[k].st = AnthropicAfter(run[k - 1].st, body[k])
             /\ ChunkEvents(d, run[k - 1].st, body[k]) = AnthropicTranslate(run[k - 1].st, body[k])
  <2> DEFINE before == run[k - 1]
             st == before.st
             c == body[k]
  <2>1. st \in TrState(d) /\ c \in Chunk(d)
    BY <1>0, <1>3, <1>5
  <2>2. run[k] = Extended(d, before, c)
    BY <1>3
  <2>3. Extended(d, before, c).evs = before.evs \o ChunkEvents(d, st, c)
        /\ Extended(d, before, c).st = ChunkState(d, st, c)
    BY DEF Extended
  <2> HIDE DEF st, c, before
  <2>4. /\ st \in AnthropicState /\ ChunkState(d, st, c) \in AnthropicState
        /\ ChunkEvents(d, st, c) = AnthropicTranslate(st, c)
        /\ ChunkState(d, st, c) = AnthropicAfter(st, c)
    BY <2>1, StepInFormat
  <2>5. ChunkEvents(d, st, c) \in Seq(K1Event)
    BY <1>4, <2>1, TranslatorAssumption
  <2> QED
    BY <2>2, <2>3, <2>4, <2>5, Zenon DEF st, c, before
<1>7. ReadsMessage(body, run)
  <2>1. run[0].evs = <<>>
    BY <1>3 DEF Start
  <2>2. run[0].st \in AnthropicState
    <3>1. TrState(d) = AdapterState(d)
      BY AdapterAssumption
    <3>2. AdapterState(d) = AnthropicState
      BY Zenon DEF AdapterState
    <3> QED
      BY <1>0, <1>5, <3>1, <3>2
  <2>3. \A k \in 0..n : k = 0 \/ k \in 1..n
    BY <1>0
  <2>4. \A k \in 0..n : run[k].st \in AnthropicState /\ run[k].evs \in Seq(K1Event)
    BY <1>5, <1>6, <2>2, <2>3, Zenon
  <2> QED
    BY <1>6, <2>1, <2>4, Zenon DEF ReadsMessage
<1>8. /\ AddsUpTo(run[n].evs, response)
      /\ \A k \in 1..n : body[k].type = "message_stop" =>
           AnthropicTranslate(run[k - 1].st, body[k]) = <<Done(LastUsage(body), response.finish)>>
  BY <1>1, <1>2, <1>7, MessageReadAgrees
<1> HIDE DEF response
<1>9. AllOf(d, body) = run[n].evs
  BY DEF AllOf, run
<1>10. ASSUME NEW e \in DoneOf(AllOf(d, body)) PROVE e = Done(LastUsage(body), response.finish)
  <2> DEFINE done == Done(LastUsage(body), response.finish)
  <2>1. n # 0 /\ EndsAnswer(d, body[n]) /\ ChunkEvents(d, run[n - 1].st, body[n]) = <<e>>
    BY <1>10, RunEnds DEF run
  <2>2. n \in 1..n
    BY <1>0, <2>1
  <2>3. body[n].type = "message_stop"
    BY <2>1, Zenon DEF EndsAnswer
  <2> HIDE DEF done
  <2>4. <<e>> = <<done>>
    BY <1>6, <1>8, <2>1, <2>2, <2>3, Zenon DEF done
  <2>5. e = done
    BY <2>4
  <2> QED
    BY <2>5 DEF done
<1> QED
  BY <1>8, <1>9, <1>10, Zenon DEF response

\* Generate of each adapter, as its stream knows it.
Known(d, body) == StreamKnows(d, body, Generate(d, body))

LEMMA KnownIs ==
  ASSUME NEW d \in Dialects, NEW body
  PROVE  /\ d \in ChunkAdapters =>
              Known(d, body) = WithOtherCalls(body, OAResponse(ChatCompletion(body)))
         /\ d \notin ChunkAdapters =>
              LET response == AnthropicResponse(Message(body)) IN
              /\ Known(d, body).text = response.text /\ Known(d, body).calls = response.calls
              /\ Known(d, body).finish = response.finish /\ Known(d, body).usage = LastUsage(body)
<1>1. ASSUME d \in ChunkAdapters
      PROVE  Known(d, body) = WithOtherCalls(body, OAResponse(ChatCompletion(body)))
  <2>1. d \in {"openai", "deepseek", "kimi"}
    BY <1>1, Zenon DEF ChunkAdapters
  <2>2. Generate(d, body) = OAResponse(ChatCompletion(body))
    BY <2>1 DEF Generate, OpenAIGenerate, DeepSeekGenerate, KimiGenerate
  <2> QED
    BY <1>1, <2>2, Zenon DEF Known, StreamKnows
<1>2. ASSUME d \notin ChunkAdapters
      PROVE  LET response == AnthropicResponse(Message(body)) IN
             /\ Known(d, body).text = response.text /\ Known(d, body).calls = response.calls
             /\ Known(d, body).finish = response.finish /\ Known(d, body).usage = LastUsage(body)
  <2> DEFINE m == Message(body)
             text == BlockTexts(m)
             calls == {ToolCall(b.call, b.text) : b \in {c \in ToSet(m.content) : c.kind = "tool_use"}}
             response == AnthropicResponse(m)
             finish == MapAnthropicStopReason(m.stop)
             usage == Reported(m.in, m.out, m.in + m.out)
             last == LastDelta(body)
  <2>1. d \in {"anthropic", "minimax"}
    BY <1>2, AdapterAssumption, Zenon DEF MessageAdapters
  <2>2. Generate(d, body) = response
    BY <2>1 DEF Generate, AnthropicGenerate, MiniMaxGenerate
  <2>3. Known(d, body)
          = [response EXCEPT !.usage = Reported(last.in, @.out, last.in + @.out)]
    BY <1>2, <2>2, Zenon DEF Known, StreamKnows
  <2>4. response = [text |-> text, calls |-> calls, finish |-> finish, usage |-> usage]
    BY DEF AnthropicResponse, Response
  <2>5. usage.out = last.out
    BY DEF Reported, Message
  <2> HIDE DEF text, calls, finish, usage, last, response
  <2>6. response.usage = usage
    BY <2>4
  <2>7. Known(d, body) = [text |-> text, calls |-> calls, finish |-> finish,
                          usage |-> Reported(last.in, last.out, last.in + last.out)]
    BY <2>3, <2>4, <2>5, <2>6
  <2>8. LastUsage(body) = Reported(last.in, last.out, last.in + last.out)
    BY DEF LastUsage, last
  <2> HIDE DEF m
  <2>9. /\ Known(d, body).text = response.text /\ Known(d, body).calls = response.calls
        /\ Known(d, body).finish = response.finish /\ Known(d, body).usage = LastUsage(body)
    BY <2>4, <2>7, <2>8
  <2> QED
    BY <2>9 DEF response, m
<1> QED
  BY <1>1, <1>2

LEMMA FirstRunAgrees ==
  ASSUME NEW d \in Dialects, NEW body \in Scripts(d)
  PROVE  /\ AddsUpTo(AllOf(d, body), Known(d, body))
         /\ \A e \in DoneOf(AllOf(d, body)) :
              e.finish = Known(d, body).finish /\ e.usage = Known(d, body).usage
<1>1. \A u, f : Done(u, f).usage = u /\ Done(u, f).finish = f
  BY DEF Done, Blank
<1>2. CASE d \in ChunkAdapters
  <2> DEFINE response == WithOtherCalls(body, OAResponse(ChatCompletion(body)))
  <2>1. /\ AddsUpTo(AllOf(d, body), response)
        /\ \A e \in DoneOf(AllOf(d, body)) : e = Done(response.usage, response.finish)
    BY <1>2, ChunksReadAgree
  <2>2. Known(d, body) = response
    BY <1>2, KnownIs
  <2> HIDE DEF response
  <2>3. ASSUME NEW e \in DoneOf(AllOf(d, body))
        PROVE  e.finish = response.finish /\ e.usage = response.usage
    <3>1. e = Done(response.usage, response.finish)
      BY <2>1, <2>3
    <3> QED
      BY <1>1, <3>1
  <2> QED
    BY <2>1, <2>2, <2>3, Zenon
<1>3. CASE d \notin ChunkAdapters
  <2> DEFINE response == AnthropicResponse(Message(body))
  <2>1. /\ AddsUpTo(AllOf(d, body), response)
        /\ \A e \in DoneOf(AllOf(d, body)) : e = Done(LastUsage(body), response.finish)
    BY <1>3, MessagesReadAgree
  <2>2. /\ Known(d, body).text = response.text /\ Known(d, body).calls = response.calls
        /\ Known(d, body).finish = response.finish /\ Known(d, body).usage = LastUsage(body)
    BY <1>3, KnownIs
  <2> HIDE DEF response
  <2>3. AddsUpTo(AllOf(d, body), Known(d, body))
    BY <2>1, <2>2, Zenon DEF AddsUpTo
  <2>4. ASSUME NEW e \in DoneOf(AllOf(d, body))
        PROVE  e.finish = response.finish /\ e.usage = LastUsage(body)
    <3>1. e = Done(LastUsage(body), response.finish)
      BY <2>1, <2>4
    <3> QED
      BY <1>1, <3>1
  <2> QED
    BY <2>2, <2>3, <2>4, Zenon
<1> QED
  BY <1>2, <1>3

\* What was drained of one answer alone is all of it.
DrainedInv ==
  Disciplined /\ outcome = "eof" => served # <<>> /\ (AllLatest => Log = Whole)

LEMMA NextDrainedInv ==
  ASSUME IInv, TranslationInv, DrainedInv, [Next]_vars
  PROVE  DrainedInv'
<1> SUFFICES ASSUME Disciplined', outcome' = "eof"
             PROVE  served' # <<>> /\ (AllLatest' => Log' = Whole')
  BY DEF DrainedInv
<1>1. Disciplined /\ dialect' = dialect /\ habit' = habit
  BY Unchanging DEF Disciplined
<1>2. CASE RecvEnd
  <2>1. UNCHANGED <<delivered, served, dialect, habit>>
    BY <1>2 DEF RecvEnd
  <2>2. Log' = Log /\ Whole' = Whole /\ (AllLatest' <=> AllLatest)
    BY <2>1 DEF Log, Whole, AllLatest, Disciplined, Events, Answer
  <2>3. served # <<>>
    BY <1>2, StreamServed DEF RecvEnd, IInv, StreamInv
  <2>4. ASSUME DoneShown, AllLatest PROVE Log = Whole
    <3>1. Log = Source /\ Log # <<>> /\ delivered # <<>>
      BY <1>1, <2>4, DoneLogged DEF TranslationInv, IInv
    <3>2. 1 \in DOMAIN delivered
      BY <3>1, UntaggedQueue DEF IInv
    <3>3. delivered[1].req = Len(served)
      BY <2>4, <3>2 DEF AllLatest
    <3> QED
      BY <3>1, <3>3 DEF Source, Whole, Answer
  <2>5. AllLatest => Log = Whole
    BY <1>1, <1>2, <2>4, EofWhole
  <2> QED
    BY <2>1, <2>2, <2>3, <2>5
<1>3. CASE ~RecvEnd
  <2>1. outcome = "eof"
    BY <1>3 DEF Next, NextCall, NextLock, NextClosed, NextPop, NextRead, RecvChunk, RecvError, Return,
                CloseCall, CloseRun, Cancel, Finished, vars
  <2>2. npc = "over" /\ stream = 0
    BY <1>1, <2>1 DEF IInv, StreamInv
  <2>3. UNCHANGED <<delivered, served, dialect, habit>>
    BY <1>1, <1>3, <2>2 DEF Next, NextCall, NextLock, NextClosed, NextPop, NextRead, RecvChunk, RecvError,
                CloseCall, CloseRun, Cancel, Finished, vars, server
  <2>4. Log' = Log /\ Whole' = Whole /\ (AllLatest' <=> AllLatest)
    BY <2>3 DEF Log, Whole, AllLatest, Disciplined, Events, Answer
  <2> QED
    BY <1>1, <2>1, <2>3, <2>4 DEF DrainedInv
<1> QED
  BY <1>2, <1>3

\* A stream of an SSE adapter that was drained to io.EOF adds up to what Generate
\* returns for the same answer: the same text, the same calls with the same
\* arguments and, if there was a Done, the finish reason and the usage that a
\* stream knows of.  Beyond these it has the calls whose type is not "function",
\* which Generate leaves out, and no others.  It is so for every set of answers
\* that are whole and in order, in whatever chunks they come.
THEOREM GenerateAgreesHolds == Spec => []GenerateAgrees
<1>1. Init => DrainedInv
  BY DEF Init, DrainedInv
<1>2. IInv /\ TranslationInv /\ DrainedInv /\ [Next]_vars => DrainedInv'
  BY NextDrainedInv
<1>3. ASSUME IInv, DrainedInv, Drained
      PROVE  Agrees(Accumulated(Log), Generated[dialect][Answer])
  <2> DEFINE all == AllOf(dialect, Answer)
             known == Known(dialect, Answer)
             text == Joined(all, TextEvents)
             calls == {ToolCall(e.call, ArgsByIndex(all, e.index)) : e \in StartsOf(all)}
             finish == IF DoneOf(all) = {} THEN NoFinish ELSE (CHOOSE e \in DoneOf(all) : TRUE).finish
             usage == IF DoneOf(all) = {} THEN NoUsage ELSE (CHOOSE e \in DoneOf(all) : TRUE).usage
  <2>1. Disciplined /\ outcome = "eof" /\ AllLatest
    BY <1>3 DEF Drained, Status, AllLatest
  <2>2. served # <<>> /\ Log = Whole
    BY <1>3, <2>1 DEF DrainedInv
  <2>3. dialect \in Dialects /\ Answer \in Scripts(dialect)
    BY <1>3, <2>2, AnswerType DEF IInv
  <2>4. Log = all
    <3>1. Whole = Completion(all)
      BY <2>3 DEF Whole, Translation, Completed, AllOf, FirstRun
    <3> HIDE DEF all
    <3> QED
      BY <2>2, <2>3, <3>1, RunEnds DEF all
  <2>5. Generated[dialect][Answer] = known
    BY <2>3 DEF Generated, Known
  <2>6. /\ AddsUpTo(all, known)
        /\ \A e \in DoneOf(all) : e.finish = known.finish /\ e.usage = known.usage
    BY <2>3, FirstRunAgrees
  <2> HIDE DEF all, known
  <2>7. text = known.text /\ calls = known.calls
    BY <2>6, Zenon DEF AddsUpTo
  <2>8. finish \in {NoFinish, known.finish} /\ usage \in {NoUsage, known.usage}
    <3>1. CASE DoneOf(all) = {}
      BY <3>1, Zenon
    <3>2. CASE DoneOf(all) # {}
      <4>1. (CHOOSE e \in DoneOf(all) : TRUE) \in DoneOf(all)
        BY <3>2, Zenon
      <4>2. finish = known.finish /\ usage = known.usage
        BY <2>6, <3>2, <4>1, Zenon
      <4> QED
        BY <4>2, Zenon
    <3> QED
      BY <3>1, <3>2, Zenon
  <2>9. Accumulated(all) = Response(text, calls, finish, usage)
    BY Zenon DEF Accumulated
  <2> HIDE DEF text, calls, finish, usage
  <2>10. /\ Accumulated(all).text = text /\ Accumulated(all).calls = calls
         /\ Accumulated(all).finish = finish /\ Accumulated(all).usage = usage
    BY <2>9 DEF Response
  <2>11. Agrees(Accumulated(all), known)
    BY <2>7, <2>8, <2>10, Zenon DEF Agrees
  <2> QED
    BY <2>4, <2>5, <2>11, Zenon
<1>4. IInv /\ DrainedInv => GenerateAgrees
  BY <1>3 DEF GenerateAgrees
<1> QED
  BY <1>1, <1>2, <1>4, Translated, PTL DEF Spec
=============================================================================
