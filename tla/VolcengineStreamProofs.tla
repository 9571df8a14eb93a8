----------------------- MODULE VolcengineStreamProofs -----------------------
(***************************************************************************)
(* The reader of VolcengineStream for every translator, every set of       *)
(* bodies, any number of goroutines calling Close, every habit of the      *)
(* consumer and any number of requests: types, the mutex, the one retry,   *)
(* the closing of streams, the one Done.                                   *)
(***************************************************************************)
EXTENDS VolcengineContract, ConformanceTheorems

TaggedEvent == [req : Nat \ {0}, ev : Event]

\* The upstream is opened and read by an open reader with nothing queued, and
\* no stream but the reader's is open.
StreamInv ==
  /\ npc = "recv" => stream # 0 /\ queue = <<>> /\ ~closed
  /\ npc = "open" => stream = 0 /\ queue = <<>> /\ ~closed /\ served # <<>>
  /\ closed => stream = 0
  /\ stream = 0 /\ ~closed => queue = <<>>
  /\ live = {stream} \ {0}
  /\ Disciplined /\ outcome \in {"eof", "closed", "error"} => npc = "over" /\ stream = 0

\* A request is only sent when nothing was, or once after a failed one.
RequestInv ==
  Disciplined =>
    /\ Len(served) <= IF retried THEN 2 ELSE 1
    /\ stream = 0 /\ npc \notin {"open", "over"} /\ ~closed => Len(served) = IF retried THEN 1 ELSE 0

\* The Done is made once, and is delivered or queued from then on.
HasDone(s) == \E k \in DOMAIN s : IsDone(s[k].ev)
OneIn(s) == \A j, k \in DOMAIN s : IsDone(s[j].ev) /\ IsDone(s[k].ev) => j = k
DoneInv ==
  /\ doneEmitted <=> HasDone(delivered) \/ HasDone(queue)
  /\ ~(HasDone(delivered) /\ HasDone(queue))
  /\ OneIn(delivered) /\ OneIn(queue)

\* Once it is made, a consumer that stops at the end finds nothing but it in the
\* queue and nothing but the end in the body.
LastInv ==
  Disciplined =>
    /\ outcome = "eof" => HasDone(delivered)
    /\ doneEmitted => closed \/ npc = "over" \/ (stream # 0 /\ atEof /\ pos = Len(Body))
    /\ doneEmitted => queue = <<>> \/ (Len(queue) = 1 /\ IsDone(queue[1].ev))
    /\ \A k \in DOMAIN delivered : IsDone(delivered[k].ev) => k = Len(delivered)

IInv == TypeOK /\ StreamInv /\ RequestInv /\ DoneInv /\ LastInv

LEMMA InitIInv == Init => IInv
<1> SUFFICES ASSUME Init PROVE IInv
  OBVIOUS
<1>1. TypeOK
  <2>1. TrInit \in TrState
    BY TranslatorAssumption
  <2>2. cpc \in [Closers -> {"idle", "lock", "done"}]
    BY DEF Init
  <2>3. served \in Seq(Bodies) /\ queue \in Seq([req : Nat \ {0}, ev : Event])
        /\ delivered \in Seq([req : Nat \ {0}, ev : Event])
    BY DEF Init
  <2> QED
    BY <2>1, <2>2, <2>3 DEF Init, TypeOK
<1>2. StreamInv /\ RequestInv /\ LastInv
  BY DEF Init, StreamInv, RequestInv, LastInv, Disciplined
<1>3. DoneInv
  BY DEF Init, DoneInv, HasDone, OneIn
<1> QED
  BY <1>1, <1>2, <1>3 DEF IInv

\* The head of the queue and what is left of it.
LEMMA HeadType ==
  ASSUME TypeOK, queue # <<>>
  PROVE  /\ Head(queue) \in TaggedEvent
         /\ Head(queue) = queue[1] /\ 1 \in DOMAIN queue
         /\ Tail(queue) \in Seq(TaggedEvent)
         /\ Len(Tail(queue)) = Len(queue) - 1
         /\ \A i \in DOMAIN Tail(queue) : i + 1 \in DOMAIN queue /\ Tail(queue)[i] = queue[i + 1]
         /\ \A i \in DOMAIN queue : i # 1 => i - 1 \in DOMAIN Tail(queue) /\ Tail(queue)[i - 1] = queue[i]
<1>1. queue \in Seq(TaggedEvent)
  BY DEF TypeOK, TaggedEvent
<1>2. Len(queue) \in Nat /\ DOMAIN queue = 1..Len(queue) /\ Len(queue) # 0
  BY <1>1
<1>3. 1 \in DOMAIN queue /\ Head(queue) = queue[1] /\ queue[1] \in TaggedEvent
  BY <1>1, <1>2
<1>4. Tail(queue) \in Seq(TaggedEvent) /\ Len(Tail(queue)) = Len(queue) - 1
  BY <1>1
<1>5. DOMAIN Tail(queue) = 1..(Len(queue) - 1)
  BY <1>2, <1>4
<1>6. \A i \in DOMAIN Tail(queue) : Tail(queue)[i] = queue[i + 1]
  BY <1>1, <1>5
<1>7. \A i \in DOMAIN Tail(queue) : i + 1 \in DOMAIN queue
  BY <1>2, <1>5
<1>8. \A i \in DOMAIN queue : i # 1 => i - 1 \in DOMAIN Tail(queue)
  BY <1>2, <1>5
<1>9. \A i \in DOMAIN queue : i # 1 => Tail(queue)[i - 1] = queue[i]
  BY <1>1, <1>2, <1>5, <1>6, <1>8
<1> QED
  BY <1>3, <1>4, <1>6, <1>7, <1>8, <1>9

\* Tagging keeps the events and adds the latest request.
LEMMA TagType ==
  ASSUME NEW evs \in Seq(Event), served \in Seq(Bodies), served # <<>>
  PROVE  /\ Tag(evs) \in Seq(TaggedEvent)
         /\ DOMAIN Tag(evs) = DOMAIN evs
         /\ \A i \in DOMAIN evs : Tag(evs)[i].ev = evs[i]
<1>1. Len(served) \in Nat \ {0}
  OBVIOUS
<1>2. \A i \in 1..Len(evs) : [req |-> Len(served), ev |-> evs[i]] \in TaggedEvent
  BY <1>1 DEF TaggedEvent
<1>3. DOMAIN evs = 1..Len(evs) /\ Len(evs) \in Nat
  OBVIOUS
<1>4. Tag(evs) \in [1..Len(evs) -> TaggedEvent]
  BY <1>2, <1>3 DEF Tag
<1> QED
  BY <1>3, <1>4 DEF Tag

\* A request is added to those served.
LEMMA OpenEffect ==
  ASSUME TypeOK, NextOpen
  PROVE  served' \in Seq(Bodies) /\ Len(served') = Len(served) + 1 /\ served' # <<>>
<1>1. PICK body \in Bodies : served' = Append(served, body)
  BY DEF NextOpen
<1> QED
  BY <1>1 DEF TypeOK

\* The chunk read next becomes events without a Done, which go into an empty
\* queue.
LEMMA ChunkEffect ==
  ASSUME TypeOK, StreamInv, RecvChunk
  PROVE  /\ queue' \in Seq(TaggedEvent) /\ tr' \in TrState
         /\ \A k \in DOMAIN queue' : ~IsDone(queue'[k].ev)
<1> DEFINE c == Body[pos + 1]
<1> DEFINE evs == ChunkEvents(tr, c)
<1>1. served # <<>> /\ Len(served) \in DOMAIN served
  BY DEF RecvChunk, StreamInv, TypeOK
<1>2. Body \in Seq(Chunk)
  BY <1>1, TranslatorAssumption DEF TypeOK, Body
<1>3. c \in Chunk
  BY <1>2 DEF RecvChunk, TypeOK
<1>4. /\ evs \in Seq(Event) /\ ChunkAfter(tr, c) \in TrState
      /\ \A k \in DOMAIN evs : ~IsDone(evs[k])
  BY <1>3, TranslatorAssumption DEF TypeOK
<1>5. /\ Tag(evs) \in Seq(TaggedEvent) /\ DOMAIN Tag(evs) = DOMAIN evs
      /\ \A i \in DOMAIN evs : Tag(evs)[i].ev = evs[i]
  BY <1>1, <1>4, TagType DEF TypeOK
<1>6. queue' = Tag(evs)
  <2> HIDE DEF c, evs
  <2>1. queue = <<>> /\ queue' = queue \o Tag(evs)
    BY DEF RecvChunk, StreamInv, c, evs
  <2> QED
    BY <2>1, <1>5
<1>7. tr' = ChunkAfter(tr, c)
  BY DEF RecvChunk
<1> HIDE DEF c, evs
<1> QED
  BY <1>4, <1>5, <1>6, <1>7

\* At the end of the body the Done goes into an empty queue.
LEMMA EndEffect ==
  ASSUME TypeOK, StreamInv, RecvFirstEof
  PROVE  queue' \in Seq(TaggedEvent) /\ Len(queue') = 1 /\ DOMAIN queue' = {1} /\ IsDone(queue'[1].ev)
<1> DEFINE evs == <<EndEvent(tr)>>
<1>1. served # <<>>
  BY DEF RecvFirstEof, StreamInv, TypeOK
<1>2. EndEvent(tr) \in Event /\ IsDone(EndEvent(tr))
  BY TranslatorAssumption DEF TypeOK
<1>3. evs \in Seq(Event) /\ DOMAIN evs = {1} /\ evs[1] = EndEvent(tr)
  BY <1>2
<1>4. /\ Tag(evs) \in Seq(TaggedEvent) /\ DOMAIN Tag(evs) = {1}
      /\ Tag(evs)[1].ev = EndEvent(tr)
  <2> HIDE DEF evs
  <2> QED
    BY <1>1, <1>3, TagType DEF TypeOK
<1>5. queue' = Tag(evs)
  <2>1. queue = <<>> /\ queue' = queue \o Tag(evs)
    BY DEF RecvFirstEof, StreamInv
  <2> HIDE DEF evs
  <2> QED
    BY <2>1, <1>4
<1> HIDE DEF evs
<1> QED
  BY <1>2, <1>4, <1>5

\* Every step of the reader, its closers, the context and the server preserves
\* the types.
LEMMA NextTypeOK ==
  ASSUME TypeOK, StreamInv, [Next]_vars
  PROVE  TypeOK'
<1> USE DEF TypeOK
<1>1. CASE NextCall
  BY <1>1 DEF NextCall, reader, upstream
<1>2. CASE NextLock
  BY <1>2 DEF NextLock, reader, upstream
<1>3. CASE NextClosed
  BY <1>3 DEF NextClosed, Return, reader, upstream
<1>4. CASE NextPop
  <2>1. Head(queue) \in TaggedEvent /\ Tail(queue) \in Seq(TaggedEvent)
    BY <1>4, HeadType DEF NextPop
  <2>2. queue' \in Seq(TaggedEvent) /\ delivered' \in Seq(TaggedEvent)
    <3>1. delivered \in Seq(TaggedEvent)
      BY DEF TaggedEvent
    <3> QED
      BY <1>4, <2>1, <3>1 DEF NextPop
  <2> QED
    BY <1>4, <2>2 DEF NextPop, Return, upstream, TaggedEvent
<1>5. CASE NextOpen
  BY <1>5, OpenEffect DEF NextOpen, reader
<1>6. CASE OpenSucceeds
  <2>1. Len(served) \in Nat
    OBVIOUS
  <2> QED
    BY <1>6, <2>1 DEF OpenSucceeds, reader
<1>7. CASE OpenFails
  BY <1>7 DEF OpenFails, RetryOrFail, Return, upstream
<1>8. CASE NextRecv
  BY <1>8 DEF NextRecv, reader, upstream
<1>9. CASE RecvChunk
  BY <1>9, ChunkEffect DEF RecvChunk, TaggedEvent
<1>10. CASE RecvFirstEof
  BY <1>10, EndEffect DEF RecvFirstEof, TaggedEvent
<1>11. CASE RecvEof
  BY <1>11 DEF RecvEof, DropStream, Return, reader
<1>12. CASE RecvError
  BY <1>12 DEF RecvError, DropStream, RetryOrFail, Return
<1>13. ASSUME NEW c \in Closers, CloseCall(c) PROVE TypeOK'
  BY <1>13 DEF CloseCall, reader, upstream
<1>14. ASSUME NEW c \in Closers, CloseRun(c) PROVE TypeOK'
  BY <1>14 DEF CloseRun, DropStream
<1>15. CASE Cancel
  BY <1>15 DEF Cancel, reader, upstream
<1>16. CASE UNCHANGED vars
  BY <1>16 DEF vars, reader, upstream
<1> QED
  BY <1>1, <1>2, <1>3, <1>4, <1>5, <1>6, <1>7, <1>8, <1>9, <1>10, <1>11, <1>12, <1>13, <1>14,
     <1>15, <1>16 DEF Next, Finished

\* Each step also preserves the state of the upstream stream.
LEMMA NextStreamInv ==
  ASSUME TypeOK, StreamInv, [Next]_vars
  PROVE  StreamInv'
<1> USE DEF StreamInv, Disciplined
<1>1. CASE NextCall
  BY <1>1 DEF NextCall, reader, upstream
<1>2. CASE NextLock
  BY <1>2 DEF NextLock, reader, upstream
<1>3. CASE NextClosed
  BY <1>3 DEF NextClosed, Return, reader, upstream
<1>4. CASE NextPop
  BY <1>4 DEF NextPop, Return, upstream
<1>5. CASE NextOpen
  BY <1>5, OpenEffect DEF NextOpen, reader
<1>6. CASE OpenSucceeds
  BY <1>6 DEF OpenSucceeds, reader, TypeOK
<1>7. CASE OpenFails
  BY <1>7 DEF OpenFails, RetryOrFail, Return, upstream
<1>8. CASE NextRecv
  BY <1>8 DEF NextRecv, reader, upstream
<1>9. CASE RecvChunk
  BY <1>9 DEF RecvChunk
<1>10. CASE RecvFirstEof
  BY <1>10 DEF RecvFirstEof
<1>11. CASE RecvEof
  BY <1>11 DEF RecvEof, DropStream, Return, reader, TypeOK
<1>12. CASE RecvError
  BY <1>12 DEF RecvError, DropStream, RetryOrFail, Return, TypeOK
<1>13. ASSUME NEW c \in Closers, CloseCall(c) PROVE StreamInv'
  BY <1>13 DEF CloseCall, reader, upstream
<1>14. ASSUME NEW c \in Closers, CloseRun(c) PROVE StreamInv'
  BY <1>14 DEF CloseRun, DropStream, TypeOK
<1>15. CASE Cancel
  BY <1>15 DEF Cancel, reader, upstream
<1>16. CASE UNCHANGED vars
  BY <1>16 DEF vars, reader, upstream
<1> QED
  BY <1>1, <1>2, <1>3, <1>4, <1>5, <1>6, <1>7, <1>8, <1>9, <1>10, <1>11, <1>12, <1>13, <1>14,
     <1>15, <1>16 DEF Next, Finished

\* The habit of the consumer never changes.
LEMMA SameHabit == ASSUME [Next]_vars PROVE habit' = habit
  BY DEF Next, NextCall, NextLock, NextClosed, NextPop, NextOpen, OpenSucceeds, OpenFails, NextRecv,
         RecvChunk, RecvFirstEof, RecvEof, RecvError, CloseCall, CloseRun, Cancel, Finished, vars

\* The failed open and the failed read share the one retry.
LEMMA NextRequestInv ==
  ASSUME TypeOK, StreamInv, RequestInv, [Next]_vars
  PROVE  RequestInv'
<1> SUFFICES ASSUME Disciplined' PROVE RequestInv'
  BY DEF RequestInv
<1>0. Len(served) \in Nat
  BY DEF TypeOK
<1>d. Disciplined
  BY SameHabit DEF Disciplined
<1> USE <1>0, <1>d DEF RequestInv
<1>1. CASE NextCall
  BY <1>1 DEF NextCall, reader, upstream
<1>2. CASE NextLock
  BY <1>2 DEF NextLock, reader, upstream
<1>3. CASE NextClosed
  BY <1>3 DEF NextClosed, Return, reader, upstream
<1>4. CASE NextPop
  BY <1>4 DEF NextPop, Return, upstream
<1>5. CASE NextOpen
  BY <1>5, OpenEffect DEF NextOpen, reader
<1>6. CASE OpenSucceeds
  BY <1>6 DEF OpenSucceeds, reader, StreamInv, TypeOK
<1>7. CASE OpenFails
  <2>1. Len(served) # 0
    BY <1>7 DEF OpenFails, StreamInv, TypeOK
  <2>2. CASE MayRetry
    <3>1. ~retried /\ retried' /\ served' = served
      BY <1>7, <2>2 DEF OpenFails, RetryOrFail, MayRetry, upstream
    <3>2. Len(served) = 1
      BY <2>1, <3>1
    <3> QED
      BY <3>1, <3>2
  <2>3. CASE ~MayRetry
    BY <1>7, <2>3 DEF OpenFails, RetryOrFail, Return, Disciplined, upstream
  <2> QED
    BY <2>2, <2>3
<1>8. CASE NextRecv
  BY <1>8 DEF NextRecv, reader, upstream
<1>9. CASE RecvChunk
  BY <1>9 DEF RecvChunk, StreamInv
<1>10. CASE RecvFirstEof
  BY <1>10 DEF RecvFirstEof, StreamInv
<1>11. CASE RecvEof
  BY <1>11 DEF RecvEof, DropStream, Return, reader, Disciplined
<1>12. CASE RecvError
  <2>1. stream # 0 /\ stream = Len(served)
    BY <1>12 DEF RecvError, StreamInv, TypeOK
  <2>2. CASE MayRetry
    BY <1>12, <2>1, <2>2 DEF RecvError, RetryOrFail, DropStream, MayRetry
  <2>3. CASE ~MayRetry
    BY <1>12, <2>3 DEF RecvError, RetryOrFail, DropStream, Return, Disciplined
  <2> QED
    BY <2>2, <2>3
<1>13. ASSUME NEW c \in Closers, CloseCall(c) PROVE RequestInv'
  BY <1>13 DEF CloseCall, reader, upstream
<1>14. ASSUME NEW c \in Closers, CloseRun(c) PROVE RequestInv'
  BY <1>14 DEF CloseRun, DropStream
<1>15. CASE Cancel
  BY <1>15 DEF Cancel, reader, upstream
<1>16. CASE UNCHANGED vars
  BY <1>16 DEF vars, reader, upstream
<1> QED
  BY <1>1, <1>2, <1>3, <1>4, <1>5, <1>6, <1>7, <1>8, <1>9, <1>10, <1>11, <1>12, <1>13, <1>14,
     <1>15, <1>16 DEF Next, Finished

\* What moves from the head of the queue to the end of what was delivered.
LEMMA PopEffect ==
  ASSUME TypeOK, NextPop
  PROVE  /\ Len(delivered') = Len(delivered) + 1 /\ Len(delivered) \in Nat
         /\ DOMAIN delivered' = DOMAIN delivered \cup {Len(delivered) + 1}
         /\ DOMAIN delivered = 1..Len(delivered)
         /\ delivered'[Len(delivered) + 1] = queue[1]
         /\ \A k \in DOMAIN delivered : delivered'[k] = delivered[k]
<1>1. delivered \in Seq(TaggedEvent) /\ Head(queue) \in TaggedEvent /\ Head(queue) = queue[1]
  BY HeadType DEF TypeOK, NextPop, TaggedEvent
<1>2. delivered' = Append(delivered, queue[1])
  BY <1>1 DEF NextPop
<1> QED
  BY <1>1, <1>2

\* Steps that leave the queue and the delivered events alone, and are not the
\* end of a body.
QuietStep == UNCHANGED <<queue, delivered, doneEmitted>>
LEMMA NextIsQuietOr ==
  ASSUME [Next]_vars
  PROVE  NextPop \/ RecvChunk \/ RecvFirstEof \/ QuietStep
  BY DEF Next, NextCall, NextLock, NextClosed, NextOpen, OpenSucceeds, OpenFails, NextRecv,
         RecvEof, RecvError, CloseCall, CloseRun, Cancel, Finished, vars, reader, QuietStep

\* Only one Done is ever made.
LEMMA NextDoneInv ==
  ASSUME TypeOK, StreamInv, DoneInv, [Next]_vars
  PROVE  DoneInv'
<1> USE DEF DoneInv, HasDone, OneIn
<1>1. CASE NextPop
  <2>1. /\ queue # <<>> /\ queue' = Tail(queue) /\ doneEmitted' = doneEmitted
    BY <1>1 DEF NextPop, reader
  <2>2. /\ 1 \in DOMAIN queue /\ DOMAIN queue \subseteq Nat
        /\ \A i \in DOMAIN queue' : i + 1 \in DOMAIN queue /\ queue'[i] = queue[i + 1] /\ i \in Nat \ {0}
        /\ \A i \in DOMAIN queue : i # 1 => i - 1 \in DOMAIN queue' /\ queue'[i - 1] = queue[i]
    <3>1. DOMAIN queue \subseteq Nat /\ DOMAIN Tail(queue) \subseteq Nat \ {0}
      BY <2>1, HeadType DEF TypeOK
    <3> QED
      BY <2>1, <3>1, HeadType
  <2>3. HasDone(queue) <=> IsDone(queue[1].ev) \/ HasDone(queue')
    BY <2>2
  <2>4. HasDone(delivered') <=> HasDone(delivered) \/ IsDone(queue[1].ev)
    BY <1>1, PopEffect
  <2>5. ~(IsDone(queue[1].ev) /\ HasDone(queue'))
    BY <2>2
  <2>6. OneIn(queue')
    BY <2>2
  <2>7. OneIn(delivered')
    BY <1>1, <2>2, PopEffect
  <2> QED
    BY <2>1, <2>3, <2>4, <2>5, <2>6, <2>7
<1>2. CASE RecvChunk
  <2>1. delivered' = delivered /\ doneEmitted' = doneEmitted /\ queue = <<>>
    BY <1>2 DEF RecvChunk, StreamInv
  <2>2. ~HasDone(queue') /\ ~HasDone(queue)
    BY <1>2, <2>1, ChunkEffect
  <2> QED
    BY <2>1, <2>2
<1>3. CASE RecvFirstEof
  <2>1. delivered' = delivered /\ doneEmitted' /\ ~HasDone(delivered)
    BY <1>3 DEF RecvFirstEof, FirstEnd
  <2>2. HasDone(queue') /\ OneIn(queue')
    BY <1>3, EndEffect
  <2> QED
    BY <2>1, <2>2
<1>4. CASE QuietStep
  BY <1>4 DEF QuietStep
<1> QED
  BY <1>1, <1>2, <1>3, <1>4, NextIsQuietOr

\* Once the Done is made, a consumer that stops at the end reads nothing more.
LEMMA NextLastInv ==
  ASSUME TypeOK, StreamInv, DoneInv, LastInv, [Next]_vars
  PROVE  LastInv'
<1> SUFFICES ASSUME Disciplined' PROVE LastInv'
  BY DEF LastInv
<1>d. Disciplined
  BY SameHabit DEF Disciplined
<1> USE <1>d DEF LastInv
<1>n. ~doneEmitted => \A k \in DOMAIN delivered : ~IsDone(delivered[k].ev)
  BY DEF DoneInv, HasDone
<1>1. CASE NextCall
  BY <1>1 DEF NextCall, reader, upstream, HasDone, Body, StreamInv
<1>2. CASE NextLock
  BY <1>2 DEF NextLock, reader, upstream, HasDone, Body
<1>3. CASE NextClosed
  BY <1>3 DEF NextClosed, Return, reader, upstream, HasDone, Body
<1>4. CASE NextPop
  <2>1. outcome' = "event" /\ ~closed /\ npc # "over"
    BY <1>4 DEF NextPop, Return
  <2>2. UNCHANGED <<doneEmitted, stream, atEof, pos, served, closed>> /\ Body' = Body
    BY <1>4 DEF NextPop, reader, upstream, Body
  <2>3. CASE doneEmitted
    <3>1. Len(queue) = 1 /\ IsDone(queue[1].ev)
      BY <1>4, <2>3 DEF NextPop
    <3>2. queue' = <<>>
      <4>1. queue' \in Seq(TaggedEvent) /\ Len(queue') = 0
        BY <1>4, <3>1, HeadType DEF NextPop
      <4> QED
        BY <4>1
    <3>3. ~HasDone(delivered)
      BY <1>4, <3>1, HeadType DEF DoneInv, HasDone, NextPop
    <3>4. \A k \in DOMAIN delivered' : IsDone(delivered'[k].ev) => k = Len(delivered')
      BY <1>4, <3>3, PopEffect DEF HasDone
    <3> QED
      BY <2>1, <2>2, <2>3, <3>2, <3>4
  <2>4. CASE ~doneEmitted
    <3>1. ~IsDone(queue[1].ev)
      BY <1>4, <2>4, HeadType DEF DoneInv, HasDone, NextPop
    <3>2. \A k \in DOMAIN delivered' : ~IsDone(delivered'[k].ev)
      BY <1>4, <1>n, <2>4, <3>1, PopEffect
    <3> QED
      BY <2>1, <2>2, <2>4, <3>2
  <2> QED
    BY <2>3, <2>4
<1>5. CASE NextOpen
  <2>1. ~doneEmitted
    BY <1>5 DEF NextOpen
  <2> QED
    BY <1>5, <1>n, <2>1 DEF NextOpen, reader, HasDone
<1>6. CASE OpenSucceeds
  <2>1. ~doneEmitted
    BY <1>6 DEF OpenSucceeds, StreamInv
  <2> QED
    BY <1>6, <1>n, <2>1 DEF OpenSucceeds, reader, HasDone
<1>7. CASE OpenFails
  <2>1. ~doneEmitted
    BY <1>7 DEF OpenFails, StreamInv
  <2> QED
    BY <1>7, <1>n, <2>1 DEF OpenFails, RetryOrFail, Return, HasDone
<1>8. CASE NextRecv
  BY <1>8 DEF NextRecv, reader, upstream, HasDone, Body
<1>9. CASE RecvChunk
  <2>1. pos # Len(Body) /\ ~closed
    BY <1>9 DEF RecvChunk, StreamInv, TypeOK
  <2>2. ~doneEmitted
    BY <1>9, <2>1 DEF RecvChunk
  <2> QED
    BY <1>9, <1>n, <2>2 DEF RecvChunk, HasDone
<1>10. CASE RecvFirstEof
  <2>1. /\ UNCHANGED <<stream, pos, served, delivered, outcome>>
        /\ atEof' /\ pos = Len(Body) /\ stream # 0 /\ ~doneEmitted /\ Body' = Body
    BY <1>10 DEF RecvFirstEof, FirstEnd, StreamInv, Body
  <2>2. Len(queue') = 1 /\ IsDone(queue'[1].ev)
    BY <1>10, EndEffect
  <2> QED
    BY <1>n, <2>1, <2>2 DEF HasDone
<1>11. CASE RecvEof
  <2>1. doneEmitted /\ queue = <<>> /\ UNCHANGED <<queue, delivered>> /\ npc' = "over"
    BY <1>11 DEF RecvEof, FirstEnd, StreamInv, Return, reader, Disciplined
  <2>2. HasDone(delivered)
    BY <2>1 DEF DoneInv, HasDone
  <2> QED
    BY <2>1, <2>2 DEF HasDone
<1>12. CASE RecvError
  <2>1. ~doneEmitted
    BY <1>12 DEF RecvError, StreamInv
  <2> QED
    BY <1>12, <1>n, <2>1 DEF RecvError, RetryOrFail, Return, HasDone
<1>13. ASSUME NEW c \in Closers, CloseCall(c) PROVE LastInv'
  BY <1>13 DEF CloseCall, reader, upstream, HasDone, Body
<1>14. ASSUME NEW c \in Closers, CloseRun(c) PROVE LastInv'
  BY <1>14 DEF CloseRun, HasDone
<1>15. CASE Cancel
  BY <1>15 DEF Cancel, reader, upstream, HasDone, Body
<1>16. CASE UNCHANGED vars
  BY <1>16 DEF vars, reader, upstream, HasDone, Body
<1> QED
  BY <1>1, <1>2, <1>3, <1>4, <1>5, <1>6, <1>7, <1>8, <1>9, <1>10, <1>11, <1>12, <1>13, <1>14,
     <1>15, <1>16 DEF Next, Finished

LEMMA IInvInductive == Spec => []IInv
<1>1. IInv /\ [Next]_vars => IInv'
  BY NextTypeOK, NextStreamInv, NextRequestInv, NextDoneInv, NextLastInv DEF IInv
<1> QED
  BY <1>1, InitIInv, PTL DEF Spec

\* Whatever the translator, the bodies and the callers, the reader's fields keep
\* their types, and the mutex is held exactly while Next runs.
THEOREM TypeCorrect == Spec => []TypeOK
<1>1. IInv => TypeOK
  BY DEF IInv
<1> QED
  BY <1>1, IInvInductive, PTL

\* A failed open and a failed read share one retry: a consumer that stops at the
\* end causes two requests at most.
THEOREM AtMostOneRetryHolds == Spec => []AtMostOneRetry
<1>1. IInv => AtMostOneRetry
  BY DEF IInv, TypeOK, RequestInv, AtMostOneRetry
<1> QED
  BY <1>1, IInvInductive, PTL

\* No upstream stream stays open that the reader does not hold, and none once
\* the stream ended, failed or was closed.
THEOREM NoStreamLeakHolds == Spec => []NoStreamLeak
<1>1. IInv => NoStreamLeak
  BY DEF IInv, StreamInv, NoStreamLeak
<1> QED
  BY <1>1, IInvInductive, PTL

\* The Done that Next makes is delivered once for any consumer, before io.EOF
\* and last for one that stops there.
THEOREM OneDoneHolds == Spec => []OneDone
<1>1. IInv => OneDone
  BY DEF IInv, DoneInv, LastInv, HasDone, OneIn, OneDone
<1> QED
  BY <1>1, IInvInductive, PTL
-----------------------------------------------------------------------------
(* The refinement of StreamContract.                                       *)

Acc == [evs : Seq(Event), st : TrState]

LEMMA ExtendedParts ==
  ASSUME NEW acc, NEW c
  PROVE  /\ Extended(acc, c).evs = acc.evs \o ChunkEvents(acc.st, c)
         /\ Extended(acc, c).st = ChunkAfter(acc.st, c)
  BY DEF Extended

\* The translation goes through an answer chunk by chunk, whatever its length.
LEMMA RunSteps ==
  ASSUME NEW from \in TrState, NEW answer \in Bodies
  PROVE  /\ Run(from, answer) \in [0..Len(answer) -> Acc]
         /\ Run(from, answer)[0] = Start(from)
         /\ \A k \in 1..Len(answer) : /\ answer[k] \in Chunk
                                      /\ Run(from, answer)[k] = Extended(Run(from, answer)[k - 1], answer[k])
<1> DEFINE n == Len(answer)
           step == [p \in Acc \X Chunk |-> Extended(p[1], p[2])]
           IsRun(r) == r = [k \in 0..n |-> IF k = 0 THEN Start(from) ELSE Extended(r[k - 1], answer[k])]
<1>1. answer \in Seq(Chunk) /\ n \in Nat /\ \A k \in 1..n : answer[k] \in Chunk
  <2>1. answer \in Seq(Chunk)
    BY TranslatorAssumption
  <2> QED
    BY <2>1
<1>2. Start(from) \in Acc
  BY TranslatorAssumption DEF Start, Acc
<1>3. \A a \in Acc, c \in Chunk : Extended(a, c) \in Acc
  BY TranslatorAssumption DEF Extended, Acc
<1>4. step \in [Acc \X Chunk -> Acc]
  BY <1>3
<1> HIDE DEF step
<1>5. PICK r \in [0..Len(answer) -> Acc] : GoesThrough(r, answer, Start(from), step)
  <2> HIDE DEF n
  <2> QED
    BY <1>1, <1>2, <1>4, RunExists
<1>6. r \in [0..n -> Acc] /\ r[0] = Start(from) /\ \A k \in 1..n : r[k] = step[<<r[k - 1], answer[k]>>]
  BY <1>5 DEF GoesThrough
<1> HIDE DEF n
<1>7. \A k \in 0..n : r[k] = IF k = 0 THEN Start(from) ELSE Extended(r[k - 1], answer[k])
  <2> SUFFICES ASSUME NEW k \in 0..n, k # 0 PROVE r[k] = Extended(r[k - 1], answer[k])
    BY <1>6
  <2>1. k \in 1..n /\ k - 1 \in 0..n
    BY <1>1
  <2>2. r[k - 1] \in Acc /\ answer[k] \in Chunk
    BY <1>1, <1>6, <2>1
  <2> QED
    BY <1>6, <2>1, <2>2 DEF step
<1>8. IsRun(r)
  BY <1>6, <1>7
<1>9. Run(from, answer) = CHOOSE acc : IsRun(acc)
  BY DEF Run, n
<1>10. IsRun(Run(from, answer))
  <2> HIDE DEF IsRun
  <2> QED
    BY <1>8, <1>9
<1>11. Run(from, answer)[0] = Start(from) /\ \A k \in 1..n : Run(from, answer)[k] = Extended(Run(from, answer)[k - 1], answer[k])
  <2>1. 0 \in 0..n /\ \A k \in 1..n : k \in 0..n /\ k # 0
    BY <1>1
  <2> QED
    BY <1>10, <2>1
<1>12. \A k \in 0..n : Run(from, answer)[k] \in Acc
  <2> DEFINE P == {k \in 0..n : Run(from, answer)[k] \in Acc}
  <2>1. 0 \in P
    BY <1>1, <1>2, <1>11
  <2>2. ASSUME NEW k \in 0..n, k # n, k \in P PROVE k + 1 \in P
    <3>1. k + 1 \in 1..n /\ k + 1 \in 0..n /\ (k + 1) - 1 = k
      BY <1>1, <2>2
    <3>2. Run(from, answer)[k + 1] = Extended(Run(from, answer)[k], answer[k + 1])
      BY <1>11, <3>1
    <3> QED
      BY <1>1, <1>3, <2>2, <3>1, <3>2
  <2>3. \A k \in 0..n : k \in P
    <3> HIDE DEF P
    <3> QED
      BY <1>1, <2>1, <2>2, UpTo
  <2> QED
    BY <2>3
<1>13. Run(from, answer) \in [0..n -> Acc]
  BY <1>10, <1>12
<1> QED
  BY <1>1, <1>11, <1>13 DEF n

\* An answer starts in a state of the translator.
LEMMA StartsType == Starts \subseteq TrState
<1> SUFFICES ASSUME NEW st \in Starts PROVE st \in TrState
  OBVIOUS
<1>1. PICK answer \in Bodies : st \in {Run(TrInit, answer)[k].st : k \in Silent(answer)}
  BY DEF Starts
<1>2. PICK k \in 0..Len(answer) : st = Run(TrInit, answer)[k].st
  BY <1>1 DEF Silent
<1>3. Run(TrInit, answer)[k] \in Acc
  BY RunSteps, TranslatorAssumption
<1> QED
  BY <1>2, <1>3 DEF Acc

\* A new reader may start, and so may one that read chunks without an event.
LEMMA SilentStarts ==
  ASSUME NEW answer \in Bodies
  PROVE  /\ TrInit \in Starts
         /\ \A k \in 0..Len(answer) :
              Run(TrInit, answer)[k].evs = <<>> => Run(TrInit, answer)[k].st \in Starts
<1>1. \A k \in 0..Len(answer) :
        Run(TrInit, answer)[k].evs = <<>> => Run(TrInit, answer)[k].st \in Starts
  BY DEF Silent, Starts
<1>2. Len(answer) \in Nat
  <2>1. answer \in Seq(Chunk)
    BY TranslatorAssumption
  <2> QED
    BY <2>1
<1>3. 0 \in 0..Len(answer) /\ Run(TrInit, answer)[0] = Start(TrInit)
  BY <1>2, RunSteps, TranslatorAssumption
<1>4. Start(TrInit).evs = <<>> /\ Start(TrInit).st = TrInit
  BY DEF Start
<1>5. TrInit \in Starts
  BY <1>1, <1>3, <1>4
<1> QED
  BY <1>1, <1>5

\* The events of the first chunks are the beginning of the whole translation.
LEMMA RunContinues ==
  ASSUME NEW from \in Starts, NEW answer \in Bodies, NEW k \in 0..Len(answer)
  PROVE  /\ Translation[from][answer] \in Seq(Event)
         /\ Continues(Translation[from][answer], Run(from, answer)[k].evs)
<1> DEFINE n == Len(answer)
           evs == [i \in 0..n |-> Run(from, answer)[i].evs]
           done == EndEvent(Run(from, answer)[n].st)
<1>0. from \in TrState
  BY StartsType
<1>1. n \in Nat /\ n \in 0..n
  <2>1. answer \in Seq(Chunk)
    BY TranslatorAssumption
  <2> QED
    BY <2>1
<1>2. \A i \in 0..n : Run(from, answer)[i].evs \in Seq(Event) /\ Run(from, answer)[i].st \in TrState
  BY <1>0, RunSteps DEF Acc
<1>3. evs \in [0..n -> Seq(Event)]
  BY <1>2
<1>4. ASSUME NEW i \in 1..n PROVE Continues(evs[i], evs[i - 1])
  <2> DEFINE before == Run(from, answer)[i - 1]
             more == ChunkEvents(before.st, answer[i])
  <2>1. i \in 0..n /\ i - 1 \in 0..n
    BY <1>1
  <2>2. answer[i] \in Chunk /\ Run(from, answer)[i] = Extended(before, answer[i])
    BY <1>0, RunSteps
  <2>3. before.evs \in Seq(Event) /\ more \in Seq(Event)
    BY <1>2, <2>1, <2>2, TranslatorAssumption
  <2>4. Run(from, answer)[i].evs = before.evs \o more
    <3> HIDE DEF before
    <3> QED
      BY <2>2, ExtendedParts
  <2>5. evs[i] = before.evs \o more /\ evs[i - 1] = before.evs
    BY <2>1, <2>4
  <2> HIDE DEF before, more, evs
  <2> QED
    BY <2>3, <2>5, ConcatContinues
<1>5. done \in Event
  BY <1>1, <1>2, TranslatorAssumption
<1>6. Translation[from][answer] = Append(evs[n], done) /\ evs[k] = Run(from, answer)[k].evs
  BY <1>1 DEF Translation, Completed
<1> HIDE DEF evs, n, done
<1>7. k \in 0..n /\ evs[n] \in Seq(Event) /\ evs[k] \in Seq(Event)
  BY <1>1, <1>3 DEF n
<1>8. Continues(evs[n], evs[k])
  BY <1>1, <1>3, <1>4, <1>7, RunGrows
<1>9. /\ Translation[from][answer] \in Seq(Event)
      /\ Len(Translation[from][answer]) = Len(evs[n]) + 1
      /\ \A i \in 1..Len(evs[n]) : Translation[from][answer][i] = evs[n][i]
  BY <1>5, <1>6, <1>7
<1>10. Len(evs[n]) \in Nat /\ Len(evs[k]) \in Nat
  BY <1>7
<1>11. Continues(Translation[from][answer], evs[k])
  BY <1>8, <1>9, <1>10, SMTT(30) DEF Continues
<1> QED
  BY <1>6, <1>9, <1>11


\* What an open stream has told: the events are of its request, and are the
\* translation of the chunks read, whole once the Done is made.
Told == Untagged(delivered) \o Untagged(queue)
FromCurrent(s) == \A k \in DOMAIN s : s[k].req = Len(served)
Reading ==
  /\ start \in Starts
  /\ pos \in 0..Len(Body)
  /\ FromCurrent(delivered) /\ FromCurrent(queue)
  /\ doneEmitted => Told = Translation[start][Body]
  /\ ~doneEmitted => /\ Told = Run(start, Body)[pos].evs
                     /\ tr = Run(start, Body)[pos].st
                     /\ deliveredByte \/ delivered = <<>>

\* Before a stream is opened nothing was delivered, and the translator is new or
\* has read a failed answer up to its first event.
Waiting ==
  /\ delivered = <<>>
  /\ ~doneEmitted
  /\ IF retried THEN tr \in Starts ELSE tr = TrInit

TranslationInv ==
  Disciplined =>
    /\ ~retried => start = TrInit
    /\ stream = 0 /\ ~closed /\ npc # "over" => Waiting
    /\ stream # 0 => Reading

LEMMA InitTranslationInv == Init => TranslationInv
  BY DEF Init, TranslationInv, Waiting

\* The sequences of the reader without their tags.
LEMMA UntaggedQueue ==
  ASSUME TypeOK
  PROVE  /\ delivered \in Seq(TaggedEvent) /\ Untagged(delivered) \in Seq(Event)
         /\ Len(Untagged(delivered)) = Len(delivered)
         /\ queue \in Seq(TaggedEvent) /\ Untagged(queue) \in Seq(Event)
<1>1. delivered \in Seq(TaggedEvent) /\ queue \in Seq(TaggedEvent)
  BY DEF TypeOK, TaggedEvent
<1>2. \A e \in TaggedEvent : e.ev \in Event
  BY DEF TaggedEvent
<1> QED
  BY <1>1, <1>2, UntaggedType

\* The body of an open stream, or of a request on its way.
LEMMA BodyType ==
  ASSUME TypeOK, served # <<>>
  PROVE  Body \in Bodies /\ Body \in Seq(Chunk) /\ Len(Body) \in Nat /\ Len(served) \in Nat \ {0}
<1>1. Len(served) \in DOMAIN served /\ Len(served) \in Nat \ {0}
  BY DEF TypeOK
<1>2. Body \in Bodies
  BY <1>1 DEF TypeOK, Body
<1>3. Body \in Seq(Chunk)
  BY <1>2, TranslatorAssumption
<1> QED
  BY <1>1, <1>2, <1>3

LEMMA StreamServed ==
  ASSUME TypeOK, stream # 0
  PROVE  served # <<>> /\ stream = Len(served)
  BY DEF TypeOK

\* Popping moves the first event from the queue to the end of what was delivered.
LEMMA PopTold ==
  ASSUME TypeOK, NextPop
  PROVE  /\ Told' = Told
         /\ Untagged(queue) # <<>>
         /\ Untagged(delivered') = Append(Untagged(delivered), Head(Untagged(queue)))
<1>1. /\ queue # <<>> /\ queue' = Tail(queue) /\ delivered' = Append(delivered, Head(queue))
  BY DEF NextPop
<1>2. /\ delivered \in Seq(TaggedEvent) /\ Untagged(delivered) \in Seq(Event)
      /\ queue \in Seq(TaggedEvent) /\ Untagged(queue) \in Seq(Event)
  BY UntaggedQueue
<1>3. /\ Untagged(queue) # <<>>
      /\ Head(Untagged(queue)) = Head(queue).ev
      /\ Untagged(Append(delivered, Head(queue))) = Append(Untagged(delivered), Head(queue).ev)
      /\ Untagged(Tail(queue)) = Tail(Untagged(queue))
  BY <1>1, <1>2, UntaggedPop
<1>4. /\ Untagged(delivered') = Append(Untagged(delivered), Head(Untagged(queue)))
      /\ Untagged(queue') = Tail(Untagged(queue))
  BY <1>1, <1>3
<1>5. Append(Untagged(delivered), Head(Untagged(queue))) \o Tail(Untagged(queue))
        = Untagged(delivered) \o Untagged(queue)
  BY <1>2, <1>3, PopConcat
<1> QED
  BY <1>3, <1>4, <1>5 DEF Told

\* With an empty queue, events that are queued follow the delivered ones.
LEMMA QueueTold ==
  ASSUME TypeOK, served # <<>>, queue = <<>>, delivered' = delivered,
         NEW evs \in Seq(Event), queue' = queue \o Tag(evs)
  PROVE  /\ Told' = Told \o evs
         /\ \A k \in DOMAIN queue' : queue'[k].req = Len(served)
<1>1. Tag(evs) \in Seq(TaggedEvent) /\ DOMAIN Tag(evs) = DOMAIN evs
      /\ \A i \in DOMAIN evs : Tag(evs)[i].ev = evs[i]
  BY TagType DEF TypeOK
<1>2. queue' = Tag(evs)
  BY <1>1
<1>3. Untagged(Tag(evs)) = evs
  <2>1. Untagged(Tag(evs)) = [i \in DOMAIN evs |-> evs[i]]
    BY <1>1 DEF Untagged
  <2> QED
    BY <2>1
<1>4. Told' = Untagged(delivered) \o evs
  BY <1>2, <1>3 DEF Told
<1>5. Told = Untagged(delivered)
  <2>1. Untagged(delivered) \o <<>> = Untagged(delivered)
    BY UntaggedQueue, ConcatEmptySeq
  <2> QED
    BY <2>1, UntaggedNone DEF Told
<1>6. \A k \in DOMAIN queue' : queue'[k].req = Len(served)
  BY <1>2 DEF Tag
<1> QED
  BY <1>4, <1>5, <1>6

\* A stream that is read further, and the steps that leave it alone.
LEMMA ChunkReading ==
  ASSUME IInv, Reading, Disciplined, RecvChunk
  PROVE  Reading'
<1> DEFINE evs == ChunkEvents(tr, Body[pos + 1])
<1>1. /\ stream # 0 /\ ~closed /\ queue = <<>> /\ pos < Len(Body) /\ served # <<>>
  BY DEF RecvChunk, IInv, StreamInv, TypeOK
<1>2. Body \in Bodies /\ Body \in Seq(Chunk) /\ Len(Body) \in Nat /\ pos \in 0..Len(Body)
  BY <1>1, BodyType DEF IInv, Reading
<1>3. pos + 1 \in 1..Len(Body) /\ pos \in 0..Len(Body) /\ (pos + 1) - 1 = pos
  BY <1>1, <1>2
<1>4. start \in TrState
  BY DEF IInv, TypeOK
<1>5. Body[pos + 1] \in Chunk /\ Run(start, Body)[pos + 1] = Extended(Run(start, Body)[pos], Body[pos + 1])
  BY <1>2, <1>3, <1>4, RunSteps
<1>6. ~doneEmitted
  BY <1>1, <1>2 DEF RecvChunk, IInv, LastInv
<1>7. Told = Run(start, Body)[pos].evs /\ tr = Run(start, Body)[pos].st
  BY <1>6 DEF Reading
<1>8. evs \in Seq(Event)
  BY <1>5, TranslatorAssumption DEF IInv, TypeOK
<1>9. /\ Run(start, Body)[pos + 1].evs = Told \o evs
      /\ Run(start, Body)[pos + 1].st = ChunkAfter(tr, Body[pos + 1])
  <2> DEFINE before == Run(start, Body)[pos]
             c == Body[pos + 1]
  <2>1. Told = before.evs /\ tr = before.st
    BY <1>7
  <2> HIDE DEF before, c
  <2>2. Extended(before, c).evs = Told \o ChunkEvents(tr, c) /\ Extended(before, c).st = ChunkAfter(tr, c)
    BY <2>1, ExtendedParts
  <2> QED
    BY <1>5, <2>2 DEF before, c
<1>10. /\ queue' = queue \o Tag(evs) /\ tr' = ChunkAfter(tr, Body[pos + 1]) /\ pos' = pos + 1
       /\ UNCHANGED <<delivered, start, served, doneEmitted, deliveredByte>> /\ Body' = Body
  BY DEF RecvChunk, Body
<1> HIDE DEF evs
<1>11. Told' = Told \o evs /\ \A k \in DOMAIN queue' : queue'[k].req = Len(served)
  BY <1>1, <1>8, <1>10, QueueTold DEF IInv
<1>12. Told' = Run(start, Body)[pos + 1].evs
  BY <1>9, <1>11
<1>13. pos' \in 0..Len(Body)
  BY <1>3, <1>10
<1>14. Run(start, Body)' = Run(start, Body)
  BY <1>10
<1> QED
  BY <1>6, <1>9, <1>10, <1>11, <1>12, <1>13, <1>14 DEF Reading, FromCurrent

\* The Done makes the translation whole.
LEMMA EndReading ==
  ASSUME IInv, Reading, Disciplined, RecvFirstEof
  PROVE  Reading'
<1> DEFINE done == EndEvent(tr)
<1>1. /\ stream # 0 /\ queue = <<>> /\ pos = Len(Body) /\ served # <<>> /\ ~doneEmitted
  BY DEF RecvFirstEof, FirstEnd, IInv, StreamInv, TypeOK
<1>2. Body \in Bodies /\ done \in Event /\ start \in Starts
  BY <1>1, BodyType, TranslatorAssumption DEF IInv, TypeOK, Reading
<1>3. Told = Run(start, Body)[Len(Body)].evs /\ tr = Run(start, Body)[Len(Body)].st
  BY <1>1 DEF Reading
<1>4. Translation[start][Body] = Append(Told, done)
  BY <1>2, <1>3 DEF Translation, Completed
<1>5. /\ queue' = queue \o Tag(<<done>>) /\ doneEmitted'
      /\ UNCHANGED <<delivered, start, served, deliveredByte, pos>> /\ Body' = Body
  BY DEF RecvFirstEof, Body
<1> HIDE DEF done
<1>6. <<done>> \in Seq(Event)
  BY <1>2
<1>7. Told' = Told \o <<done>> /\ \A k \in DOMAIN queue' : queue'[k].req = Len(served)
  <2> DEFINE evs == <<done>>
  <2>1. evs \in Seq(Event) /\ queue' = queue \o Tag(evs)
    BY <1>5, <1>6
  <2> HIDE DEF evs
  <2>2. Told' = Told \o evs /\ \A k \in DOMAIN queue' : queue'[k].req = Len(served)
    BY <1>1, <1>5, <2>1, QueueTold DEF IInv
  <2> QED
    BY <2>2 DEF evs
<1>8. Told \in Seq(Event)
  <2>1. Untagged(delivered) \in Seq(Event) /\ Untagged(queue) \in Seq(Event)
    BY UntaggedQueue DEF IInv
  <2> QED
    BY <2>1, ConcatProperties DEF Told
<1>9. Told' = Append(Told, done)
  BY <1>2, <1>7, <1>8
<1> QED
  BY <1>1, <1>2, <1>4, <1>5, <1>7, <1>9 DEF Reading, FromCurrent

\* A pop moves an event; only a Done leaves deliveredByte unset.
LEMMA PopReading ==
  ASSUME IInv, Reading, Disciplined, NextPop
  PROVE  Reading'
<1>1. /\ queue # <<>> /\ queue' = Tail(queue) /\ delivered' = Append(delivered, Head(queue))
      /\ deliveredByte' = (deliveredByte \/ ~IsDone(Head(queue).ev))
      /\ UNCHANGED <<tr, start, served, doneEmitted, pos>> /\ Body' = Body
  BY DEF NextPop, upstream, Body
<1>2. Told' = Told /\ TypeOK
  BY PopTold DEF IInv
<1>3. /\ Head(queue) = queue[1] /\ 1 \in DOMAIN queue
      /\ \A i \in DOMAIN Tail(queue) : i + 1 \in DOMAIN queue /\ Tail(queue)[i] = queue[i + 1]
  BY <1>1, <1>2, HeadType
<1>4. FromCurrent(queue)'
  BY <1>1, <1>3 DEF Reading, FromCurrent
<1>5. FromCurrent(delivered)'
  <2>1. /\ DOMAIN delivered' = DOMAIN delivered \cup {Len(delivered) + 1}
        /\ delivered'[Len(delivered) + 1] = queue[1]
        /\ \A k \in DOMAIN delivered : delivered'[k] = delivered[k]
    BY <1>2, PopEffect
  <2> QED
    BY <1>1, <1>3, <2>1 DEF Reading, FromCurrent
<1>6. ~doneEmitted => deliveredByte'
  BY <1>1, <1>3 DEF IInv, DoneInv, HasDone
<1>7. Run(start, Body)' = Run(start, Body) /\ Translation[start][Body]' = Translation[start][Body]
  BY <1>1
<1> QED
  BY <1>1, <1>2, <1>4, <1>5, <1>6, <1>7 DEF Reading

LEMMA SameReading ==
  ASSUME Reading, UNCHANGED <<queue, deliveredByte, doneEmitted, tr, start, served, pos, delivered>>
  PROVE  Reading'
<1>1. Body' = Body /\ Told' = Told
  BY DEF Body, Told
<1> QED
  BY <1>1 DEF Reading, FromCurrent

\* A new stream has told nothing.
LEMMA OpenReading ==
  ASSUME IInv, Waiting, Disciplined, OpenSucceeds
  PROVE  Reading'
<1>1. /\ queue = <<>> /\ served # <<>> /\ delivered = <<>> /\ ~doneEmitted
      /\ pos' = 0 /\ start' = tr /\ UNCHANGED <<queue, delivered, served, doneEmitted, tr>>
      /\ Body' = Body
  BY DEF OpenSucceeds, reader, Body, IInv, StreamInv, Waiting
<1>2. Body \in Bodies /\ Len(Body) \in Nat
  BY <1>1, BodyType DEF IInv
<1>3. tr \in Starts
  BY <1>2, SilentStarts DEF Waiting
<1>4. Run(tr, Body)[0] = Start(tr)
  BY <1>2, RunSteps DEF IInv, TypeOK
<1>5. Told' = <<>>
  BY <1>1, UntaggedNone DEF Told
<1>6. Told' = Start(tr).evs /\ tr = Start(tr).st
  BY <1>5 DEF Start
<1> QED
  BY <1>1, <1>2, <1>3, <1>4, <1>6 DEF Reading, FromCurrent

\* A retry waits again: the answer that failed showed no event.
LEMMA RetryWaiting ==
  ASSUME IInv, TranslationInv, Disciplined, OpenFails \/ RecvError, MayRetry, retried'
  PROVE  Waiting'
<1>1. UNCHANGED <<delivered, doneEmitted, tr>>
  BY DEF OpenFails, RecvError
<1>2. CASE OpenFails
  <2>1. served # <<>> /\ stream = 0 /\ ~closed /\ npc # "over" /\ ~retried
    BY <1>2 DEF OpenFails, MayRetry, IInv, StreamInv
  <2>2. Body \in Bodies /\ Waiting
    BY <2>1, BodyType DEF IInv, TranslationInv
  <2> QED
    BY <1>1, <2>1, <2>2, SilentStarts DEF Waiting
<1>3. CASE RecvError
  <2>1. /\ stream # 0 /\ queue = <<>> /\ ~closed /\ npc # "over" /\ ~atEof
        /\ ~retried /\ ~deliveredByte
    BY <1>3 DEF RecvError, MayRetry, IInv, StreamInv
  <2>2. ~doneEmitted /\ Reading /\ start = TrInit
    BY <2>1 DEF IInv, LastInv, TranslationInv
  <2>3. Body \in Bodies /\ pos \in 0..Len(Body) /\ delivered = <<>>
    BY <2>1, <2>2, StreamServed, BodyType DEF IInv, Reading
  <2>4. Told = <<>>
    BY <2>1, <2>3, UntaggedNone DEF Told
  <2>5. Run(TrInit, Body)[pos].evs = <<>> /\ tr = Run(TrInit, Body)[pos].st
    BY <2>2, <2>4 DEF Reading
  <2>6. tr \in Starts
    BY <2>3, <2>5, SilentStarts
  <2> QED
    BY <1>1, <2>2, <2>3, <2>6 DEF Waiting
<1> QED
  BY <1>2, <1>3

LEMMA NextTranslationInv ==
  ASSUME IInv, IInv', TranslationInv, [Next]_vars
  PROVE  TranslationInv'
<1> SUFFICES ASSUME Disciplined' PROVE TranslationInv'
  BY DEF TranslationInv
<1>d. Disciplined
  BY SameHabit DEF Disciplined
<1> USE <1>d DEF TranslationInv
<1>0. /\ npc = "recv" => Reading /\ stream # 0 /\ ~closed
      /\ npc = "open" => Waiting /\ stream = 0 /\ ~closed /\ served # <<>>
  BY DEF IInv, StreamInv
<1>w. ASSUME UNCHANGED <<retried, tr, delivered, doneEmitted>> PROVE Waiting => Waiting'
  BY <1>w DEF Waiting
<1>1. CASE NextCall
  <2>1. UNCHANGED <<reader, upstream, delivered>> /\ npc # "over" /\ npc' # "over"
    BY <1>1 DEF NextCall
  <2> QED
    BY <2>1, <1>w, SameReading DEF reader, upstream
<1>2. CASE NextLock
  <2>1. UNCHANGED <<reader, upstream, delivered>> /\ npc # "over" /\ npc' # "over"
    BY <1>2 DEF NextLock
  <2> QED
    BY <2>1, <1>w, SameReading DEF reader, upstream
<1>3. CASE NextClosed
  <2>1. UNCHANGED <<reader, upstream, delivered>> /\ closed
    BY <1>3 DEF NextClosed
  <2> QED
    BY <2>1, SameReading DEF reader, upstream
<1>4. CASE NextPop
  <2>1. stream # 0 /\ UNCHANGED <<stream, retried, start>>
    BY <1>4 DEF NextPop, upstream, IInv, StreamInv
  <2> QED
    BY <1>4, <2>1, PopReading
<1>5. CASE NextOpen
  <2>1. UNCHANGED <<reader, stream, start, delivered>> /\ stream = 0 /\ ~closed /\ npc # "over"
    BY <1>5 DEF NextOpen
  <2> QED
    BY <2>1, <1>w DEF reader
<1>6. CASE OpenSucceeds
  <2>1. stream' # 0 /\ retried' = retried /\ start' = tr
    BY <1>0, <1>6 DEF OpenSucceeds, reader, IInv, TypeOK
  <2>2. Waiting /\ Reading'
    BY <1>0, <1>6, OpenReading DEF OpenSucceeds
  <2> QED
    BY <2>1, <2>2 DEF Waiting
<1>7. CASE OpenFails \/ RecvError
  <2>1. stream' = 0 /\ start' = start /\ closed' = closed
    BY <1>0, <1>7 DEF OpenFails, RecvError, DropStream, upstream
  <2>2. CASE MayRetry
    <3>1. retried'
      BY <1>7, <2>2 DEF OpenFails, RecvError, RetryOrFail
    <3> QED
      BY <1>7, <2>1, <2>2, <3>1, RetryWaiting
  <2>3. CASE ~MayRetry
    <3>1. npc' = "over" /\ retried' = retried
      BY <1>7, <2>3 DEF OpenFails, RecvError, RetryOrFail, Return, Disciplined
    <3> QED
      BY <2>1, <3>1
  <2> QED
    BY <2>2, <2>3
<1>8. CASE NextRecv
  <2>1. UNCHANGED <<reader, upstream, delivered>> /\ npc # "over" /\ npc' # "over"
    BY <1>8 DEF NextRecv
  <2> QED
    BY <2>1, <1>w, SameReading DEF reader, upstream
<1>9. CASE RecvChunk
  <2>1. UNCHANGED <<stream, start, retried>>
    BY <1>9 DEF RecvChunk
  <2> QED
    BY <1>0, <1>9, <2>1, ChunkReading DEF RecvChunk
<1>10. CASE RecvFirstEof
  <2>1. UNCHANGED <<stream, start, retried>>
    BY <1>10 DEF RecvFirstEof
  <2> QED
    BY <1>0, <1>10, <2>1, EndReading DEF RecvFirstEof
<1>11. CASE RecvEof
  <2>1. stream' = 0 /\ npc' = "over" /\ UNCHANGED <<start, retried>>
    BY <1>11 DEF RecvEof, DropStream, Return, reader, Disciplined
  <2> QED
    BY <2>1
<1>12. ASSUME NEW c \in Closers, CloseCall(c) PROVE TranslationInv'
  <2>1. UNCHANGED <<reader, upstream, delivered, npc>>
    BY <1>12 DEF CloseCall
  <2> QED
    BY <2>1, <1>w, SameReading DEF reader, upstream
<1>13. ASSUME NEW c \in Closers, CloseRun(c) PROVE TranslationInv'
  <2>1. stream' = 0 /\ closed' /\ UNCHANGED <<start, retried>>
    BY <1>13 DEF CloseRun, DropStream
  <2> QED
    BY <2>1
<1>14. CASE Cancel \/ UNCHANGED vars
  <2>1. UNCHANGED <<reader, upstream, delivered, npc>>
    BY <1>14 DEF Cancel, vars
  <2> QED
    BY <2>1, <1>w, SameReading DEF reader, upstream
<1> QED
  BY <1>1, <1>2, <1>3, <1>4, <1>5, <1>6, <1>7, <1>8, <1>9, <1>10, <1>11, <1>12, <1>13, <1>14
     DEF Next, Finished

\* The invariants together hold in every reachable state.
LEMMA Translated == Spec => [](IInv /\ TranslationInv)
<1>1. IInv /\ IInv' /\ TranslationInv /\ [Next]_vars => TranslationInv'
  BY NextTranslationInv
<1> QED
  BY <1>1, InitTranslationInv, IInvInductive, PTL DEF Spec

\* A consumer outside of the contract is mapped to one state.
LEMMA UndisciplinedStutters ==
  ASSUME [Next]_vars, ~Disciplined
  PROVE  UNCHANGED <<Log, Source, Status>>
<1>1. ~Disciplined'
  BY SameHabit DEF Disciplined
<1> QED
  BY <1>1 DEF Log, Source, Status

\* The delivered events without their tags, and the answer they are from.
LEMMA DisciplinedLog ==
  ASSUME IInv, Disciplined, delivered # <<>>, Reading, stream # 0
  PROVE  Source = Translation[start][Body]
<1>1. delivered \in Seq(TaggedEvent) /\ Log = Untagged(delivered) /\ Len(Untagged(delivered)) = Len(delivered)
  BY UntaggedQueue DEF IInv, Log, Untagged
<1>2. Len(delivered) \in Nat /\ Len(delivered) # 0 /\ 1 \in DOMAIN delivered
  BY <1>1
<1>3. Log # <<>>
  BY <1>1, <1>2
<1>4. delivered[1].req = Len(served) /\ start \in Starts
  BY <1>2 DEF Reading, FromCurrent
<1> QED
  BY <1>3, <1>4 DEF Source, Body

\* A step that pops delivers the next event of the answer.
LEMMA PopMapped ==
  ASSUME IInv, IInv', TranslationInv, NextPop, Disciplined
  PROVE  Contract!Deliver
<1> DEFINE whole == Translation[start][Body]
           log == Untagged(delivered)
           rest == Untagged(queue)
<1>1. /\ stream # 0 /\ Reading /\ Reading' /\ stream' # 0 /\ ~closed /\ ~closed' /\ Disciplined'
      /\ outcome' = "event" /\ outcome \notin {"eof", "error"}
  <2>1. stream # 0 /\ ~closed /\ npc = "loop"
    BY DEF NextPop, IInv, StreamInv
  <2>2. Reading
    BY <2>1 DEF TranslationInv
  <2>3. /\ stream' = stream /\ closed' = closed /\ habit' = habit /\ outcome' = "event"
    BY DEF NextPop, Return, upstream
  <2> QED
    BY <2>1, <2>2, <2>3, PopReading DEF Disciplined, IInv, StreamInv
<1>2. Body \in Bodies /\ start \in Starts /\ pos \in 0..Len(Body)
  BY <1>1, StreamServed, BodyType DEF IInv, Reading
<1>3. log \in Seq(Event) /\ rest \in Seq(Event)
  BY UntaggedQueue DEF IInv
<1>4. rest # <<>> /\ Untagged(delivered') = Append(log, Head(rest))
  BY PopTold DEF IInv
<1>5. whole \in Seq(Event) /\ Continues(whole, log \o rest)
  <2>1. CASE ~doneEmitted
    BY <1>1, <1>2, <2>1, RunContinues DEF Reading, Told
  <2>2. CASE doneEmitted
    <3>1. whole = log \o rest
      BY <1>1, <2>2 DEF Reading, Told
    <3>2. Len(log \o rest) \in Nat /\ log \o rest \in Seq(Event)
      BY <1>3
    <3> QED
      BY <3>1, <3>2 DEF Continues
  <2> QED
    BY <2>1, <2>2
<1>6. Len(log) < Len(whole) /\ whole[Len(log) + 1] = Head(rest)
  <2> HIDE DEF whole, log, rest
  <2> QED
    BY <1>3, <1>4, <1>5, HeadIsDue
<1>7. Log = log /\ Log' = Append(log, Head(rest))
  BY <1>1, <1>4 DEF Log, Untagged
<1>8. Source' = whole
  <2>1. (IInv /\ Disciplined /\ delivered # <<>> /\ Reading /\ stream # 0
           => Source = Translation[start][Body])'
    BY DisciplinedLog, PTL
  <2>2. delivered' # <<>>
    <3>1. delivered \in Seq(TaggedEvent) /\ Head(queue) \in TaggedEvent
      BY UntaggedQueue, HeadType DEF NextPop, IInv
    <3> QED
      BY <3>1 DEF NextPop
  <2>3. UNCHANGED <<start, served>> /\ Body' = Body
    BY DEF NextPop, upstream, Body
  <2> QED
    BY <1>1, <2>1, <2>2, <2>3
<1>9. Log = <<>> \/ Source = whole
  <2>1. CASE delivered = <<>>
    BY <1>7, <2>1, UntaggedNone
  <2>2. CASE delivered # <<>>
    BY <1>1, <2>2, DisciplinedLog
  <2> QED
    BY <2>1, <2>2
<1>10. Status = "running" /\ Status' = "running"
  BY <1>1 DEF Status
<1>11. whole \in {Translation[st][answer] : st \in Starts, answer \in Bodies}
  BY <1>2
<1> HIDE DEF whole, log, rest
<1> QED
  BY <1>6, <1>7, <1>8, <1>9, <1>10, <1>11 DEF Contract!Deliver

\* io.EOF comes when the events and the Done were delivered.
LEMMA EofMapped ==
  ASSUME IInv, TranslationInv, RecvEof, Disciplined
  PROVE  Contract!End
<1>1. /\ stream # 0 /\ queue = <<>> /\ doneEmitted /\ ~closed /\ npc = "recv" /\ Reading
  BY DEF RecvEof, FirstEnd, IInv, StreamInv, TranslationInv
<1>2. Body \in Bodies /\ start \in Starts /\ Len(Body) \in Nat
  BY <1>1, StreamServed, BodyType DEF IInv, Reading
<1>3. /\ UNCHANGED <<delivered, served, start, habit>> /\ outcome' = "eof"
      /\ outcome \notin {"eof", "error"}
  BY <1>1 DEF RecvEof, Return, IInv, StreamInv
<1>4. Log = Untagged(delivered) /\ Log' = Log /\ Source' = Source
  BY <1>3 DEF Log, Source, Disciplined, Untagged
<1>5. Log = Translation[start][Body]
  <2>1. Untagged(delivered) \o <<>> = Untagged(delivered)
    BY UntaggedQueue, ConcatEmptySeq DEF IInv
  <2> QED
    BY <1>1, <1>4, <2>1, UntaggedNone DEF Reading, Told
<1>6. delivered # <<>>
  <2>1. HasDone(delivered)
    BY <1>1 DEF IInv, DoneInv, HasDone
  <2> QED
    BY <2>1 DEF HasDone
<1>7. Source = Log
  BY <1>1, <1>5, <1>6, DisciplinedLog
<1>8. Status = "running" /\ Status' = "ended"
  BY <1>1, <1>3 DEF Status, Disciplined
<1>9. Log \in {Translation[st][answer] : st \in Starts, answer \in Bodies}
  BY <1>2, <1>5
<1> QED
  BY <1>4, <1>7, <1>8, <1>9 DEF Contract!End

\* The other steps leave log and source alone; an error or a Close cuts what is
\* running, and nothing ends or revives it.
LEMMA QuietMapped ==
  ASSUME IInv, IInv', TranslationInv, [Next]_vars, ~NextPop, ~RecvEof, Disciplined
  PROVE  Contract!Cut \/ UNCHANGED <<Log, Source, Status>>
<1>1. Disciplined' /\ delivered' = delivered
  BY SameHabit DEF Disciplined, Next, NextCall, NextLock, NextClosed, NextOpen, OpenSucceeds,
     OpenFails, NextRecv, RecvChunk, RecvFirstEof, RecvError, CloseCall, CloseRun, Cancel, Finished,
     vars
<1>2. Log' = Log
  BY <1>1 DEF Log
<1>3. Source' = Source
  <2>1. CASE delivered = <<>>
    <3>1. Log = <<>>
      BY <1>1, <2>1, UntaggedNone DEF Log, Untagged
    <3> QED
      BY <1>2, <3>1 DEF Source
  <2>2. CASE delivered # <<>>
    <3>1. ~NextOpen /\ ~OpenSucceeds
      BY <2>2 DEF NextOpen, OpenSucceeds, TranslationInv, Waiting, IInv, StreamInv
    <3>2. UNCHANGED <<start, served>>
      BY <3>1 DEF Next, NextCall, NextLock, NextClosed, OpenFails, NextRecv, RecvChunk,
         RecvFirstEof, RecvError, CloseCall, CloseRun, Cancel, Finished, vars, upstream
    <3> QED
      BY <1>1, <1>2, <3>2 DEF Source
  <2> QED
    BY <2>1, <2>2
<1>4. closed => closed'
  BY DEF Next, NextCall, NextLock, NextClosed, NextOpen, OpenSucceeds, OpenFails, NextRecv,
     RecvChunk, RecvFirstEof, RecvError, CloseCall, CloseRun, Cancel, Finished, vars, reader
<1>5. outcome' # outcome => outcome' \in {"closed", "error"} /\ (outcome' = "closed" => closed)
                            /\ npc # "over"
  BY DEF Next, NextCall, NextLock, NextClosed, NextOpen, OpenSucceeds, OpenFails, NextRecv,
     RecvChunk, RecvFirstEof, RecvError, RetryOrFail, Return, CloseCall, CloseRun, Cancel,
     Finished, vars
<1>6. outcome' # outcome => outcome \notin {"eof", "error"}
  BY <1>5 DEF IInv, StreamInv
<1>7. \/ Status' = Status
      \/ Status = "running" /\ Status' = "cut"
  BY <1>1, <1>4, <1>5, <1>6 DEF Status
<1> QED
  BY <1>2, <1>3, <1>7 DEF Contract!Cut

\* The volcengine reader implements StreamContract for every translator, every
\* set of bodies and any number of goroutines calling Close: a consumer that
\* stops at the end gets the events of one answer without a gap, its Done last,
\* io.EOF only after all of them, and nothing after the end, an error or Close.
\* Of a first attempt that failed nothing shows but the state it left.
THEOREM Refinement == Spec => ImplementsContract
<1>1. Init => Contract!Init
  <2> SUFFICES ASSUME Init PROVE Contract!Init
    OBVIOUS
  <2>1. Log = <<>>
    BY UntaggedNone DEF Init, Log, Untagged
  <2> QED
    BY <2>1 DEF Init, Contract!Init, Source, Status
<1> DEFINE Inv == IInv /\ TranslationInv
<1>2. Inv /\ Inv' /\ [Next]_vars => [Contract!Next]_<<Log, Source, Status>>
  <2> SUFFICES ASSUME Inv, Inv', [Next]_vars
               PROVE  Contract!Next \/ UNCHANGED <<Log, Source, Status>>
    OBVIOUS
  <2>1. CASE ~Disciplined
    BY <2>1, UndisciplinedStutters
  <2>2. CASE Disciplined /\ NextPop
    BY <2>2, PopMapped DEF Contract!Next
  <2>3. CASE Disciplined /\ RecvEof
    BY <2>3, EofMapped DEF Contract!Next
  <2>4. CASE Disciplined /\ ~NextPop /\ ~RecvEof
    BY <2>4, QuietMapped DEF Contract!Next
  <2> QED
    BY <2>1, <2>2, <2>3, <2>4
<1>3. Spec => Contract!Spec
  <2> HIDE DEF Inv
  <2>1. Spec => []Inv
    BY Translated DEF Inv
  <2> QED
    BY <1>1, <1>2, <2>1, PTL DEF Spec, Contract!Spec
<1> QED
  BY <1>3 DEF ImplementsContract

-----------------------------------------------------------------------------
(* A drained stream conforms.                                              *)

\* Follows reads no more of the state than the fields that OAState has.
OAPart(st) == [lastFinish |-> st.lastFinish, toolIndexes |-> st.toolIndexes]

LEMMA PartFollows ==
  ASSUME NEW body, NEW p, NEW evs, NEW st, NEW s, s.lastFinish = st.lastFinish,
         s.toolIndexes = st.toolIndexes
  PROVE  Follows(body, p, evs, s) <=> Follows(body, p, evs, st)
  BY Zenon DEF Follows, BeforeFinish, AfterFinish

\* One chunk of an answer, in a state of the reader.
LEMMA ArkChunkFollows ==
  ASSUME NEW body \in Bodies, NEW p \in Nat, p + 1 \in DOMAIN body, NEW st \in TrState, NEW evs,
         Follows(body, p, evs, st)
  PROVE  Follows(body, p + 1, evs \o ChunkEvents(st, body[p + 1]), ChunkAfter(st, body[p + 1]))
<1> DEFINE c == body[p + 1]
           next == ChoicesOf(OAPart(st), c)
<1>1. body \in Seq(Chunk) /\ CompleteAnswer(body)
  BY TranslatorAssumption, AnswerAssumption
<1>2. body \in Seq(OAChunk) /\ c \in Chunk
  BY <1>1, AdapterAssumption
<1>3. OAPart(st) \in OAState /\ OAPart(st).lastFinish = st.lastFinish
      /\ OAPart(st).toolIndexes = st.toolIndexes
  BY AdapterAssumption DEF OAPart, OAState, ArkState
<1>4. Follows(body, p, evs, OAPart(st))
  BY <1>3, PartFollows
<1>5. next.st \in OAState /\ Follows(body, p + 1, evs \o next.evs, next.st)
  BY <1>1, <1>2, <1>3, <1>4, ChunkKeeps
<1>6. ArkEvents(st, c) = next.evs /\ ArkAfter(st, c).lastFinish = next.st.lastFinish
      /\ ArkAfter(st, c).toolIndexes = next.st.toolIndexes
  <2>1. ArkChoices(st, c) = next
    BY DEF ArkChoices, ChoicesOf, OAPart
  <2> HIDE DEF next
  <2> QED
    BY <2>1 DEF ArkEvents, ArkAfter
<1>7. ChunkEvents(st, c) = ArkEvents(st, c) /\ ChunkAfter(st, c) = ArkAfter(st, c)
  BY <1>2, AdapterAssumption
<1> HIDE DEF next, c
<1>8. Follows(body, p + 1, evs \o next.evs, ArkAfter(st, c))
  BY <1>5, <1>6, PartFollows
<1> QED
  BY <1>6, <1>7, <1>8 DEF c

\* What the first chunks of an answer become.
LEMMA ArkFollows ==
  ASSUME NEW body \in Bodies, NEW from \in TrState, from.toolIndexes = {}
  PROVE  \A k \in 0..Len(body) : Follows(body, k, Run(from, body)[k].evs, Run(from, body)[k].st)
<1> DEFINE n == Len(body)
           P == {k \in 0..n : Follows(body, k, Run(from, body)[k].evs, Run(from, body)[k].st)}
<1>1. body \in Seq(Chunk) /\ n \in Nat /\ DOMAIN body = 1..n
  BY TranslatorAssumption
<1>2. 0 \in P
  <2>1. Run(from, body)[0].evs = <<>> /\ Run(from, body)[0].st = from
    <3>1. Run(from, body)[0] = Start(from)
      BY RunSteps
    <3> QED
      BY <3>1 DEF Start
  <2>2. Follows(body, 0, <<>>, from)
    BY NothingKeeps, FollowsNothing
  <2> QED
    BY <1>1, <2>1, <2>2
<1>3. ASSUME NEW k \in 0..n, k # n, k \in P PROVE k + 1 \in P
  <2> DEFINE before == Run(from, body)[k]
             after == Run(from, body)[k + 1]
  <2>1. k + 1 \in 1..n /\ k + 1 \in 0..n /\ (k + 1) - 1 = k /\ k \in Nat /\ k + 1 \in DOMAIN body
    <3> HIDE DEF P, n
    <3> QED
      BY <1>1, <1>3
  <2>2. before \in Acc /\ after = Extended(before, body[k + 1])
    BY <2>1, RunSteps
  <2>3. Follows(body, k, before.evs, before.st)
    BY <1>3
  <2> HIDE DEF before, after
  <2>4. before.st \in TrState
    BY <2>2 DEF Acc
  <2>5. Follows(body, k + 1, before.evs \o ChunkEvents(before.st, body[k + 1]),
                ChunkAfter(before.st, body[k + 1]))
    BY <2>1, <2>3, <2>4, ArkChunkFollows
  <2>6. Follows(body, k + 1, after.evs, after.st)
    BY <2>2, <2>5, ExtendedParts, Zenon
  <2> QED
    BY <2>1, <2>6 DEF after
<1>4. \A k \in 0..n : k \in P
  <2> HIDE DEF P
  <2> QED
    BY <1>1, <1>2, <1>3, UpTo
<1> QED
  BY <1>4

\* An answer starts with no call open: a reader that told nothing has none.
LEMMA StartsClosed == \A st \in Starts : st.toolIndexes = {}
<1> SUFFICES ASSUME NEW st \in Starts PROVE st.toolIndexes = {}
  OBVIOUS
<1>1. PICK body \in Bodies : st \in {Run(TrInit, body)[k].st : k \in Silent(body)}
  BY DEF Starts
<1>2. PICK k \in 0..Len(body) : Run(TrInit, body)[k].evs = <<>> /\ st = Run(TrInit, body)[k].st
  BY <1>1 DEF Silent
<1>3. TrInit \in TrState /\ TrInit.toolIndexes = {}
  BY TranslatorAssumption, AdapterAssumption DEF ArkInit
<1>4. Follows(body, k, <<>>, st)
  BY <1>2, <1>3, ArkFollows
<1>5. \E ended : Keeps(<<>>, st.toolIndexes, ended)
  BY <1>4, Zenon DEF Follows, BeforeFinish, AfterFinish
<1>6. Keeps(<<>>, {}, {})
  BY NothingKeeps
<1> QED
  BY <1>5, <1>6, Zenon DEF Keeps

\* The usage that the last chunk reports is the reader's at the end.
LEMMA UsageKept ==
  ASSUME NEW body \in Bodies, NEW from \in TrState, NEW k \in DOMAIN body, body[k].usage # NoUsage
  PROVE  k = Len(body) /\ Run(from, body)[Len(body)].st.usage = body[k].usage
<1> DEFINE before == Run(from, body)[k - 1]
<1>1. body \in Seq(Chunk) /\ k = Len(body) /\ k \in 1..Len(body) /\ Len(body) \in Nat
  <2>1. body \in Seq(Chunk) /\ Len(body) \in Nat /\ k \in 1..Len(body)
    <3>1. body \in Seq(Chunk)
      BY TranslatorAssumption
    <3> QED
      BY <3>1
  <2>2. CompleteAnswer(body)
    BY AnswerAssumption
  <2> QED
    BY <2>1, <2>2, Zenon DEF CompleteAnswer
<1>2. body[k] \in OAChunk /\ body[k] \in Chunk /\ k - 1 \in 0..Len(body)
  BY <1>1, AdapterAssumption
<1>3. before \in Acc /\ Run(from, body)[k] = Extended(before, body[k])
  BY <1>1, <1>2, RunSteps
<1> HIDE DEF before
<1>4. before.st \in TrState
  BY <1>3 DEF Acc
<1>5. Run(from, body)[k].st = ArkAfter(before.st, body[k])
  <2>1. Run(from, body)[k].st = ChunkAfter(before.st, body[k])
    BY <1>3, ExtendedParts, Zenon
  <2>2. ChunkAfter(before.st, body[k]) = ArkAfter(before.st, body[k])
    BY <1>2, <1>4, AdapterAssumption, Zenon
  <2> QED
    BY <2>1, <2>2
<1>6. body[k].usage.source # "nil"
  BY <1>2 DEF OAChunk, Reported
<1>7. ArkAfter(before.st, body[k]).usage = body[k].usage
  BY <1>6 DEF ArkAfter, ArkUsage
<1> QED
  BY <1>1, <1>5, <1>7

\* The events of an answer, with the Done that is made at its end.
LEMMA TranslationLawful ==
  ASSUME NEW st \in Starts, NEW body \in Bodies
  PROVE  /\ Lawful(Translation[st][body])
         /\ Len(Translation[st][body]) \in Nat \ {0}
         /\ \A k \in DOMAIN body : body[k].usage # NoUsage =>
              Translation[st][body][Len(Translation[st][body])].usage = body[k].usage
<1> DEFINE n == Len(body)
           last == Run(st, body)[n]
           done == ArkDone(last.st)
<1>1. st \in TrState /\ st.toolIndexes = {}
  BY StartsType, StartsClosed
<1>2. body \in Seq(Chunk) /\ n \in Nat /\ n \in 0..n /\ CompleteAnswer(body)
  BY TranslatorAssumption, AnswerAssumption
<1>3. body \in Seq(OAChunk)
  BY <1>2, AdapterAssumption
<1>4. last \in Acc
  BY <1>1, <1>2, RunSteps
<1>5. Follows(body, n, last.evs, last.st)
  BY <1>1, <1>2, ArkFollows
<1>6. Translation[st][body] = Completed(last)
  BY DEF Translation
<1>7. \A k \in DOMAIN body : body[k].usage # NoUsage => last.st.usage = body[k].usage
  BY <1>1, UsageKept
<1> HIDE DEF last, n
<1>9. last.evs \in Seq(K1Event) /\ last.st \in ArkState /\ EndEvent(last.st) = done
  BY <1>4, AdapterAssumption DEF Acc
<1>10. AfterFinish(last.evs, last.st)
  BY <1>2, <1>3, <1>5, CompleteEnds DEF n
<1> DEFINE u == IF last.st.usage = NoUsage THEN UnknownUsage ELSE last.st.usage
<1>11. u \in Usage /\ u.source # "nil"
  <2>1. \A v \in Usage : v # NoUsage => v.source # "nil"
    BY DEF Usage, NoUsage, UnknownUsage, Reported
  <2>2. UnknownUsage \in Usage /\ UnknownUsage # NoUsage
    BY DEF Usage, NoUsage, UnknownUsage
  <2>3. last.st.usage \in Usage
    BY <1>9 DEF ArkState
  <2> QED
    BY <2>1, <2>2, <2>3, Zenon
<1>12. done = Done(u, last.st.lastFinish)
  BY Zenon DEF ArkDone
<1>13. done.usage = u
  BY <1>12 DEF Done, Blank
<1> HIDE DEF u, done
<1>14. Lawful(Append(last.evs, done))
  BY <1>10, <1>11, <1>12, AnswerDoneKeeps
<1>15. Translation[st][body] = Append(last.evs, done)
  BY <1>6, <1>9 DEF Completed
<1>16. /\ Len(Append(last.evs, done)) = Len(last.evs) + 1 /\ Len(last.evs) \in Nat
       /\ Append(last.evs, done)[Len(last.evs) + 1] = done
  BY <1>9
<1>17. \A k \in DOMAIN body : body[k].usage # NoUsage => done.usage = body[k].usage
  BY <1>7, <1>13, Zenon DEF u
<1>18. Len(Append(last.evs, done)) \in Nat \ {0}
  BY <1>16
<1>19. Append(last.evs, done)[Len(Append(last.evs, done))] = done
  BY <1>16
<1> QED
  BY <1>14, <1>15, <1>17, <1>18, <1>19, Zenon

\* After io.EOF the consumer that stops has the whole answer, and nothing moves.
EndInv ==
  Disciplined /\ outcome = "eof" =>
    /\ start \in Starts /\ served # <<>>
    /\ Untagged(delivered) = Translation[start][Body]

LEMMA NextEndInv ==
  ASSUME IInv, IInv', TranslationInv, EndInv, [Next]_vars
  PROVE  EndInv'
<1> SUFFICES ASSUME Disciplined', outcome' = "eof" PROVE EndInv'
  BY DEF EndInv
<1>1. Disciplined
  BY SameHabit DEF Disciplined
<1>2. CASE RecvEof
  <2>1. /\ stream # 0 /\ queue = <<>> /\ doneEmitted /\ Reading /\ served # <<>>
    BY <1>1, <1>2, StreamServed DEF RecvEof, FirstEnd, IInv, StreamInv, TranslationInv
  <2>2. UNCHANGED <<delivered, served, start>> /\ Body' = Body
    BY <1>2 DEF RecvEof, Body
  <2>3. Told = Translation[start][Body] /\ start \in Starts
    BY <2>1 DEF Reading
  <2>4. Untagged(delivered) \o <<>> = Untagged(delivered)
    BY UntaggedQueue, ConcatEmptySeq DEF IInv
  <2>5. Untagged(delivered) = Translation[start][Body]
    BY <2>1, <2>3, <2>4, UntaggedNone DEF Told
  <2> QED
    BY <2>1, <2>2, <2>3, <2>5 DEF EndInv
<1>3. CASE ~RecvEof
  <2>1. outcome = "eof"
    BY <1>3 DEF Next, NextCall, NextLock, NextClosed, NextPop, NextOpen, OpenSucceeds, OpenFails,
       NextRecv, RecvChunk, RecvFirstEof, RecvError, RetryOrFail, Return, CloseCall, CloseRun,
       Cancel, Finished, vars
  <2>2. npc = "over" /\ stream = 0
    BY <1>1, <2>1 DEF IInv, StreamInv
  <2>3. UNCHANGED <<delivered, served, start>> /\ Body' = Body
    BY <2>2 DEF Next, NextCall, NextLock, NextClosed, NextPop, NextOpen, OpenSucceeds, OpenFails,
       NextRecv, RecvChunk, RecvFirstEof, RecvEof, RecvError, CloseCall, CloseRun, Cancel, Finished,
       vars, upstream, Body
  <2> QED
    BY <1>1, <2>1, <2>3 DEF EndInv
<1> QED
  BY <1>2, <1>3

\* What a volcengine stream that was drained to io.EOF returned keeps the rules
\* of AssertStreamToolCalls and reports the usage of the answer, for every set of
\* complete answers, the answers of a first attempt that failed included.
THEOREM DrainedConformsHolds == Spec => []DrainedConforms
<1>1. IInv /\ IInv' /\ TranslationInv /\ EndInv /\ [Next]_vars => EndInv'
  BY NextEndInv
<1>2. Init => EndInv
  BY DEF Init, EndInv
<1>3. IInv /\ EndInv => DrainedConforms
  <2> SUFFICES ASSUME IInv, EndInv, Status = "ended" PROVE DrainedConforms
    BY DEF DrainedConforms
  <2> DEFINE all == Translation[start][Body]
  <2>1. Disciplined /\ outcome = "eof"
    BY DEF Status
  <2>2. start \in Starts /\ served # <<>> /\ Untagged(delivered) = all
    BY <2>1 DEF EndInv
  <2>3. Body \in Bodies /\ Body \in Seq(Chunk)
    BY <2>2, BodyType DEF IInv
  <2>4. Log = all /\ DOMAIN delivered = DOMAIN all
        /\ \A k \in DOMAIN delivered : all[k] = delivered[k].ev
    BY <2>1, <2>2 DEF Log, Untagged
  <2>5. /\ Lawful(all) /\ Len(all) \in Nat \ {0}
        /\ \A k \in DOMAIN Body : Body[k].usage # NoUsage => all[Len(all)].usage = Body[k].usage
    BY <2>2, <2>3, TranslationLawful
  <2>6. \A k \in DOMAIN all : all[k].kind = "done" => k = Len(all)
    <3>1. delivered \in Seq(TaggedEvent) /\ Len(all) = Len(delivered)
      BY <2>2, UntaggedQueue DEF IInv
    <3>2. \A k \in DOMAIN delivered : delivered[k].ev \in Event
      <4>1. \A e \in TaggedEvent : e.ev \in Event
        BY DEF TaggedEvent
      <4>2. \A k \in DOMAIN delivered : delivered[k] \in TaggedEvent
        BY <3>1
      <4> QED
        BY <4>1, <4>2, Zenon
    <3>3. \A k \in DOMAIN delivered : IsDone(delivered[k].ev) => k = Len(delivered)
      BY <2>1 DEF IInv, LastInv
    <3>4. \A ev \in Event : ev.kind = "done" => IsDone(ev)
      BY AdapterAssumption, Zenon DEF IsDoneEvent
    <3> HIDE DEF all
    <3> SUFFICES ASSUME NEW k \in DOMAIN all, all[k].kind = "done" PROVE k = Len(all)
      OBVIOUS
    <3>5. k \in DOMAIN delivered /\ all[k] = delivered[k].ev
      BY <2>4
    <3> QED
      BY <3>1, <3>2, <3>3, <3>4, <3>5, Zenon
  <2>7. ToSet(Body) = {Body[k] : k \in DOMAIN Body}
    BY DEF ToSet
  <2> HIDE DEF all
  <2>8. K1Conforms(Log)
    BY <2>4, <2>5, <2>6, KeepsConforms
  <2>9. \A c \in ToSet(Body) : c.usage # NoUsage => Log[Len(Log)].usage = c.usage
    BY <2>4, <2>5, <2>7, Zenon
  <2> QED
    BY <2>8, <2>9 DEF DrainedConforms
<1> QED
  BY <1>1, <1>2, <1>3, Translated, PTL DEF Spec


-----------------------------------------------------------------------------
(* A drained stream adds up to what Generate returns.                      *)

\* What one chunk of an answer adds, in a state of the reader.
LEMMA ArkChunkAdds ==
  ASSUME NEW body \in Bodies, NEW p \in Nat, p + 1 \in DOMAIN body, NEW st \in TrState, NEW evs,
         Follows(body, p, evs, st)
  PROVE  /\ ChunkEvents(st, body[p + 1]) \in Seq(K1Event)
         /\ AddsUp(ChunkEvents(st, body[p + 1]), body[p + 1].choices)
         /\ ChunkAfter(st, body[p + 1]).lastFinish
              = IF Finishes(body[p + 1]) THEN OAMapFinishReason(body[p + 1].choices[1].finish)
                ELSE st.lastFinish
<1> DEFINE c == body[p + 1]
           next == ChoicesOf(OAPart(st), c)
<1>1. body \in Seq(Chunk) /\ CompleteAnswer(body)
  BY TranslatorAssumption, AnswerAssumption
<1>2. body \in Seq(OAChunk) /\ c \in Chunk
  BY <1>1, AdapterAssumption
<1>3. OAPart(st) \in OAState /\ OAPart(st).lastFinish = st.lastFinish
      /\ OAPart(st).toolIndexes = st.toolIndexes
  BY AdapterAssumption DEF OAPart, OAState, ArkState
<1>4. Follows(body, p, evs, OAPart(st))
  BY <1>3, PartFollows
<1>5. /\ next.evs \in Seq(K1Event) /\ AddsUp(next.evs, c.choices)
      /\ next.st.lastFinish = IF Finishes(c) THEN OAMapFinishReason(c.choices[1].finish)
                              ELSE OAPart(st).lastFinish
  BY <1>1, <1>2, <1>3, <1>4, ChunkAdds
<1>6. ArkEvents(st, c) = next.evs /\ ArkAfter(st, c).lastFinish = next.st.lastFinish
  <2>1. ArkChoices(st, c) = next
    BY DEF ArkChoices, ChoicesOf, OAPart
  <2> HIDE DEF next
  <2> QED
    BY <2>1 DEF ArkEvents, ArkAfter
<1>7. ChunkEvents(st, c) = ArkEvents(st, c) /\ ChunkAfter(st, c) = ArkAfter(st, c)
  BY <1>2, AdapterAssumption
<1> HIDE DEF next
<1> QED
  BY <1>3, <1>5, <1>6, <1>7, Zenon

\* The chunks of an answer add up to its text and its calls, and leave the
\* finish reason of the whole in the reader.
LEMMA RunAdds ==
  ASSUME NEW body \in Bodies, NEW from \in TrState, from.toolIndexes = {}
  PROVE  /\ Deltas(body) \in Seq(OAWireChoice)
         /\ AddsUp(Run(from, body)[Len(body)].evs, Deltas(body))
         /\ Run(from, body)[Len(body)].st.lastFinish = OAMapFinishReason(ChatCompletion(body).finish)
<1> DEFINE n == Len(body)
           evs == [k \in 0..n |-> Run(from, body)[k].evs]
           finish == [k \in 0..n |-> Run(from, body)[k].st.lastFinish]
<1>1. body \in Seq(Chunk) /\ CompleteAnswer(body) /\ n \in Nat /\ DOMAIN body = 1..n
  BY TranslatorAssumption, AnswerAssumption
<1>2. body \in Seq(OAChunk)
  BY <1>1, AdapterAssumption
<1>3. ASSUME NEW k \in 1..n
      PROVE  /\ \E x \in Seq(K1Event) : evs[k] = evs[k - 1] \o x /\ AddsUp(x, body[k].choices)
             /\ finish[k] = IF Finishes(body[k]) THEN OAMapFinishReason(body[k].choices[1].finish)
                            ELSE finish[k - 1]
  <2> DEFINE before == Run(from, body)[k - 1]
             after == Run(from, body)[k]
             x == ChunkEvents(before.st, body[k])
  <2>1. k - 1 \in 0..n /\ k \in 0..n /\ k - 1 \in Nat /\ (k - 1) + 1 = k /\ k \in DOMAIN body
    BY <1>1, <1>3
  <2>2. before \in Acc /\ after = Extended(before, body[k])
    BY <1>3, <2>1, RunSteps
  <2>3. Follows(body, k - 1, before.evs, before.st)
    BY <2>1, ArkFollows
  <2>4. /\ evs[k] = after.evs /\ evs[k - 1] = before.evs
        /\ finish[k] = after.st.lastFinish /\ finish[k - 1] = before.st.lastFinish
    BY <2>1
  <2> HIDE DEF before, after, evs, finish
  <2>5. before.st \in TrState
    BY <2>2 DEF Acc
  <2>6. /\ x \in Seq(K1Event) /\ AddsUp(x, body[k].choices)
        /\ ChunkAfter(before.st, body[k]).lastFinish
             = IF Finishes(body[k]) THEN OAMapFinishReason(body[k].choices[1].finish)
               ELSE before.st.lastFinish
    <3> DEFINE p == k - 1
    <3>1. p \in Nat /\ p + 1 = k /\ p + 1 \in DOMAIN body /\ Follows(body, p, before.evs, before.st)
      BY <2>1, <2>3
    <3> HIDE DEF p
    <3>2. /\ ChunkEvents(before.st, body[p + 1]) \in Seq(K1Event)
          /\ AddsUp(ChunkEvents(before.st, body[p + 1]), body[p + 1].choices)
          /\ ChunkAfter(before.st, body[p + 1]).lastFinish
               = IF Finishes(body[p + 1]) THEN OAMapFinishReason(body[p + 1].choices[1].finish)
                 ELSE before.st.lastFinish
      BY <2>5, <3>1, ArkChunkAdds
    <3> QED
      BY <3>1, <3>2, Zenon
  <2>7. after.evs = before.evs \o x /\ after.st = ChunkAfter(before.st, body[k])
    BY <2>2, ExtendedParts, Zenon
  <2> HIDE DEF x
  <2> QED
    BY <2>4, <2>6, <2>7, Zenon
<1>4. evs[0] = <<>> /\ evs[n] = Run(from, body)[n].evs /\ finish[n] = Run(from, body)[n].st.lastFinish
  <2>1. Run(from, body)[0] = Start(from)
    BY RunSteps
  <2>2. Run(from, body)[0].evs = <<>>
    BY <2>1 DEF Start
  <2>3. 0 \in 0..n /\ n \in 0..n
    BY <1>1
  <2> QED
    BY <2>2, <2>3
<1> HIDE DEF evs, finish
<1>5. AddsUp(evs[n], Deltas(body)) /\ Deltas(body) \in Seq(OAWireChoice)
  <2>1. \A k \in 1..Len(body) :
          \E x \in Seq(K1Event) : evs[k] = evs[k - 1] \o x /\ AddsUp(x, body[k].choices)
    BY <1>3
  <2> QED
    BY <1>2, <1>4, <2>1, SumsAdd
<1>6. finish[n] = OAMapFinishReason(ChatCompletion(body).finish)
  <2>1. \A k \in 1..Len(body) :
          finish[k] = IF Finishes(body[k]) THEN OAMapFinishReason(body[k].choices[1].finish)
                      ELSE finish[k - 1]
    BY <1>3
  <2> QED
    BY <1>1, <1>2, <2>1, FinishAdds
<1> QED
  BY <1>4, <1>5, <1>6

\* The text, the calls and the end of some events are those of what Generate
\* returns for an answer, as a stream knows it.
AddUpTo(evs, body) ==
  LET whole == WithOtherCalls(body, ArkResponse(ChatCompletion(body))) IN
  /\ Joined(evs, TextEvents) = whole.text
  /\ {ToolCall(e.call, ArgsByIndex(evs, e.index)) : e \in StartsOf(evs)} = whole.calls
  /\ evs[Len(evs)].finish = whole.finish
  /\ UsageReported(body) => evs[Len(evs)].usage = whole.usage

\* So it is with what an answer is told as, the events of its chunks and the
\* Done of its end.
LEMMA AnswerTold ==
  ASSUME NEW st \in Starts, NEW body \in Bodies
  PROVE  Translation[st][body] \in Seq(K1Event) /\ AddUpTo(Translation[st][body], body)
<1> DEFINE last == Run(st, body)[Len(body)]
           done == ArkDone(last.st)
           all == Append(last.evs, done)
           whole == ChatCompletion(body)
<1>1. st \in TrState /\ st.toolIndexes = {}
  BY StartsType, StartsClosed
<1>2. /\ body \in Seq(Chunk) /\ CompleteAnswer(body) /\ OneCallEach(body)
      /\ Len(body) \in 0..Len(body)
  BY TranslatorAssumption, AnswerAssumption, CallAssumption
<1>3. body \in Seq(OAChunk)
  BY <1>2, AdapterAssumption
<1>4. last \in Acc
  BY <1>1, <1>2, RunSteps
<1>5. /\ Deltas(body) \in Seq(OAWireChoice) /\ AddsUp(last.evs, Deltas(body))
      /\ last.st.lastFinish = OAMapFinishReason(whole.finish)
  BY <1>1, RunAdds
<1>6. Translation[st][body] = Completed(last)
  BY DEF Translation
<1>7. /\ Len(Translation[st][body]) \in Nat \ {0}
      /\ \A k \in DOMAIN body : body[k].usage # NoUsage =>
           Translation[st][body][Len(Translation[st][body])].usage = body[k].usage
  BY TranslationLawful
<1> HIDE DEF last
<1>8. last.evs \in Seq(K1Event) /\ last.st \in TrState /\ EndEvent(last.st) = done
  BY <1>4, AdapterAssumption DEF Acc
<1>9. done \in K1Event
  BY <1>8, TranslatorAssumption, AdapterAssumption
<1>10. done.kind = "done" /\ done.finish = last.st.lastFinish
  BY DEF ArkDone, Done, Blank
<1> HIDE DEF done
<1>11. Translation[st][body] = all
  BY <1>6, <1>8 DEF Completed
<1>12. all \in Seq(K1Event) /\ all[Len(all)] = done
  BY <1>8, <1>9
<1>13. AddsUp(all, Deltas(body))
  BY <1>5, <1>8, <1>9, <1>10, DoneAdds
<1> HIDE DEF all
<1>14. Joined(all, TextEvents) = whole.text
  BY <1>5, <1>12, <1>13, TextAgrees
<1>15. {ToolCall(e.call, ArgsByIndex(all, e.index)) : e \in StartsOf(all)}
         = OAToolCalls(whole) \cup OtherCalls(whole)
  BY <1>2, <1>3, <1>5, <1>12, <1>13, CallsAgree
<1>16. ASSUME UsageReported(body) PROVE all[Len(all)].usage = whole.usage
  <2>1. PICK k \in DOMAIN body : body[k].usage # NoUsage
    BY <1>16 DEF UsageReported, ToSet
  <2>2. whole.usage = body[k].usage
    BY <1>2, <1>3, <2>1, UsageKnown
  <2> QED
    BY <1>7, <1>11, <2>1, <2>2, Zenon
<1> DEFINE response == WithOtherCalls(body, ArkResponse(whole))
<1>17. /\ response.text = whole.text
       /\ response.calls = OAToolCalls(whole) \cup OtherCalls(whole)
       /\ response.finish = OAMapFinishReason(whole.finish)
       /\ response.usage = whole.usage
  BY DEF WithOtherCalls, ArkResponse, Response
<1> HIDE DEF whole
<1>18. all[Len(all)].finish = OAMapFinishReason(whole.finish)
  BY <1>5, <1>10, <1>12
<1>19. AddUpTo(all, body)
  BY <1>14, <1>15, <1>16, <1>17, <1>18, Zenon DEF AddUpTo, whole
<1> QED
  BY <1>11, <1>12, <1>19, Zenon

\* What a drained stream returned is the answer that was read, with one Done.
LEMMA DrainedIsAnswer ==
  ASSUME IInv, EndInv, Status = "ended"
  PROVE  /\ start \in Starts /\ Body \in Bodies
         /\ Log = Translation[start][Body] /\ Log \in Seq(K1Event) /\ Len(Log) \in Nat \ {0}
         /\ DoneOf(Log) = {Log[Len(Log)]}
<1> DEFINE all == Translation[start][Body]
<1>1. Disciplined /\ outcome = "eof"
  BY DEF Status
<1>2. start \in Starts /\ served # <<>> /\ Untagged(delivered) = all
  BY <1>1 DEF EndInv
<1>3. Body \in Bodies
  BY <1>2, BodyType DEF IInv
<1>4. Log = all
  BY <1>1, <1>2 DEF Log, Untagged
<1>5. all \in Seq(K1Event) /\ Len(all) \in Nat \ {0}
  BY <1>2, <1>3, AnswerTold, TranslationLawful, Zenon
<1>6. delivered \in Seq(TaggedEvent) /\ Len(all) = Len(delivered) /\ HasDone(delivered)
      /\ \A k \in DOMAIN delivered : IsDone(delivered[k].ev) => k = Len(delivered)
  BY <1>1, <1>2, UntaggedQueue DEF IInv, LastInv
<1>7. DOMAIN delivered = DOMAIN all /\ \A k \in DOMAIN delivered : all[k] = delivered[k].ev
  BY <1>2 DEF Untagged
<1> HIDE DEF all
<1>8. \A k \in DOMAIN all : all[k].kind = "done" <=> IsDone(delivered[k].ev)
  <2>1. \A ev \in K1Event : IsDone(ev) <=> ev.kind = "done"
    BY AdapterAssumption, Zenon DEF IsDoneEvent
  <2>2. \A k \in DOMAIN all : all[k] \in K1Event
    BY <1>5
  <2> QED
    BY <1>7, <2>1, <2>2, Zenon
<1>9. \A k \in DOMAIN all : all[k].kind = "done" <=> k = Len(all)
  <2>1. PICK k \in DOMAIN delivered : IsDone(delivered[k].ev)
    BY <1>6 DEF HasDone
  <2> QED
    BY <1>6, <1>7, <1>8, <2>1, Zenon
<1>10. Len(all) \in DOMAIN all
  BY <1>5
<1>11. DoneOf(all) = {all[Len(all)]}
  <2>1. all[Len(all)] \in DoneOf(all)
    BY <1>9, <1>10, Zenon DEF DoneOf, ToSet
  <2>2. ASSUME NEW e \in DoneOf(all) PROVE e = all[Len(all)]
    <3>1. PICK k \in DOMAIN all : e = all[k] /\ e.kind = "done"
      BY <2>2, Zenon DEF DoneOf, ToSet
    <3> QED
      BY <1>9, <3>1, Zenon
  <2> HIDE DEF all
  <2> QED
    BY <2>1, <2>2, Zenon
<1> QED
  BY <1>2, <1>3, <1>4, <1>5, <1>11, Zenon DEF all

\* A volcengine stream that was drained to io.EOF adds up to what Generate
\* returns for the same answer: the same text, the same calls with the same
\* arguments, the same finish reason and, where the answer reports it, the same
\* usage.  Beyond these it has the calls whose type is not "function", which
\* Generate leaves out, and no others.  It is so for every set of complete answers.
THEOREM GenerateAgreesHolds == Spec => []GenerateAgrees
<1>1. IInv /\ IInv' /\ TranslationInv /\ EndInv /\ [Next]_vars => EndInv'
  BY NextEndInv
<1>2. Init => EndInv
  BY DEF Init, EndInv
<1>3. ASSUME IInv, EndInv PROVE GenerateAgrees
  <2> SUFFICES ASSUME Status = "ended"
               PROVE  LET streamed == Accumulated(Log) IN
                      Agrees(IF UsageReported(Body) THEN streamed
                             ELSE [streamed EXCEPT !.usage = NoUsage], Generated[Body])
    BY DEF GenerateAgrees
  <2> DEFINE done == Log[Len(Log)]
             streamed == Accumulated(Log)
             generated == WithOtherCalls(Body, ArkResponse(ChatCompletion(Body)))
             compared == IF UsageReported(Body) THEN streamed
                         ELSE [streamed EXCEPT !.usage = NoUsage]
             text == Joined(Log, TextEvents)
             calls == {ToolCall(e.call, ArgsByIndex(Log, e.index)) : e \in StartsOf(Log)}
  <2>1. start \in Starts /\ Body \in Bodies /\ Log = Translation[start][Body]
        /\ DoneOf(Log) = {done}
    BY <1>3, DrainedIsAnswer
  <2>2. /\ text = generated.text /\ calls = generated.calls /\ done.finish = generated.finish
        /\ UsageReported(Body) => done.usage = generated.usage
    <3>1. AddUpTo(Log, Body)
      BY <2>1, AnswerTold, Zenon
    <3> QED
      BY <3>1 DEF AddUpTo
  <2>3. Generated[Body] = generated
    BY <2>1 DEF Generated
  <2> HIDE DEF done, generated
  <2>4. DoneOf(Log) # {} /\ (CHOOSE e \in DoneOf(Log) : TRUE) = done
    BY <2>1
  <2>5. streamed = Response(text, calls, done.finish, done.usage)
    <3> HIDE DEF calls, text
    <3>1. streamed = Response(text, calls,
                              IF DoneOf(Log) = {} THEN NoFinish ELSE (CHOOSE e \in DoneOf(Log) : TRUE).finish,
                              IF DoneOf(Log) = {} THEN NoUsage ELSE (CHOOSE e \in DoneOf(Log) : TRUE).usage)
      BY Zenon DEF Accumulated, text, calls
    <3> QED
      BY <2>4, <3>1, Zenon
  <2> HIDE DEF text, calls, streamed
  <2>6. compared = IF UsageReported(Body) THEN Response(text, calls, done.finish, done.usage)
                   ELSE Response(text, calls, done.finish, NoUsage)
    BY <2>5 DEF Response
  <2>7. /\ compared.text = text /\ compared.calls = calls /\ compared.finish = done.finish
        /\ compared.usage = IF UsageReported(Body) THEN done.usage ELSE NoUsage
    BY <2>6 DEF Response
  <2>8. Agrees(compared, generated)
    <3> HIDE DEF compared
    <3> QED
      BY <2>2, <2>7, Zenon DEF Agrees
  <2> QED
    BY <2>3, <2>8, Zenon DEF streamed
<1>4. IInv /\ EndInv => GenerateAgrees
  BY <1>3
<1> QED
  BY <1>1, <1>2, <1>4, Translated, PTL DEF Spec
=============================================================================
