--------------------------- MODULE GoogleStreamProofs -----------------------
(***************************************************************************)
(* The google reader for every translator, every set of answers and any    *)
(* number of goroutines calling Close: types and mutex, the release of     *)
(* iterator and timer, the end that is final.                              *)
(***************************************************************************)
EXTENDS GoogleContract, TranslationTheorems

\* The reader is closed exactly when the stream has ended, and a pull only
\* happens on the live iterator of an open reader.
EndInv ==
  /\ closed <=> ending # "none"
  /\ npc = "pull" => ~closed /\ iter = "live"

IInv == TypeOK /\ Released /\ EndInv

LEMMA InitIInv == Init => IInv
<1> SUFFICES ASSUME Init PROVE IInv
  OBVIOUS
<1>1. body \in Bodies /\ body \in Seq(Chunk) /\ tr \in TrState
  BY TranslatorAssumption DEF Init
<1>2. Len(body) \in Nat
  BY <1>1
<1>3. pos \in 0..Len(body)
  BY <1>2 DEF Init
<1>4. cpc \in [Closers -> {"idle", "lock", "done"}]
  BY DEF Init
<1>5. queue \in Seq(Event) /\ delivered \in Seq(Event)
  BY DEF Init
<1>6. TypeOK
  BY <1>1, <1>3, <1>4, <1>5 DEF Init, TypeOK
<1> QED
  BY <1>6 DEF Init, IInv, Released, EndInv

LEMMA NextCallIInv == IInv /\ NextCall => IInv'
<1> SUFFICES ASSUME IInv, NextCall PROVE IInv'
  OBVIOUS
<1> QED
  BY TranslatorAssumption DEF NextCall, reader, history, IInv, TypeOK, Released, EndInv

LEMMA NextLockIInv == IInv /\ NextLock => IInv'
<1> SUFFICES ASSUME IInv, NextLock PROVE IInv'
  OBVIOUS
<1> QED
  BY TranslatorAssumption DEF NextLock, reader, history, IInv, TypeOK, Released, EndInv

LEMMA NextClosedIInv == IInv /\ NextClosed => IInv'
<1> SUFFICES ASSUME IInv, NextClosed PROVE IInv'
  OBVIOUS
<1> QED
  BY TranslatorAssumption DEF NextClosed, Return, reader, history, IInv, TypeOK, Released, EndInv

LEMMA NextPopIInv == IInv /\ NextPop => IInv'
<1> SUFFICES ASSUME IInv, NextPop PROVE IInv'
  OBVIOUS
<1>1. queue \in Seq(Event) /\ queue # <<>>
  BY DEF NextPop, IInv, TypeOK
<1>2. Head(queue) \in Event /\ Tail(queue) \in Seq(Event)
  BY <1>1
<1>3. queue' \in Seq(Event) /\ delivered' \in Seq(Event)
  BY <1>2 DEF NextPop, IInv, TypeOK
<1> QED
  BY <1>3 DEF NextPop, Return, reader, history, IInv, TypeOK, Released, EndInv

LEMMA NextPullIInv == IInv /\ NextPull => IInv'
<1> SUFFICES ASSUME IInv, NextPull PROVE IInv'
  OBVIOUS
<1> QED
  BY TranslatorAssumption DEF NextPull, reader, history, IInv, TypeOK, Released, EndInv

LEMMA PullChunkIInv == IInv /\ PullChunk => IInv'
<1> SUFFICES ASSUME IInv, PullChunk PROVE IInv'
  OBVIOUS
<1>1. body \in Seq(Chunk) /\ pos + 1 \in DOMAIN body /\ body[pos + 1] \in Chunk
  <2>1. body \in Seq(Chunk) /\ pos \in 0..Len(body) /\ pos < Len(body)
    BY TranslatorAssumption DEF PullChunk, IInv, TypeOK
  <2>2. Len(body) \in Nat /\ DOMAIN body = 1..Len(body)
    BY <2>1
  <2>3. pos + 1 \in 1..Len(body)
    BY <2>1, <2>2
  <2> QED
    BY <2>1, <2>2, <2>3
<1>2. ChunkEvents(tr, body[pos + 1]) \in Seq(Event) /\ ChunkAfter(tr, body[pos + 1]) \in TrState
  BY <1>1, TranslatorAssumption DEF IInv, TypeOK
<1>3. queue' \in Seq(Event) /\ tr' \in TrState
  BY <1>2 DEF PullChunk, IInv, TypeOK
<1>4. pos' \in 0..Len(body)
  BY <1>1 DEF PullChunk, IInv, TypeOK
<1> QED
  BY <1>1, <1>3, <1>4 DEF PullChunk, reader, history, IInv, TypeOK, Released, EndInv

LEMMA PullExhaustedIInv == IInv /\ PullExhausted => IInv'
<1> SUFFICES ASSUME IInv, PullExhausted PROVE IInv'
  OBVIOUS
<1> QED
  BY TranslatorAssumption DEF PullExhausted, Return, End, reader, history,
     IInv, TypeOK, Released, EndInv

LEMMA PullErrorIInv == IInv /\ PullError => IInv'
<1> SUFFICES ASSUME IInv, PullError PROVE IInv'
  OBVIOUS
<1> QED
  BY TranslatorAssumption DEF PullError, Return, End, reader, history, IInv, TypeOK, Released, EndInv

LEMMA CancelIInv == IInv /\ Cancel => IInv'
<1> SUFFICES ASSUME IInv, Cancel PROVE IInv'
  OBVIOUS
<1> QED
  BY TranslatorAssumption DEF Cancel, reader, history, IInv, TypeOK, Released, EndInv

LEMMA ExpireIInv == IInv /\ Expire => IInv'
<1> SUFFICES ASSUME IInv, Expire PROVE IInv'
  OBVIOUS
<1> QED
  BY TranslatorAssumption DEF Expire, Deadline, reader, history, IInv, TypeOK, Released, EndInv

LEMMA CloseCallIInv == ASSUME IInv, NEW c \in Closers, CloseCall(c) PROVE IInv'
<1> QED
  BY DEF CloseCall, End, reader, history, IInv, TypeOK, Released, EndInv

LEMMA CloseRunIInv == ASSUME IInv, NEW c \in Closers, CloseRun(c) PROVE IInv'
<1> QED
  BY DEF CloseRun, End, reader, history, IInv, TypeOK, Released, EndInv

\* The invariant is inductive: no step breaks it.
LEMMA StepIInv == IInv /\ [Next]_vars => IInv'
<1> SUFFICES ASSUME IInv, [Next]_vars PROVE IInv'
  OBVIOUS
<1>1. CASE NextCall
  BY <1>1, NextCallIInv
<1>2. CASE NextLock
  BY <1>2, NextLockIInv
<1>3. CASE NextClosed
  BY <1>3, NextClosedIInv
<1>4. CASE NextPop
  BY <1>4, NextPopIInv
<1>5. CASE NextPull
  BY <1>5, NextPullIInv
<1>6. CASE PullChunk
  BY <1>6, PullChunkIInv
<1>7. CASE PullExhausted
  BY <1>7, PullExhaustedIInv
<1>8. CASE PullError
  BY <1>8, PullErrorIInv
<1>9. CASE Cancel
  BY <1>9, CancelIInv
<1>10. CASE Expire
  BY <1>10, ExpireIInv
<1>11. CASE \E c \in Closers : CloseCall(c) \/ CloseRun(c)
  BY <1>11, CloseCallIInv, CloseRunIInv
<1>12. CASE UNCHANGED vars
  BY <1>12 DEF vars, reader, history, IInv, TypeOK, Released, EndInv
<1> QED
  BY <1>1, <1>2, <1>3, <1>4, <1>5, <1>6, <1>7, <1>8, <1>9, <1>10, <1>11, <1>12 DEF Next

\* The inductive invariant holds in every reachable state.
THEOREM Invariance == Spec => []IInv
<1> QED
  BY InitIInv, StepIInv, PTL DEF Spec

\* Fields keep their types and the mutex is held exactly by a running Next.
THEOREM TypeCorrect == Spec => []TypeOK
<1>1. IInv => TypeOK
  BY DEF IInv
<1> QED
  BY <1>1, Invariance, PTL

\* Done, error and Close all stop the iterator and release the timer, and
\* nothing else does.
THEOREM ReleasedHolds == Spec => []Released
<1>1. IInv => Released
  BY DEF IInv
<1> QED
  BY <1>1, Invariance, PTL

\* Nothing is delivered or pulled after the stream ended, whoever calls Next
\* or Close, and however often.
THEOREM EndIsFinalHolds == Spec => EndIsFinal
<1>1. IInv /\ [Next]_vars => [ending # "none" => UNCHANGED <<delivered, pos, ending>>]_vars
  <2> SUFFICES ASSUME IInv, Next, ending # "none" PROVE UNCHANGED <<delivered, pos, ending>>
    OBVIOUS
  <2>1. closed /\ npc # "pull"
    BY DEF IInv, EndInv
  <2>2. CASE NextCall \/ NextLock \/ NextClosed \/ NextPop \/ NextPull
    BY <2>1, <2>2 DEF NextCall, NextLock, NextClosed, NextPop, NextPull, history
  <2>3. CASE PullChunk \/ PullExhausted \/ PullError
    BY <2>1, <2>3 DEF PullChunk, PullExhausted, PullError
  <2>4. CASE \E c \in Closers : CloseCall(c) \/ CloseRun(c)
    BY <2>1, <2>4 DEF CloseCall, CloseRun, history
  <2>5. CASE Cancel \/ Expire
    BY <2>5 DEF Cancel, Expire, history
  <2> QED
    BY <2>2, <2>3, <2>4, <2>5 DEF Next
<1> QED
  BY <1>1, Invariance, PTL DEF Spec, EndIsFinal
-----------------------------------------------------------------------------
(* The refinement of StreamContract.                                       *)

Acc == [evs : Seq(Event), st : TrState]

LEMMA ExtendedParts ==
  ASSUME NEW acc, NEW c
  PROVE  /\ Extended(acc, c).evs = acc.evs \o ChunkEvents(acc.st, c)
         /\ Extended(acc, c).st = ChunkAfter(acc.st, c)
  BY DEF Extended

\* The translation goes through an answer chunk by chunk, whatever its length.
LEMMA RunSteps ==
  ASSUME NEW answer \in Bodies
  PROVE  /\ Run(answer) \in [0..Len(answer) -> Acc]
         /\ Run(answer)[0] = Start
         /\ \A k \in 1..Len(answer) : /\ answer[k] \in Chunk
                                      /\ Run(answer)[k] = Extended(Run(answer)[k - 1], answer[k])
<1> DEFINE n == Len(answer)
           step == [p \in Acc \X Chunk |-> Extended(p[1], p[2])]
           IsRun(r) == r = [k \in 0..n |-> IF k = 0 THEN Start ELSE Extended(r[k - 1], answer[k])]
<1>1. answer \in Seq(Chunk) /\ n \in Nat /\ \A k \in 1..n : answer[k] \in Chunk
  <2>1. answer \in Seq(Chunk)
    BY TranslatorAssumption
  <2> QED
    BY <2>1
<1>2. Start \in Acc
  BY TranslatorAssumption DEF Start, Acc
<1>3. \A a \in Acc, c \in Chunk : Extended(a, c) \in Acc
  BY TranslatorAssumption DEF Extended, Acc
<1>4. step \in [Acc \X Chunk -> Acc]
  BY <1>3
<1> HIDE DEF step
<1>5. PICK r \in [0..Len(answer) -> Acc] : GoesThrough(r, answer, Start, step)
  <2> HIDE DEF n
  <2> QED
    BY <1>1, <1>2, <1>4, RunExists
<1>6. r \in [0..n -> Acc] /\ r[0] = Start /\ \A k \in 1..n : r[k] = step[<<r[k - 1], answer[k]>>]
  BY <1>5 DEF GoesThrough
<1> HIDE DEF n
<1>7. \A k \in 0..n : r[k] = IF k = 0 THEN Start ELSE Extended(r[k - 1], answer[k])
  <2> SUFFICES ASSUME NEW k \in 0..n, k # 0 PROVE r[k] = Extended(r[k - 1], answer[k])
    BY <1>6
  <2>1. k \in 1..n /\ k - 1 \in 0..n
    BY <1>1
  <2>2. r[k - 1] \in Acc /\ answer[k] \in Chunk
    BY <1>1, <1>6, <2>1
  <2> QED
    BY <1>6, <2>1, <2>2 DEF step
<1>8. IsRun(r)
  BY <1>6, <1>7
<1>9. Run(answer) = CHOOSE acc : IsRun(acc)
  BY DEF Run, n
<1>10. IsRun(Run(answer))
  <2> HIDE DEF IsRun
  <2> QED
    BY <1>8, <1>9
<1>11. Run(answer)[0] = Start /\ \A k \in 1..n : Run(answer)[k] = Extended(Run(answer)[k - 1], answer[k])
  <2>1. 0 \in 0..n /\ \A k \in 1..n : k \in 0..n /\ k # 0
    BY <1>1
  <2> QED
    BY <1>10, <2>1
<1>12. \A k \in 0..n : Run(answer)[k] \in Acc
  <2> DEFINE P == {k \in 0..n : Run(answer)[k] \in Acc}
  <2>1. 0 \in P
    BY <1>1, <1>2, <1>11
  <2>2. ASSUME NEW k \in 0..n, k # n, k \in P PROVE k + 1 \in P
    <3>1. k + 1 \in 1..n /\ k + 1 \in 0..n /\ (k + 1) - 1 = k
      BY <1>1, <2>2
    <3>2. Run(answer)[k + 1] = Extended(Run(answer)[k], answer[k + 1])
      BY <1>11, <3>1
    <3> QED
      BY <1>1, <1>3, <2>2, <3>1, <3>2
  <2>3. \A k \in 0..n : k \in P
    <3> HIDE DEF P
    <3> QED
      BY <1>1, <2>1, <2>2, UpTo
  <2> QED
    BY <2>3
<1>13. Run(answer) \in [0..n -> Acc]
  BY <1>10, <1>12
<1> QED
  BY <1>1, <1>11, <1>13 DEF n

\* What was delivered and what is queued are the translation of the chunks pulled;
\* a Done that Next returned made it whole.
TranslationInv ==
  /\ ending = "none" => /\ delivered \o queue = Run(body)[pos].evs
                        /\ tr = Run(body)[pos].st
  /\ npc = "pull" => queue = <<>>
  /\ ending = "done" => delivered = Translation[body]
  /\ eof => ending # "none"

LEMMA InitTranslationInv == Init => TranslationInv
<1> SUFFICES ASSUME Init PROVE TranslationInv
  OBVIOUS
<1>1. Run(body)[0] = Start
  BY RunSteps DEF Init
<1> QED
  BY <1>1 DEF Init, TranslationInv, Start

\* The chunk pulled next extends the translation of those before it.
LEMMA PulledNext ==
  ASSUME IInv, PullChunk
  PROVE  /\ ChunkEvents(tr, body[pos + 1]) \in Seq(Event)
         /\ Run(body)[pos + 1] = Extended(Run(body)[pos], body[pos + 1])
<1>1. body \in Bodies /\ body \in Seq(Chunk) /\ pos \in 0..Len(body) /\ pos < Len(body)
  BY TranslatorAssumption DEF PullChunk, IInv, TypeOK
<1>2. Len(body) \in Nat
  BY <1>1
<1>3. pos + 1 \in 1..Len(body) /\ (pos + 1) - 1 = pos
  BY <1>1, <1>2
<1>4. body[pos + 1] \in Chunk /\ Run(body)[pos + 1] = Extended(Run(body)[pos], body[pos + 1])
  BY <1>1, <1>3, RunSteps
<1> QED
  BY <1>4, TranslatorAssumption DEF IInv, TypeOK

\* Next pops in order, and translates each chunk in the state the ones before it
\* left.
LEMMA NextTranslationInv ==
  ASSUME IInv, TranslationInv, [Next]_vars
  PROVE  TranslationInv'
<1> USE DEF TranslationInv
<1>1. CASE NextCall
  BY <1>1 DEF NextCall, reader, history
<1>2. CASE NextLock
  BY <1>2 DEF NextLock, reader, history
<1>3. CASE NextClosed
  BY <1>3 DEF NextClosed, Return, reader, IInv, EndInv
<1>4. CASE NextPop
  <2>1. delivered \in Seq(Event) /\ queue \in Seq(Event) /\ queue # <<>> /\ ending = "none"
    BY <1>4 DEF NextPop, IInv, TypeOK, EndInv
  <2>2. Append(delivered, Head(queue)) \o Tail(queue) = delivered \o queue
    BY <2>1, PopConcat
  <2>3. /\ delivered' = Append(delivered, Head(queue)) /\ queue' = Tail(queue) /\ npc' = "outside"
        /\ UNCHANGED <<tr, body, pos, ending, eof>>
    BY <1>4 DEF NextPop, Return
  <2>4. delivered' \o queue' = delivered \o queue
    BY <2>2, <2>3
  <2> QED
    BY <2>1, <2>3, <2>4
<1>5. CASE NextPull
  BY <1>5 DEF NextPull, history
<1>6. CASE PullChunk
  <2> DEFINE more == ChunkEvents(tr, body[pos + 1])
  <2>1. /\ queue' = queue \o more /\ tr' = ChunkAfter(tr, body[pos + 1])
        /\ pos' = pos + 1 /\ npc' = "loop"
        /\ UNCHANGED <<body, delivered, ending, eof>>
    BY <1>6 DEF PullChunk, history
  <2>2. /\ more \in Seq(Event) /\ ending = "none"
        /\ Run(body)[pos + 1] = Extended(Run(body)[pos], body[pos + 1])
    BY <1>6, PulledNext DEF PullChunk, IInv, EndInv
  <2>3. /\ Run(body)[pos + 1].evs = Run(body)[pos].evs \o more
        /\ Run(body)[pos + 1].st = ChunkAfter(tr, body[pos + 1])
    <3> DEFINE before == Run(body)[pos]
               c == body[pos + 1]
    <3>1. tr = before.st
      BY <2>2
    <3> HIDE DEF before, c
    <3>2. Extended(before, c).evs = before.evs \o ChunkEvents(tr, c)
          /\ Extended(before, c).st = ChunkAfter(tr, c)
      BY <3>1, ExtendedParts
    <3> QED
      BY <2>2, <3>2 DEF before, c
  <2>4. delivered \o (queue \o more) = (delivered \o queue) \o more
    <3>1. delivered \in Seq(Event) /\ queue \in Seq(Event)
      BY DEF IInv, TypeOK
    <3> HIDE DEF more
    <3> QED
      BY <2>2, <3>1, ConcatAssociative
  <2> HIDE DEF more
  <2> QED
    BY <2>1, <2>2, <2>3, <2>4
<1>7. CASE PullExhausted
  <2>1. /\ queue = <<>> /\ ending = "none" /\ pos = Len(body)
        /\ delivered' = Append(delivered, EndEvent(tr)) /\ ending' = "done" /\ npc' = "outside"
        /\ UNCHANGED <<body, eof>>
    BY <1>7 DEF PullExhausted, End, Return, IInv, EndInv
  <2>2. delivered \o <<>> = delivered
    BY ConcatEmptySeq DEF IInv, TypeOK
  <2>3. delivered = Run(body)[Len(body)].evs /\ tr = Run(body)[Len(body)].st
    BY <2>1, <2>2
  <2>4. Translation[body] = Append(Run(body)[Len(body)].evs, EndEvent(Run(body)[Len(body)].st))
    BY DEF IInv, TypeOK, Translation, Completed
  <2> QED
    BY <2>1, <2>3, <2>4
<1>8. CASE PullError
  BY <1>8 DEF PullError, End, Return, IInv, EndInv
<1>9. CASE Cancel \/ Expire
  <2>1. UNCHANGED <<reader, history, npc, body, pos>>
    BY <1>9 DEF Cancel, Expire
  <2> QED
    BY <2>1 DEF reader, history
<1>10. ASSUME NEW c \in Closers, CloseCall(c) PROVE TranslationInv'
  BY <1>10 DEF CloseCall, reader, history
<1>11. ASSUME NEW c \in Closers, CloseRun(c) PROVE TranslationInv'
  BY <1>11 DEF CloseRun, End
<1>12. CASE UNCHANGED vars
  BY <1>12 DEF vars, reader, history
<1> QED
  BY <1>1, <1>2, <1>3, <1>4, <1>5, <1>6, <1>7, <1>8, <1>9, <1>10, <1>11, <1>12 DEF Next

\* The invariants together hold in every reachable state.
LEMMA Translated == Spec => [](IInv /\ TranslationInv)
<1>1. IInv /\ TranslationInv /\ [Next]_vars => (IInv /\ TranslationInv)'
  BY StepIInv, NextTranslationInv
<1> QED
  BY <1>1, InitIInv, InitTranslationInv, PTL DEF Spec

\* The events of the first chunks are the beginning of the whole translation.
LEMMA RunContinues ==
  ASSUME NEW answer \in Bodies, NEW k \in 0..Len(answer)
  PROVE  /\ Translation[answer] \in Seq(Event)
         /\ Continues(Translation[answer], Run(answer)[k].evs)
<1> DEFINE n == Len(answer)
           evs == [i \in 0..n |-> Run(answer)[i].evs]
           done == EndEvent(Run(answer)[n].st)
<1>1. n \in Nat /\ n \in 0..n
  <2>1. answer \in Seq(Chunk)
    BY TranslatorAssumption
  <2> QED
    BY <2>1
<1>2. \A i \in 0..n : Run(answer)[i].evs \in Seq(Event) /\ Run(answer)[i].st \in TrState
  BY RunSteps DEF Acc
<1>3. evs \in [0..n -> Seq(Event)]
  BY <1>2
<1>4. ASSUME NEW i \in 1..n PROVE Continues(evs[i], evs[i - 1])
  <2> DEFINE before == Run(answer)[i - 1]
             more == ChunkEvents(before.st, answer[i])
  <2>1. i \in 0..n /\ i - 1 \in 0..n
    BY <1>1
  <2>2. answer[i] \in Chunk /\ Run(answer)[i] = Extended(before, answer[i])
    BY RunSteps
  <2>3. before.evs \in Seq(Event) /\ more \in Seq(Event)
    BY <1>2, <2>1, <2>2, TranslatorAssumption
  <2>4. Run(answer)[i].evs = before.evs \o more
    <3> HIDE DEF before
    <3> QED
      BY <2>2, ExtendedParts
  <2>5. evs[i] = before.evs \o more /\ evs[i - 1] = before.evs
    BY <2>1, <2>4
  <2> HIDE DEF before, more, evs
  <2> QED
    BY <2>3, <2>5, ConcatContinues
<1>5. done \in Event
  BY <1>1, <1>2, TranslatorAssumption
<1>6. Translation[answer] = Append(evs[n], done) /\ evs[k] = Run(answer)[k].evs
  BY <1>1 DEF Translation, Completed
<1> HIDE DEF evs, n, done
<1>7. k \in 0..n /\ evs[n] \in Seq(Event) /\ evs[k] \in Seq(Event)
  BY <1>1, <1>3 DEF n
<1>8. Continues(evs[n], evs[k])
  BY <1>1, <1>3, <1>4, <1>7, RunGrows
<1>9. /\ Translation[answer] \in Seq(Event)
      /\ Len(Translation[answer]) = Len(evs[n]) + 1
      /\ \A i \in 1..Len(evs[n]) : Translation[answer][i] = evs[n][i]
  BY <1>5, <1>6, <1>7
<1>10. Len(evs[n]) \in Nat /\ Len(evs[k]) \in Nat
  BY <1>7
<1>11. Continues(Translation[answer], evs[k])
  BY <1>8, <1>9, <1>10 DEF Continues
<1> QED
  BY <1>6, <1>9, <1>11

\* A Next that pops delivers the next event of the answer.
LEMMA PopMapped ==
  ASSUME IInv, TranslationInv, NextPop
  PROVE  Contract!Deliver
<1> DEFINE whole == Translation[body]
<1>1. /\ ending = "none" /\ queue # <<>> /\ delivered \in Seq(Event) /\ queue \in Seq(Event)
      /\ body \in Bodies /\ pos \in 0..Len(body)
  BY DEF NextPop, IInv, TypeOK, EndInv
<1>2. delivered' = Append(delivered, Head(queue)) /\ UNCHANGED <<body, ending, eof>>
  BY DEF NextPop
<1>3. whole \in Seq(Event) /\ Continues(whole, delivered \o queue)
  BY <1>1, RunContinues DEF TranslationInv
<1>4. Len(delivered) < Len(whole) /\ whole[Len(delivered) + 1] = Head(queue)
  <2> HIDE DEF whole
  <2> QED
    BY <1>1, <1>3, HeadIsDue
<1>5. delivered' # <<>>
  BY <1>1, <1>2
<1>6. Source' = whole /\ (delivered = <<>> \/ Source = whole)
  BY <1>2, <1>5 DEF Source
<1>7. Status = "running" /\ Status' = "running"
  BY <1>1, <1>2 DEF Status
<1>8. whole \in {Translation[answer] : answer \in Bodies}
  BY <1>1
<1> HIDE DEF whole
<1> QED
  BY <1>2, <1>4, <1>6, <1>7, <1>8 DEF Contract!Deliver, Source

\* An exhausted iterator delivers the last event, the Done.
LEMMA ExhaustedMapped ==
  ASSUME IInv, TranslationInv, TranslationInv', PullExhausted
  PROVE  Contract!Deliver
<1> DEFINE whole == Translation[body]
<1>1. ending = "none" /\ ~eof /\ delivered \in Seq(Event) /\ EndEvent(tr) \in Event /\ body \in Bodies
  BY TranslatorAssumption DEF PullExhausted, IInv, TypeOK, EndInv, TranslationInv
<1>2. /\ delivered' = Append(delivered, EndEvent(tr))
      /\ ending' = "done" /\ body' = body /\ eof' = eof
  BY DEF PullExhausted, End
<1>3. delivered' = whole
  BY <1>2 DEF TranslationInv
<1>4. whole # <<>> /\ Len(whole) = Len(delivered) + 1 /\ whole[Len(delivered) + 1] = EndEvent(tr)
  <2> DEFINE last == EndEvent(tr)
  <2>1. whole = Append(delivered, last) /\ last \in Event
    BY <1>1, <1>2, <1>3
  <2> HIDE DEF whole, last
  <2>2. whole # <<>> /\ Len(whole) = Len(delivered) + 1 /\ whole[Len(delivered) + 1] = last
    BY <1>1, <2>1
  <2> QED
    BY <2>2 DEF last
<1>5. Len(delivered) < Len(whole)
  <2>1. Len(delivered) \in Nat
    BY <1>1
  <2> HIDE DEF whole
  <2> QED
    BY <1>4, <2>1
<1>6. Source' = whole /\ (delivered = <<>> \/ Source = whole)
  BY <1>2, <1>3, <1>4 DEF Source
<1>7. Status = "running" /\ Status' = "running"
  BY <1>1, <1>2 DEF Status
<1>8. whole \in {Translation[answer] : answer \in Bodies}
  BY <1>1
<1> HIDE DEF whole
<1> QED
  BY <1>2, <1>4, <1>5, <1>6, <1>7, <1>8 DEF Contract!Deliver, Source

\* A Next on a closed reader reports the end of an answer that got its Done, and
\* changes nothing that counts otherwise.
LEMMA ClosedMapped ==
  ASSUME IInv, TranslationInv, NextClosed
  PROVE  Contract!End \/ UNCHANGED <<delivered, Source, Status>>
<1>1. UNCHANGED <<delivered, body, ending>> /\ eof' /\ Source' = Source
  BY DEF NextClosed, reader, Source
<1>2. CASE ending # "done" \/ eof
  BY <1>1, <1>2 DEF Status, IInv, TypeOK
<1>3. CASE ending = "done" /\ ~eof
  <2>1. Status = "running" /\ Status' = "ended"
    BY <1>1, <1>3 DEF Status
  <2>2. delivered = Translation[body] /\ body \in Bodies
    BY <1>3 DEF TranslationInv, IInv, TypeOK
  <2>3. Source = delivered
    BY <2>2 DEF Source
  <2>4. delivered \in {Translation[answer] : answer \in Bodies}
    BY <2>2
  <2> QED
    BY <1>1, <2>1, <2>3, <2>4 DEF Contract!End, Source
<1> QED
  BY <1>2, <1>3

\* An error and a Close of a stream that goes on cut it; a Close afterwards
\* changes nothing.
LEMMA CutMapped ==
  ASSUME IInv, PullError \/ \E c \in Closers : CloseRun(c)
  PROVE  Contract!Cut \/ UNCHANGED <<delivered, Source, Status>>
<1>1. UNCHANGED <<delivered, body, eof>> /\ Source' = Source
  BY DEF PullError, CloseRun, Source
<1>2. ending' = ending \/ (ending = "none" /\ ending' \in {"failed", "closed"})
  BY DEF PullError, CloseRun, End, IInv, EndInv
<1>3. CASE ending' = ending
  BY <1>1, <1>3 DEF Status
<1>4. CASE ending = "none" /\ ending' \in {"failed", "closed"}
  BY <1>1, <1>4 DEF Status, Contract!Cut, Source
<1> QED
  BY <1>2, <1>3, <1>4

\* The google reader implements StreamContract for every translator, every answer,
\* any number of goroutines calling Close and a consumer that may call Next at any
\* time: the events of one translated answer without a gap, its Done, io.EOF only
\* after all of them, nothing after the end, an error or Close.
THEOREM Refinement == Spec => ImplementsContract
<1>1. Init => Contract!Init
  BY DEF Init, Contract!Init, Source, Status
<1> DEFINE Inv == IInv /\ TranslationInv
<1>2. Inv /\ Inv' /\ [Next]_vars => [Contract!Next]_<<delivered, Source, Status>>
  <2> SUFFICES ASSUME Inv, Inv', [Next]_vars
               PROVE  Contract!Next \/ UNCHANGED <<delivered, Source, Status>>
    OBVIOUS
  <2>1. CASE NextPop
    BY <2>1, PopMapped DEF Contract!Next
  <2>2. CASE PullExhausted
    BY <2>2, ExhaustedMapped DEF Contract!Next
  <2>3. CASE NextClosed
    BY <2>3, ClosedMapped DEF Contract!Next
  <2>4. CASE PullError \/ \E c \in Closers : CloseRun(c)
    BY <2>4, CutMapped DEF Contract!Next
  <2>5. CASE NextCall \/ NextLock \/ NextPull \/ PullChunk \/ Cancel \/ Expire \/ UNCHANGED vars
    <3>1. UNCHANGED <<delivered, body, ending, eof>>
      BY <2>5 DEF NextCall, NextLock, NextPull, PullChunk, Cancel, Expire, vars, history
    <3> QED
      BY <3>1 DEF Source, Status
  <2>6. ASSUME NEW c \in Closers, CloseCall(c) PROVE UNCHANGED <<delivered, Source, Status>>
    BY <2>6 DEF CloseCall, history, Source, Status
  <2> QED
    BY <2>1, <2>2, <2>3, <2>4, <2>5, <2>6 DEF Next
<1>3. Spec => Contract!Spec
  <2> HIDE DEF Inv
  <2>1. Spec => []Inv
    BY Translated DEF Inv
  <2> QED
    BY <1>1, <1>2, <2>1, PTL DEF Spec, Contract!Spec, Source
<1> QED
  BY <1>3 DEF ImplementsContract

-----------------------------------------------------------------------------
(* What a drained stream adds up to is what Generate returns.              *)

\* The events a part can become, whatever its place, and what of events and parts
\* is compared.
GEvent ==
  [kind : {"text", "thinking", "tool_start", "tool_args", "tool_end", "done"},
   text : Texts \cup {NoText, EmptyArgs}, index : Int, call : Calls \cup {NoCall},
   usage : Usage, finish : FinishReasons \cup {NoFinish}]
GText == {e \in GEvent : e.kind = "text"}
GTools == {e \in GEvent : e.kind \in {"tool_start", "tool_args", "tool_end"}}
TextIn == [e \in GEvent |-> e.text]
NoIndex == [e \in GEvent |-> [e EXCEPT !.index = -1]]

Called == {p \in Part : p.call # NoCall}
Spoken == {p \in Part : p.text # NoText}
CallIn == [p \in Part |-> ToolCall(p.call, Marshalled(p.args))]
SpokenIn == [p \in Part |-> p.text]

GCall == [call : Calls \cup {NoCall}, args : Texts \cup {NoText, EmptyArgs}]
WholeOf == [c \in GCall |-> WholeCall(c)]
\* The events of whole calls.
CallsTold(calls) == FlattenSeq(Each(WholeOf, calls))

LEMMA PartTypes ==
  /\ TextIn \in [GEvent -> Texts \cup {NoText, EmptyArgs}] /\ NoIndex \in [GEvent -> GEvent]
  /\ SpokenIn \in [Part -> Texts \cup {NoText}] /\ CallIn \in [Part -> GCall]
  /\ WholeOf \in [GCall -> Seq(GEvent)]
<1>1. TextIn \in [GEvent -> Texts \cup {NoText, EmptyArgs}]
  BY DEF TextIn, GEvent
<1>2. NoIndex \in [GEvent -> GEvent]
  BY DEF NoIndex, GEvent
<1>3. SpokenIn \in [Part -> Texts \cup {NoText}]
  BY DEF SpokenIn, Part
<1>4. CallIn \in [Part -> GCall]
  BY DEF CallIn, Part, GCall, ToolCall, Marshalled
<1>5. NoUsage \in Usage /\ NoFinish \in FinishReasons \cup {NoFinish} /\ NoCall \in Calls \cup {NoCall}
  BY DEF Usage
<1>6. ASSUME NEW c \in GCall PROVE WholeCall(c) \in Seq(GEvent)
  <2>1. c.call \in Calls \cup {NoCall} /\ c.args \in Texts \cup {NoText, EmptyArgs}
    BY DEF GCall
  <2>0. -1 \in Int
    OBVIOUS
  <2>2. ToolStart(-1, c.call) \in GEvent
    BY <1>5, <2>0, <2>1 DEF GEvent, ToolStart, Blank
  <2>3. ToolArgs(-1, NoCall, c.args) \in GEvent
    BY <1>5, <2>0, <2>1 DEF GEvent, ToolArgs, Blank
  <2>4. ToolEnd(-1, NoCall) \in GEvent
    BY <1>5, <2>0, <2>1 DEF GEvent, ToolEnd, Blank
  <2> QED
    BY <2>2, <2>3, <2>4 DEF WholeCall
<1> QED
  BY <1>1, <1>2, <1>3, <1>4, <1>6 DEF WholeOf

\* A part becomes its text and the three events of its call.
LEMMA PartTold ==
  ASSUME NEW i \in Int, NEW p \in Part
  PROVE  /\ PartEvents(i, p) \in Seq(GEvent)
         /\ Picked(TextIn, PartEvents(i, p), GText) = IF p \in Spoken THEN <<SpokenIn[p]>> ELSE <<>>
         /\ Picked(NoIndex, PartEvents(i, p), GTools) =
              IF p \in Called THEN WholeOf[CallIn[p]] ELSE <<>>
<1> DEFINE args == Marshalled(p.args)
           said == IF p.text # NoText THEN <<TextDelta(p.text)>> ELSE <<>>
           calls == IF p.call = NoCall THEN <<>>
                    ELSE <<ToolStart(i, p.call), ToolArgs(i, NoCall, args), ToolEnd(i, NoCall)>>
<1>1. /\ p.text \in Texts \cup {NoText} /\ p.call \in Calls \cup {NoCall}
      /\ args \in Texts \cup {NoText, EmptyArgs}
  BY DEF Part, Marshalled
<1>2. NoUsage \in Usage /\ NoFinish \in FinishReasons \cup {NoFinish} /\ NoCall \in Calls \cup {NoCall}
  BY DEF Usage
<1>3. PartEvents(i, p) = said \o calls
  BY DEF PartEvents
<1> HIDE DEF args
<1>4. TextDelta(p.text) \in GText /\ TextDelta(p.text) \in GEvent /\ TextDelta(p.text).text = p.text
  BY <1>1, <1>2 DEF GText, GEvent, TextDelta, Blank
<1>5. /\ ToolStart(i, p.call) \in GTools /\ ToolStart(i, p.call) \in GEvent
      /\ [ToolStart(i, p.call) EXCEPT !.index = -1] = ToolStart(-1, p.call)
  BY <1>1, <1>2 DEF GTools, GEvent, ToolStart, Blank
<1>6. /\ ToolArgs(i, NoCall, args) \in GTools /\ ToolArgs(i, NoCall, args) \in GEvent
      /\ [ToolArgs(i, NoCall, args) EXCEPT !.index = -1] = ToolArgs(-1, NoCall, args)
  BY <1>1, <1>2 DEF GTools, GEvent, ToolArgs, Blank
<1>7. /\ ToolEnd(i, NoCall) \in GTools /\ ToolEnd(i, NoCall) \in GEvent
      /\ [ToolEnd(i, NoCall) EXCEPT !.index = -1] = ToolEnd(-1, NoCall)
  BY <1>1, <1>2 DEF GTools, GEvent, ToolEnd, Blank
<1>8. \A e : ~(e \in GText /\ e \in GTools)
  BY DEF GText, GTools
<1>9. said \in Seq(GEvent) /\ \A k \in DOMAIN said : said[k] \in GText
  BY <1>4
<1>10. calls \in Seq(GEvent) /\ \A k \in DOMAIN calls : calls[k] \in GTools
  BY <1>5, <1>6, <1>7
<1>11. Each(TextIn, said) = IF p \in Spoken THEN <<SpokenIn[p]>> ELSE <<>>
  <2>1. Each(TextIn, <<TextDelta(p.text)>>) = <<TextIn[TextDelta(p.text)]>> /\ Each(TextIn, <<>>) = <<>>
    BY EachOne DEF Each
  <2>2. TextIn[TextDelta(p.text)] = SpokenIn[p]
    BY <1>4 DEF TextIn, SpokenIn
  <2> QED
    BY <2>1, <2>2 DEF Spoken
<1>12. Each(NoIndex, calls) = IF p \in Called THEN WholeOf[CallIn[p]] ELSE <<>>
  <2>1. CASE p.call = NoCall
    BY <2>1 DEF Each, Called
  <2>2. CASE p.call # NoCall
    <3>1. CallIn[p] \in GCall /\ CallIn[p].call = p.call /\ CallIn[p].args = args
      BY <1>1 DEF CallIn, GCall, ToolCall, args
    <3>2. WholeOf[CallIn[p]] = <<ToolStart(-1, p.call), ToolArgs(-1, NoCall, args), ToolEnd(-1, NoCall)>>
      BY <3>1 DEF WholeOf, WholeCall
    <3>3. calls = <<ToolStart(i, p.call), ToolArgs(i, NoCall, args), ToolEnd(i, NoCall)>>
      BY <2>2
    <3>4. /\ NoIndex[ToolStart(i, p.call)] = ToolStart(-1, p.call)
          /\ NoIndex[ToolArgs(i, NoCall, args)] = ToolArgs(-1, NoCall, args)
          /\ NoIndex[ToolEnd(i, NoCall)] = ToolEnd(-1, NoCall)
      BY <1>5, <1>6, <1>7 DEF NoIndex
    <3>5. Each(NoIndex, calls) =
            <<ToolStart(-1, p.call), ToolArgs(-1, NoCall, args), ToolEnd(-1, NoCall)>>
      BY <3>3, <3>4, EachOfThree
    <3> QED
      BY <2>2, <3>2, <3>5 DEF Called
  <2> QED
    BY <2>1, <2>2
<1> HIDE DEF said, calls
<1>13. /\ Kept(said, GText) = said /\ Kept(calls, GTools) = calls
       /\ Kept(said, GTools) = <<>> /\ Kept(calls, GText) = <<>>
  BY <1>8, <1>9, <1>10, KeptWhole, KeptNothing
<1>14. Each(NoIndex, <<>>) = <<>> /\ Each(TextIn, <<>>) = <<>>
  BY DEF Each
<1>15. PickedBoth(TextIn, said, calls, GText) /\ PickedBoth(NoIndex, said, calls, GTools)
  BY <1>9, <1>10, PickedConcat
<1>16. Each(TextIn, said) \in Seq(Texts \cup {NoText, EmptyArgs}) /\ Each(NoIndex, calls) \in Seq(GEvent)
  BY <1>9, <1>10, PartTypes, EachType
<1>17. Each(TextIn, said) \o <<>> = Each(TextIn, said) /\ <<>> \o Each(NoIndex, calls) = Each(NoIndex, calls)
  BY <1>16, ConcatEmptySeq
<1>18. /\ Picked(TextIn, said \o calls, GText) = Each(TextIn, said)
       /\ Picked(NoIndex, said \o calls, GTools) = Each(NoIndex, calls)
  BY <1>13, <1>14, <1>15, <1>17, Zenon DEF PickedBoth, Picked
<1>19. said \o calls \in Seq(GEvent)
  BY <1>9, <1>10
<1> QED
  BY <1>3, <1>11, <1>12, <1>18, <1>19


\* One call more, and the calls of two sequences.
LEMMA CallsToldMore ==
  ASSUME NEW s \in Seq(GCall), NEW t \in Seq(GCall), NEW c \in GCall
  PROVE  /\ CallsTold(s) \in Seq(GEvent) /\ CallsTold(<<>>) = <<>>
         /\ CallsTold(Append(s, c)) = CallsTold(s) \o WholeOf[c]
         /\ CallsTold(s \o t) = CallsTold(s) \o CallsTold(t)
<1>1. /\ Each(WholeOf, s) \in Seq(Seq(GEvent)) /\ Each(WholeOf, t) \in Seq(Seq(GEvent))
      /\ WholeOf[c] \in Seq(GEvent)
  BY PartTypes, EachType
<1>2. Each(WholeOf, <<>>) = <<>>
  BY DEF Each
<1>3. EachLonger(WholeOf, s, c) /\ EachOfBoth(WholeOf, s, t)
  BY EachAppend, EachConcat
<1>4. FlattenLonger(Each(WholeOf, s), WholeOf[c]) /\ FlattenBoth(Each(WholeOf, s), Each(WholeOf, t))
  BY <1>1, FlattenAppend, FlattenConcat
<1>5. CallsTold(s) \in Seq(GEvent)
  BY <1>1, FlattenType DEF CallsTold
<1>6. CallsTold(<<>>) = <<>>
  BY <1>2, FlattenEmpty, Zenon DEF CallsTold
<1>7. CallsTold(Append(s, c)) = CallsTold(s) \o WholeOf[c]
  BY <1>3, <1>4, Zenon DEF CallsTold, EachLonger, FlattenLonger
<1>8. CallsTold(s \o t) = CallsTold(s) \o CallsTold(t)
  BY <1>3, <1>4, Zenon DEF CallsTold, EachOfBoth, FlattenBoth
<1> QED
  BY <1>5, <1>6, <1>7, <1>8

\* What the parts of a chunk become, and what of it is compared.
PartSeqs(parts) == [k \in DOMAIN parts |-> PartEvents(k - 1, parts[k])]
Told(parts) == FlattenSeq(PartSeqs(parts))
PartsTold(evs, parts) ==
  /\ Picked(TextIn, evs, GText) = Picked(SpokenIn, parts, Spoken)
  /\ Picked(NoIndex, evs, GTools) = CallsTold(Picked(CallIn, parts, Called))

LEMMA NothingTold == PartsTold(<<>>, <<>>)
<1>1. /\ Picked(TextIn, <<>>, GText) = <<>> /\ Picked(SpokenIn, <<>>, Spoken) = <<>>
      /\ Picked(NoIndex, <<>>, GTools) = <<>> /\ Picked(CallIn, <<>>, Called) = <<>>
  BY PickedEmpty
<1>2. CallsTold(<<>>) = <<>>
  <2>1. Each(WholeOf, <<>>) = <<>>
    BY DEF Each
  <2> QED
    BY <2>1, FlattenEmpty, Zenon DEF CallsTold
<1> QED
  BY <1>1, <1>2, Zenon DEF PartsTold

\* Both sums go on together.
LEMMA PartsToldBoth ==
  ASSUME NEW evs \in Seq(GEvent), NEW parts \in Seq(Part), PartsTold(evs, parts),
         NEW more \in Seq(GEvent), NEW others \in Seq(Part), PartsTold(more, others)
  PROVE  PartsTold(evs \o more, parts \o others)
<1>1. /\ PickedBoth(TextIn, evs, more, GText) /\ PickedBoth(NoIndex, evs, more, GTools)
      /\ PickedBoth(SpokenIn, parts, others, Spoken) /\ PickedBoth(CallIn, parts, others, Called)
  BY PickedConcat
<1>2. Picked(CallIn, parts, Called) \in Seq(GCall) /\ Picked(CallIn, others, Called) \in Seq(GCall)
  BY PartTypes, PickedType
<1> DEFINE a == Picked(CallIn, parts, Called)
           b == Picked(CallIn, others, Called)
<1>3. CallsTold(a \o b) = CallsTold(a) \o CallsTold(b)
  <2>1. [call |-> NoCall, args |-> NoText] \in GCall
    BY DEF GCall
  <2> HIDE DEF a, b
  <2> QED
    BY <1>2, <2>1, CallsToldMore DEF a, b
<1> HIDE DEF a, b
<1>4. PartsTold(evs, parts) /\ PartsTold(more, others)
  OBVIOUS
<1> QED
  BY <1>1, <1>3, <1>4, Zenon DEF PartsTold, PickedBoth, a, b

\* A part has the events of its call and its text.
LEMMA OnePartTold ==
  ASSUME NEW i \in Int, NEW p \in Part
  PROVE  PartsTold(PartEvents(i, p), <<p>>)
<1>1. Append(<<>>, p) = <<p>> /\ <<>> \in Seq(Part)
  OBVIOUS
<1>2. PickedLonger(SpokenIn, <<>>, p, Spoken) /\ PickedLonger(CallIn, <<>>, p, Called)
  BY <1>1, PickedAppend
<1>3. Picked(SpokenIn, <<>>, Spoken) = <<>> /\ Picked(CallIn, <<>>, Called) = <<>>
  BY PickedEmpty
<1>4. /\ Picked(SpokenIn, <<p>>, Spoken) = IF p \in Spoken THEN Append(<<>>, SpokenIn[p]) ELSE <<>>
      /\ Picked(CallIn, <<p>>, Called) = IF p \in Called THEN Append(<<>>, CallIn[p]) ELSE <<>>
  BY <1>1, <1>2, <1>3, Zenon DEF PickedLonger
<1>5. CallIn[p] \in GCall /\ <<>> \in Seq(GCall) /\ WholeOf[CallIn[p]] \in Seq(GEvent)
  BY PartTypes
<1>6. CallsTold(<<>>) = <<>> /\ CallsTold(Append(<<>>, CallIn[p])) = <<>> \o WholeOf[CallIn[p]]
  BY <1>5, CallsToldMore
<1>7. <<>> \o WholeOf[CallIn[p]] = WholeOf[CallIn[p]]
  BY <1>5, ConcatEmptySeq
<1>8. Append(<<>>, SpokenIn[p]) = <<SpokenIn[p]>>
  OBVIOUS
<1>9. Picked(TextIn, PartEvents(i, p), GText) = Picked(SpokenIn, <<p>>, Spoken)
  BY <1>4, <1>8, PartTold
<1>10. Picked(NoIndex, PartEvents(i, p), GTools) = CallsTold(Picked(CallIn, <<p>>, Called))
  <2>1. CASE p \in Called
    BY <1>4, <1>6, <1>7, <2>1, PartTold
  <2>2. CASE p \notin Called
    BY <1>4, <1>6, <2>2, PartTold
  <2> QED
    BY <2>1, <2>2
<1> QED
  BY <1>9, <1>10 DEF PartsTold

\* Of any number of parts in one chunk.
LEMMA AllPartsTold ==
  ASSUME NEW parts \in Seq(Part)
  PROVE  Told(parts) \in Seq(GEvent) /\ PartsTold(Told(parts), parts)
<1> DEFINE P == {s \in Seq(Part) : Told(s) \in Seq(GEvent) /\ PartsTold(Told(s), s)}
<1>1. <<>> \in P
  <2>1. PartSeqs(<<>>) = <<>>
    BY DEF PartSeqs
  <2>2. Told(<<>>) = <<>>
    BY <2>1, FlattenEmpty, Zenon DEF Told
  <2>3. <<>> \in Seq(GEvent) /\ <<>> \in Seq(Part)
    OBVIOUS
  <2> QED
    BY <2>2, <2>3, NothingTold
<1>2. ASSUME NEW s \in Seq(Part), NEW p \in Part, s \in P PROVE Append(s, p) \in P
  <2>1. Len(s) \in Nat /\ Append(s, p) \in Seq(Part) /\ s \o <<p>> = Append(s, p) /\ <<p>> \in Seq(Part)
    OBVIOUS
  <2>2. \A t \in Seq(Part) : PartSeqs(t) \in Seq(Seq(GEvent)) /\ Len(PartSeqs(t)) = Len(t)
    <3> SUFFICES ASSUME NEW t \in Seq(Part)
                 PROVE  PartSeqs(t) \in Seq(Seq(GEvent)) /\ Len(PartSeqs(t)) = Len(t)
      OBVIOUS
    <3>1. \A k \in 1..Len(t) : t[k] \in Part /\ k - 1 \in Int
      OBVIOUS
    <3>2. \A k \in 1..Len(t) : PartEvents(k - 1, t[k]) \in Seq(GEvent)
      BY <3>1, PartTold
    <3>3. PartSeqs(t) \in [1..Len(t) -> Seq(GEvent)] /\ Len(t) \in Nat
      BY <3>2 DEF PartSeqs
    <3> QED
      BY <3>3
  <2> DEFINE last == PartEvents(Len(s), p)
  <2>3. last \in Seq(GEvent) /\ PartsTold(last, <<p>>)
    BY <2>1, PartTold, OnePartTold
  <2>4. PartSeqs(Append(s, p)) = Append(PartSeqs(s), last)
    <3> DEFINE t == Append(s, p)
    <3>1. /\ t \in Seq(Part) /\ Len(t) = Len(s) + 1 /\ t[Len(s) + 1] = p
          /\ \A k \in 1..Len(s) : t[k] = s[k]
      OBVIOUS
    <3> HIDE DEF t, last
    <3>2. /\ Len(PartSeqs(t)) = Len(s) + 1 /\ Len(PartSeqs(s)) = Len(s)
          /\ PartSeqs(t) \in Seq(Seq(GEvent)) /\ PartSeqs(s) \in Seq(Seq(GEvent))
      BY <2>2, <3>1
    <3>3. Append(PartSeqs(s), last) \in Seq(Seq(GEvent)) /\ Len(Append(PartSeqs(s), last)) = Len(s) + 1
          /\ Append(PartSeqs(s), last)[Len(s) + 1] = last
          /\ \A k \in 1..Len(s) : Append(PartSeqs(s), last)[k] = PartSeqs(s)[k]
      BY <2>3, <3>2
    <3>4. ASSUME NEW k \in 1..(Len(s) + 1) PROVE PartSeqs(t)[k] = Append(PartSeqs(s), last)[k]
      <4>1. PartSeqs(t)[k] = PartEvents(k - 1, t[k])
        BY <3>1 DEF PartSeqs
      <4>2. CASE k = Len(s) + 1
        BY <2>1, <3>1, <3>3, <4>1, <4>2 DEF last
      <4>3. CASE k # Len(s) + 1
        <5>1. k \in 1..Len(s)
          BY <2>1, <4>3
        <5>2. PartSeqs(s)[k] = PartEvents(k - 1, s[k])
          BY <5>1 DEF PartSeqs
        <5> QED
          BY <3>1, <3>3, <4>1, <5>1, <5>2
      <4> QED
        BY <4>2, <4>3
    <3> QED
      BY <3>2, <3>3, <3>4, SeqEqual DEF t
  <2> HIDE DEF last
  <2>5. FlattenLonger(PartSeqs(s), last)
    BY <2>2, <2>3, FlattenAppend
  <2>6. Told(Append(s, p)) = Told(s) \o last
    BY <2>4, <2>5, Zenon DEF Told, FlattenLonger
  <2>7. Told(s) \in Seq(GEvent) /\ PartsTold(Told(s), s)
    BY <1>2
  <2>8. PartsTold(Told(s) \o last, s \o <<p>>)
    BY <2>1, <2>3, <2>7, PartsToldBoth
  <2>9. Told(s) \o last \in Seq(GEvent)
    BY <2>3, <2>7
  <2> QED
    BY <2>1, <2>6, <2>8, <2>9
<1>3. parts \in P
  <2> HIDE DEF P
  <2> QED
    BY <1>1, <1>2, BuiltUp
<1> QED
  BY <1>3


\* The reader translates with the adapter's own functions.
LEMMA OwnTranslator ==
  ASSUME NEW st \in TrState, NEW c \in Chunk
  PROVE  /\ c \in GoogleChunk /\ c.parts \in Seq(Part)
         /\ ChunkEvents(st, c) = Told(c.parts) /\ ChunkAfter(st, c) = GoogleAfter(st, c)
<1>1. c \in GoogleChunk /\ ChunkEvents(st, c) = GoogleEvents(st, c)
      /\ ChunkAfter(st, c) = GoogleAfter(st, c)
  BY AdapterAssumption
<1>2. c.parts \in Seq(Part)
  BY <1>1 DEF GoogleChunk, AnyGoogleChunk
<1> QED
  BY <1>1, <1>2 DEF GoogleEvents, Told, PartSeqs

\* A chunk after others, with what they left.
LEMMA RunStep ==
  ASSUME NEW answer \in Bodies, NEW k \in 1..Len(answer)
  PROVE  /\ answer[k] \in GoogleChunk /\ answer[k].parts \in Seq(Part)
         /\ Run(answer)[k].evs = Run(answer)[k - 1].evs \o Told(answer[k].parts)
         /\ Run(answer)[k].st = GoogleAfter(Run(answer)[k - 1].st, answer[k])
<1> DEFINE r == Run(answer)
           c == answer[k]
<1>1. answer \in Seq(Chunk) /\ Len(answer) \in Nat
  BY TranslatorAssumption
<1>2. k - 1 \in 0..Len(answer)
  BY <1>1
<1>3. r[k - 1] \in Acc /\ c \in Chunk /\ r[k] = Extended(r[k - 1], c)
  BY <1>2, RunSteps
<1> HIDE DEF r, c
<1>4. r[k - 1].st \in TrState
  BY <1>3 DEF Acc
<1>5. c.parts \in Seq(Part) /\ c \in GoogleChunk
      /\ ChunkEvents(r[k - 1].st, c) = Told(c.parts)
      /\ ChunkAfter(r[k - 1].st, c) = GoogleAfter(r[k - 1].st, c)
  BY <1>3, <1>4, OwnTranslator
<1>6. r[k].evs = r[k - 1].evs \o ChunkEvents(r[k - 1].st, c) /\ r[k].st = ChunkAfter(r[k - 1].st, c)
  BY <1>3, ExtendedParts
<1> QED
  BY <1>5, <1>6 DEF r, c

\* The events of all chunks tell the parts of the whole answer.
LEMMA AnswerTold ==
  ASSUME NEW answer \in Bodies
  PROVE  /\ Run(answer)[Len(answer)].evs \in Seq(GEvent)
         /\ WholeAnswer(answer).parts \in Seq(Part)
         /\ PartsTold(Run(answer)[Len(answer)].evs, WholeAnswer(answer).parts)
<1> DEFINE n == Len(answer)
           r == Run(answer)
           seqs == [k \in DOMAIN answer |-> answer[k].parts]
<1>1. answer \in Seq(Chunk) /\ n \in Nat /\ DOMAIN answer = 1..n
  <2>1. answer \in Seq(Chunk)
    BY TranslatorAssumption
  <2> QED
    BY <2>1
<1>2. \A k \in 1..n : answer[k].parts \in Seq(Part) /\ r[k].evs = r[k - 1].evs \o Told(answer[k].parts)
  BY RunStep
<1>3. r[0].evs = <<>>
  <2>1. r[0] = Start
    BY RunSteps
  <2> QED
    BY <2>1 DEF Start
<1>4. seqs \in Seq(Seq(Part)) /\ Len(seqs) = n /\ \A k \in 1..n : seqs[k] = answer[k].parts
  <2>1. seqs \in [1..n -> Seq(Part)]
    BY <1>1, <1>2
  <2> QED
    BY <1>1, <2>1
<1> HIDE DEF n, r
<1>5. PICK f \in [0..Len(seqs) -> Seq(Part)] :
        /\ f[0] = <<>>
        /\ \A k \in 1..Len(seqs) : f[k] = f[k - 1] \o seqs[k]
        /\ FlattenSeq(seqs) = f[Len(seqs)]
  <2> HIDE DEF seqs
  <2> QED
    BY <1>4, Flattened
<1> DEFINE P == {k \in 0..n : r[k].evs \in Seq(GEvent) /\ PartsTold(r[k].evs, f[k])}
<1>6. 0 \in P
  <2>1. <<>> \in Seq(GEvent)
    OBVIOUS
  <2> QED
    BY <1>1, <1>3, <1>5, <2>1, NothingTold
<1>7. ASSUME NEW k \in 0..n, k # n, k \in P PROVE k + 1 \in P
  <2>1. k + 1 \in 1..n /\ k + 1 \in 0..n /\ (k + 1) - 1 = k
    BY <1>1, <1>7
  <2> DEFINE parts == answer[k + 1].parts
  <2>2. parts \in Seq(Part) /\ r[k + 1].evs = r[k].evs \o Told(parts)
    BY <1>2, <2>1
  <2>3. f[k] \in Seq(Part) /\ f[k + 1] = f[k] \o parts
    BY <1>4, <1>5, <2>1
  <2>4. r[k].evs \in Seq(GEvent) /\ PartsTold(r[k].evs, f[k])
    BY <1>7
  <2> HIDE DEF parts
  <2>5. Told(parts) \in Seq(GEvent) /\ PartsTold(Told(parts), parts)
    BY <2>2, AllPartsTold
  <2>6. PartsTold(r[k].evs \o Told(parts), f[k] \o parts) /\ r[k].evs \o Told(parts) \in Seq(GEvent)
    BY <2>2, <2>3, <2>4, <2>5, PartsToldBoth
  <2> QED
    BY <2>1, <2>2, <2>3, <2>6
<1>8. \A k \in 0..n : k \in P
  <2> HIDE DEF P
  <2> QED
    BY <1>1, <1>6, <1>7, UpTo
<1>9. n \in 0..n /\ f[n] \in Seq(Part)
  BY <1>1, <1>4, <1>5
<1>10. WholeAnswer(answer).parts = FlattenSeq(seqs)
  BY DEF WholeAnswer
<1> QED
  BY <1>4, <1>5, <1>8, <1>9, <1>10 DEF n, r


LEMMA EventTypes == K1Event \subseteq GEvent
<1>1. Indexes \cup {-1} \subseteq Int
  BY IndexAssumption
<1> QED
  BY <1>1 DEF K1Event, GEvent

\* The events of an answer, and the Done after them.
LEMMA TranslationParts ==
  ASSUME NEW answer \in Bodies
  PROVE  LET last == Run(answer)[Len(answer)] IN
         /\ last.evs \in Seq(K1Event) /\ last.st \in GoogleState
         /\ GoogleDone(last.st) \in K1Event
         /\ Translation[answer] = Append(last.evs, GoogleDone(last.st))
<1> DEFINE last == Run(answer)[Len(answer)]
<1>1. answer \in Seq(Chunk) /\ Len(answer) \in Nat
  BY TranslatorAssumption
<1>2. last \in Acc
  BY <1>1, RunSteps
<1>3. Translation[answer] = Append(last.evs, EndEvent(last.st))
  BY DEF Translation, Completed
<1> HIDE DEF last
<1>4. last.evs \in Seq(Event) /\ last.st \in TrState
  BY <1>2 DEF Acc
<1>5. EndEvent(last.st) = GoogleDone(last.st) /\ EndEvent(last.st) \in Event
  BY <1>4, AdapterAssumption, TranslatorAssumption
<1>6. Event = K1Event /\ TrState = GoogleState
  BY AdapterAssumption
<1> QED
  BY <1>3, <1>4, <1>5, <1>6 DEF last

LEMMA DoneKept ==
  ASSUME NEW st
  PROVE  /\ GoogleDone(st).kind = "done"
         /\ GoogleDone(st).finish = st.lastFinish
         /\ GoogleDone(st).usage = IF st.lastUsage = NoUsage THEN UnknownUsage ELSE st.lastUsage
  BY DEF GoogleDone, Done, Blank

\* The texts of the answer, in order.
LEMMA TextTold ==
  ASSUME NEW answer \in Bodies
  PROVE  Joined(Translation[answer], TextEvents) = TextsOf(WholeAnswer(answer))
<1> DEFINE last == Run(answer)[Len(answer)]
           evs == last.evs
           done == GoogleDone(last.st)
           parts == WholeAnswer(answer).parts
<1>1. /\ evs \in Seq(K1Event) /\ done \in K1Event /\ Translation[answer] = Append(evs, done)
      /\ evs \in Seq(GEvent) /\ parts \in Seq(Part) /\ PartsTold(evs, parts) /\ done.kind = "done"
  BY TranslationParts, AnswerTold, DoneKept
<1> HIDE DEF last, evs, done
<1>2. Kept(Append(evs, done), TextEvents) = Kept(evs, GText)
  <2>1. KeptLonger(evs, done, TextEvents) /\ done \notin TextEvents
    BY <1>1, KeptAppend DEF TextEvents
  <2>2. \A x \in K1Event : x \in TextEvents <=> x \in GText
    BY EventTypes DEF TextEvents, GText
  <2>3. Kept(evs, TextEvents) = Kept(evs, GText)
    BY <1>1, <2>2, KeptSame
  <2> QED
    BY <2>1, <2>3 DEF KeptLonger
<1>3. Joined(Append(evs, done), TextEvents) = Picked(TextIn, evs, GText)
  <2> DEFINE kept == Kept(evs, GText)
  <2>1. kept \in Seq(GEvent)
    BY <1>1, KeptType
  <2>2. Joined(Append(evs, done), TextEvents) = [k \in DOMAIN kept |-> kept[k].text]
    BY <1>2 DEF Joined, Mapped
  <2> HIDE DEF kept
  <2>3. [k \in DOMAIN kept |-> kept[k].text] = Each(TextIn, kept)
    <3>1. \A k \in DOMAIN kept : kept[k] \in GEvent
      BY <2>1
    <3> QED
      BY <3>1 DEF Each, TextIn
  <2> QED
    BY <2>2, <2>3 DEF Picked, kept
<1>4. TextsOf(WholeAnswer(answer)) = Picked(SpokenIn, parts, Spoken)
  <2> DEFINE wanted == {x \in ToSet(parts) : x.text # NoText}
             kept == Kept(parts, Spoken)
  <2>1. TextsOf(WholeAnswer(answer)) = [k \in DOMAIN Kept(parts, wanted) |-> Kept(parts, wanted)[k].text]
    BY DEF TextsOf, Mapped, Where
  <2> HIDE DEF parts
  <2>2. \A x \in Part : x \in ToSet(parts) => (x \in wanted <=> x \in Spoken)
    BY DEF Spoken
  <2> HIDE DEF wanted
  <2>3. Kept(parts, wanted) = kept /\ kept \in Seq(Part)
    <3>1. parts \in Seq(Part)
      BY <1>1
    <3>2. Kept(parts, wanted) = kept
      BY <2>2, <3>1, KeptRange
    <3>3. kept \in Seq(Part)
      BY <3>1, KeptType
    <3> QED
      BY <3>2, <3>3
  <2> HIDE DEF kept
  <2>4. [k \in DOMAIN kept |-> kept[k].text] = Each(SpokenIn, kept)
    <3>1. \A k \in DOMAIN kept : kept[k] \in Part
      BY <2>3
    <3> QED
      BY <3>1 DEF Each, SpokenIn
  <2>5. TextsOf(WholeAnswer(answer)) = Each(SpokenIn, kept)
    BY <2>1, <2>3, <2>4
  <2> QED
    BY <2>5 DEF Picked, kept
<1> HIDE DEF parts
<1>5. Picked(TextIn, evs, GText) = Picked(SpokenIn, parts, Spoken)
  BY <1>1 DEF PartsTold
<1> QED
  BY <1>1, <1>3, <1>4, <1>5

\* The calls of the answer, each told by its Start, its arguments and its End.
LEMMA CallTold ==
  ASSUME NEW answer \in Bodies
  PROVE  CallsStreamed(Translation[answer])
           = FlattenSeq(Mapped(WholeCall, ToToolCalls(WholeAnswer(answer))))
<1> DEFINE last == Run(answer)[Len(answer)]
           evs == last.evs
           done == GoogleDone(last.st)
           parts == WholeAnswer(answer).parts
<1>1. /\ evs \in Seq(K1Event) /\ done \in K1Event /\ Translation[answer] = Append(evs, done)
      /\ evs \in Seq(GEvent) /\ parts \in Seq(Part) /\ PartsTold(evs, parts) /\ done.kind = "done"
  BY TranslationParts, AnswerTold, DoneKept
<1> HIDE DEF last, evs, done
<1>2. Kept(Append(evs, done), ToolEvents) = Kept(evs, GTools)
  <2>1. KeptLonger(evs, done, ToolEvents) /\ done \notin ToolEvents
    BY <1>1, KeptAppend DEF ToolEvents
  <2>2. \A x \in K1Event : x \in ToolEvents <=> x \in GTools
    BY EventTypes DEF ToolEvents, GTools
  <2>3. Kept(evs, ToolEvents) = Kept(evs, GTools)
    BY <1>1, <2>2, KeptSame
  <2> QED
    BY <2>1, <2>3 DEF KeptLonger
<1>3. CallsStreamed(Append(evs, done)) = Picked(NoIndex, evs, GTools)
  <2> DEFINE kept == Kept(evs, GTools)
  <2>1. kept \in Seq(GEvent)
    BY <1>1, KeptType
  <2>2. CallsStreamed(Append(evs, done)) = [k \in DOMAIN kept |-> [kept[k] EXCEPT !.index = -1]]
    BY <1>2 DEF CallsStreamed, Mapped
  <2> HIDE DEF kept
  <2>3. [k \in DOMAIN kept |-> [kept[k] EXCEPT !.index = -1]] = Each(NoIndex, kept)
    <3>1. \A k \in DOMAIN kept : kept[k] \in GEvent
      BY <2>1
    <3> QED
      BY <3>1 DEF Each, NoIndex
  <2> QED
    BY <2>2, <2>3 DEF Picked, kept
<1>4. ToToolCalls(WholeAnswer(answer)) = Picked(CallIn, parts, Called)
  <2> DEFINE wanted == {x \in ToSet(parts) : x.call # NoCall}
             kept == Kept(parts, Called)
             all == Kept(parts, wanted)
  <2>1. ToToolCalls(WholeAnswer(answer))
          = [k \in DOMAIN all |-> ToolCall(all[k].call, Marshalled(all[k].args))]
    BY DEF ToToolCalls, Mapped, Where
  <2> HIDE DEF parts
  <2>2. \A x \in Part : x \in ToSet(parts) => (x \in wanted <=> x \in Called)
    BY DEF Called
  <2> HIDE DEF wanted
  <2>3. all = kept /\ kept \in Seq(Part)
    <3>1. parts \in Seq(Part)
      BY <1>1
    <3>2. all = kept
      BY <2>2, <3>1, KeptRange
    <3>3. kept \in Seq(Part)
      BY <3>1, KeptType
    <3> QED
      BY <3>2, <3>3
  <2> HIDE DEF kept, all
  <2>4. [k \in DOMAIN kept |-> ToolCall(kept[k].call, Marshalled(kept[k].args))] = Each(CallIn, kept)
    <3>1. \A k \in DOMAIN kept : kept[k] \in Part
      BY <2>3
    <3> QED
      BY <3>1 DEF Each, CallIn
  <2>5. ToToolCalls(WholeAnswer(answer)) = Each(CallIn, kept)
    BY <2>1, <2>3, <2>4
  <2> QED
    BY <2>5 DEF Picked, kept
<1> HIDE DEF parts
<1> DEFINE calls == Picked(CallIn, parts, Called)
<1>5. calls \in Seq(GCall)
  BY <1>1, PartTypes, PickedType
<1>6. Picked(NoIndex, evs, GTools) = CallsTold(calls)
  BY <1>1 DEF PartsTold
<1> HIDE DEF calls
<1>7. Mapped(WholeCall, calls) = Each(WholeOf, calls)
  <2>1. \A k \in DOMAIN calls : calls[k] \in GCall
    BY <1>5
  <2>2. Mapped(WholeCall, calls) = [k \in DOMAIN calls |-> WholeCall(calls[k])]
    BY DEF Mapped
  <2> QED
    BY <2>1, <2>2 DEF Each, WholeOf
<1> QED
  BY <1>1, <1>3, <1>4, <1>6, <1>7 DEF CallsTold, calls


\* What a chunk leaves in the reader.
LEMMA AfterFields ==
  ASSUME NEW st, NEW c
  PROVE  /\ GoogleAfter(st, c).lastFinish
              = IF c.candidate /\ c.finish # NoFinish THEN GMapFinishReason(c.finish) ELSE st.lastFinish
         /\ GoogleAfter(st, c).lastUsage
              = IF c.candidate /\ c.usage # NoUsage THEN c.usage ELSE st.lastUsage
<1>1. CASE c.candidate
  BY <1>1 DEF GoogleAfter
<1>2. CASE ~c.candidate
  BY <1>2 DEF GoogleAfter
<1> QED
  BY <1>1, <1>2

\* The reader keeps the last finish reason, as the whole answer does, which has a
\* candidate if it has a finish reason.
LEMMA FinishTold ==
  ASSUME NEW answer \in Bodies
  PROVE  LET finish == WholeAnswer(answer).finish IN
         /\ Run(answer)[Len(answer)].st.lastFinish
              = IF finish = NoFinish THEN NoFinish ELSE GMapFinishReason(finish)
         /\ finish # NoFinish => WholeAnswer(answer).candidate
<1> DEFINE n == Len(answer)
           r == Run(answer)
           fs == [k \in DOMAIN answer |-> answer[k].finish]
           T == {x \in ToSet(fs) : x # NoFinish}
           kept == Kept(fs, T)
           v == [k \in 0..n |-> r[k].st.lastFinish]
           g == [x \in GWireFinish |-> GMapFinishReason(x)]
           finish == WholeAnswer(answer).finish
<1>1. n \in Nat /\ DOMAIN answer = 1..n
  <2>1. answer \in Seq(Chunk)
    BY TranslatorAssumption
  <2> QED
    BY <2>1
<1>2. \A k \in 1..n : /\ answer[k] \in GoogleChunk
                      /\ r[k].st = GoogleAfter(r[k - 1].st, answer[k])
  BY RunStep
<1>3. \A c \in GoogleChunk : c.finish \in GWireFinish /\ (c.finish # NoFinish => c.candidate)
  BY DEF GoogleChunk, AnyGoogleChunk
<1>4. fs \in Seq(GWireFinish) /\ Len(fs) = n /\ \A k \in 1..n : fs[k] = answer[k].finish
  <2>1. fs \in [1..n -> GWireFinish]
    BY <1>1, <1>2, <1>3
  <2> QED
    BY <1>1, <2>1
<1>5. v[0] = NoFinish
  <2>1. r[0] = Start /\ TrInit = GoogleInit /\ 0 \in 0..n
    BY <1>1, RunSteps, AdapterAssumption
  <2> QED
    BY <2>1 DEF Start, GoogleInit
<1>6. finish = IF kept = <<>> THEN NoFinish ELSE Last(kept)
  BY DEF WholeAnswer, LastOr, FieldOf, NotEmpty, Where, Mapped
<1>7. \A k \in 1..n : fs[k] \in T <=> answer[k].finish # NoFinish
  <2>1. \A k \in 1..n : fs[k] \in ToSet(fs)
    BY <1>1 DEF ToSet
  <2> QED
    BY <1>4, <2>1
<1>8. \A x \in T : x # NoFinish /\ \E k \in 1..n : x = answer[k].finish
  BY <1>1 DEF ToSet
<1>9. \A k \in 1..n : v[k] = r[k].st.lastFinish /\ v[k - 1] = r[k - 1].st.lastFinish
  <2>1. \A k \in 1..n : k \in 0..n /\ k - 1 \in 0..n
    BY <1>1
  <2> QED
    BY <2>1
<1> HIDE DEF n, r, fs, T, kept, v, finish
<1>10. ASSUME NEW k \in 1..Len(fs) PROVE v[k] = IF fs[k] \in T THEN g[fs[k]] ELSE v[k - 1]
  <2>1. k \in 1..n
    BY <1>4
  <2> DEFINE c == answer[k]
  <2>2. /\ c \in GoogleChunk /\ r[k].st = GoogleAfter(r[k - 1].st, c) /\ fs[k] = c.finish
        /\ (fs[k] \in T <=> c.finish # NoFinish)
        /\ v[k] = r[k].st.lastFinish /\ v[k - 1] = r[k - 1].st.lastFinish
    BY <1>2, <1>4, <1>7, <1>9, <2>1
  <2>3. c.finish \in GWireFinish /\ (c.finish # NoFinish => c.candidate)
    BY <1>3, <2>2
  <2> HIDE DEF c
  <2>4. g[c.finish] = GMapFinishReason(c.finish)
    BY <2>3
  <2>5. r[k].st.lastFinish = IF c.candidate /\ c.finish # NoFinish THEN GMapFinishReason(c.finish)
                             ELSE r[k - 1].st.lastFinish
    BY <2>2, AfterFields
  <2> HIDE DEF g
  <2>6. CASE c.finish # NoFinish
    BY <2>2, <2>3, <2>4, <2>5, <2>6, Zenon
  <2>7. CASE c.finish = NoFinish
    BY <2>2, <2>5, <2>7, Zenon
  <2> QED
    BY <2>6, <2>7
<1> HIDE DEF g
<1>11. v[n] = IF kept = <<>> THEN NoFinish ELSE g[Last(kept)]
  <2>1. v[Len(fs)] = IF Kept(fs, T) = <<>> THEN v[0] ELSE g[Last(Kept(fs, T))]
    <3>1. fs \in Seq(GWireFinish)
      BY <1>4
    <3>2. SetBy(v, fs, T, g)
      BY <1>10 DEF SetBy
    <3> QED
      BY <3>1, <3>2, LastSets DEF SetByLast
  <2> QED
    BY <1>4, <1>5, <2>1, Zenon DEF kept
<1>12. kept # <<>> => Last(kept) \in GWireFinish /\ Last(kept) \in T
  BY <1>4, LastIsOne DEF kept
<1>13. v[n] = r[n].st.lastFinish
  <2>1. n \in 0..n
    BY <1>1
  <2> QED
    BY <2>1 DEF v
<1>14. r[n].st.lastFinish = IF finish = NoFinish THEN NoFinish ELSE GMapFinishReason(finish)
  <2>1. CASE kept = <<>>
    BY <1>6, <1>11, <1>13, <2>1
  <2>2. CASE kept # <<>>
    <3>1. Last(kept) \in GWireFinish /\ Last(kept) # NoFinish
      BY <1>8, <1>12, <2>2
    <3>2. g[Last(kept)] = GMapFinishReason(Last(kept))
      BY <3>1 DEF g
    <3> QED
      BY <1>6, <1>11, <1>13, <2>2, <3>1, <3>2
  <2> QED
    BY <2>1, <2>2
<1>15. ASSUME finish # NoFinish PROVE WholeAnswer(answer).candidate
  <2>1. kept # <<>> /\ finish = Last(kept)
    BY <1>6, <1>15
  <2>2. PICK k \in 1..n : finish = answer[k].finish
    BY <1>8, <1>12, <2>1
  <2>3. answer[k].candidate /\ answer[k] \in ToSet(answer)
    BY <1>1, <1>2, <1>3, <1>15, <2>2 DEF ToSet
  <2> QED
    BY <2>3 DEF WholeAnswer
<1> QED
  BY <1>14, <1>15 DEF finish, r, n

\* And the last usage, if the chunk that brought it has a candidate.
LEMMA UsageTold ==
  ASSUME NEW answer \in Bodies
  PROVE  LET usage == GoogleDone(Run(answer)[Len(answer)].st).usage IN
         /\ UsageWithCandidate(answer) => usage = WholeAnswer(answer).usage
         /\ (\A c \in ToSet(answer) : c.candidate => c.usage = NoUsage) => usage = UnknownUsage
<1> DEFINE n == Len(answer)
           r == Run(answer)
           us == [k \in DOMAIN answer |-> answer[k].usage]
           T == {x \in ToSet(us) : x # NoUsage}
           kept == Kept(us, T)
           v == [k \in 0..n |-> r[k].st.lastUsage]
<1>1. n \in Nat /\ DOMAIN answer = 1..n
  <2>1. answer \in Seq(Chunk)
    BY TranslatorAssumption
  <2> QED
    BY <2>1
<1>2. \A k \in 1..n : r[k].st = GoogleAfter(r[k - 1].st, answer[k])
  BY RunStep
<1>3. us \in Seq({answer[k].usage : k \in 1..n}) /\ Len(us) = n /\ \A k \in 1..n : us[k] = answer[k].usage
  <2>1. us \in [1..n -> {answer[k].usage : k \in 1..n}]
    BY <1>1
  <2> QED
    BY <1>1, <2>1
<1>4. v[0] = NoUsage
  <2>1. r[0] = Start /\ TrInit = GoogleInit /\ 0 \in 0..n
    BY <1>1, RunSteps, AdapterAssumption
  <2> QED
    BY <2>1 DEF Start, GoogleInit
<1>5. WholeAnswer(answer).usage = IF kept = <<>> THEN NoUsage ELSE Last(kept)
  BY DEF WholeAnswer, LastOr, FieldOf, NotEmpty, Where, Mapped
<1>6. \A k \in 1..n : us[k] \in T <=> answer[k].usage # NoUsage
  <2>1. \A k \in 1..n : us[k] \in ToSet(us)
    BY <1>1 DEF ToSet
  <2> QED
    BY <1>3, <2>1
<1>7. \A k \in 1..n : v[k] = r[k].st.lastUsage /\ v[k - 1] = r[k - 1].st.lastUsage
  <2>1. \A k \in 1..n : k \in 0..n /\ k - 1 \in 0..n
    BY <1>1
  <2> QED
    BY <2>1
<1>8. v[n] = r[n].st.lastUsage
  <2>1. n \in 0..n
    BY <1>1
  <2> QED
    BY <2>1
<1>9. GoogleDone(r[n].st).usage = IF v[n] = NoUsage THEN UnknownUsage ELSE v[n]
  BY <1>8, DoneKept
<1> HIDE DEF n, r, us, T, kept, v
<1>10. ASSUME NEW k \in 1..n
       PROVE  v[k] = IF answer[k].candidate /\ answer[k].usage # NoUsage THEN answer[k].usage
                     ELSE v[k - 1]
  <2> DEFINE c == answer[k]
  <2>1. r[k].st = GoogleAfter(r[k - 1].st, c) /\ v[k] = r[k].st.lastUsage /\ v[k - 1] = r[k - 1].st.lastUsage
    BY <1>2, <1>7
  <2> HIDE DEF c
  <2>2. r[k].st.lastUsage = IF c.candidate /\ c.usage # NoUsage THEN c.usage ELSE r[k - 1].st.lastUsage
    BY <2>1, AfterFields
  <2> QED
    BY <2>1, <2>2 DEF c
<1>11. ASSUME UsageWithCandidate(answer)
       PROVE  GoogleDone(r[n].st).usage = WholeAnswer(answer).usage
  <2>1. PICK j \in 1..n : /\ answer[j].candidate /\ answer[j].usage # NoUsage
                          /\ \A l \in (j + 1)..n : answer[l].usage = NoUsage
    BY <1>1, <1>11 DEF UsageWithCandidate, n
  <2>2. j \in 0..n /\ \A k \in (j + 1)..n : k \in 1..n
    BY <1>1
  <2>3. \A k \in (j + 1)..n : v[k] = v[k - 1] /\ us[k] \notin T
    BY <1>6, <1>10, <2>1, <2>2
  <2>4. v[n] = v[j]
    BY <1>1, <2>2, <2>3, Stays
  <2>5. v[j] = answer[j].usage /\ us[j] = answer[j].usage /\ us[j] \in T /\ j \in DOMAIN us
    BY <1>3, <1>6, <1>10, <2>1
  <2>6. kept # <<>> /\ Last(kept) = us[j]
    BY <1>3, <2>3, <2>5, LastKept DEF kept
  <2> QED
    BY <1>5, <1>9, <2>1, <2>4, <2>5, <2>6
<1>12. ASSUME \A c \in ToSet(answer) : c.candidate => c.usage = NoUsage
       PROVE  GoogleDone(r[n].st).usage = UnknownUsage
  <2>1. \A k \in 1..n : answer[k] \in ToSet(answer)
    BY <1>1 DEF ToSet
  <2>2. 0 \in 0..n /\ \A k \in (0 + 1)..n : v[k] = v[k - 1]
    BY <1>1, <1>10, <1>12, <2>1
  <2>3. v[n] = v[0]
    BY <1>1, <2>2, Stays
  <2> QED
    BY <1>4, <1>9, <2>3
<1> QED
  BY <1>11, <1>12 DEF r, n

\* An answer without candidates has no events but its Done.
LEMMA BlockedTold ==
  ASSUME NEW answer \in Bodies, ~WholeAnswer(answer).candidate
  PROVE  Run(answer)[Len(answer)].evs = <<>>
<1> DEFINE n == Len(answer)
           v == [k \in 0..n |-> Run(answer)[k].evs]
<1>1. n \in Nat /\ DOMAIN answer = 1..n
  <2>1. answer \in Seq(Chunk)
    BY TranslatorAssumption
  <2> QED
    BY <2>1
<1>2. ASSUME NEW k \in (0 + 1)..n PROVE v[k] = v[k - 1]
  <2>1. k \in 1..n /\ k \in 0..n /\ k - 1 \in 0..n
    BY <1>1
  <2>2. ~answer[k].candidate
    <3>1. answer[k] \in ToSet(answer)
      BY <1>1, <2>1 DEF ToSet
    <3> QED
      BY <3>1 DEF WholeAnswer
  <2>3. answer[k] \in GoogleChunk /\ Run(answer)[k].evs = Run(answer)[k - 1].evs \o Told(answer[k].parts)
    BY <2>1, RunStep
  <2>4. answer[k].parts = <<>>
    BY <2>2, <2>3 DEF GoogleChunk
  <2>5. Told(<<>>) = <<>>
    <3>1. PartSeqs(<<>>) = <<>>
      BY DEF PartSeqs
    <3> QED
      BY <3>1, FlattenEmpty, Zenon DEF Told
  <2>6. Run(answer)[k - 1].evs \in Seq(Event)
    BY <2>1, RunSteps DEF Acc
  <2>7. Run(answer)[k - 1].evs \o <<>> = Run(answer)[k - 1].evs
    BY <2>6, ConcatEmptySeq
  <2> QED
    BY <2>1, <2>3, <2>4, <2>5, <2>7
<1>3. v[0] = <<>>
  <2>1. Run(answer)[0] = Start /\ 0 \in 0..n
    BY <1>1, RunSteps
  <2> QED
    BY <2>1 DEF Start
<1>4. 0 \in 0..n /\ n \in 0..n
  BY <1>1
<1>5. v[n] = Run(answer)[n].evs
  BY <1>4
<1> HIDE DEF n, v
<1>6. v[n] = v[0]
  BY <1>1, <1>2, <1>4, Stays
<1> QED
  BY <1>3, <1>5, <1>6 DEF n

\* A stream drained to its end tells what Generate returns for the same answer,
\* whatever the answers, the chunks they come in and their usage and finish reasons.
THEOREM GenerateAgreesHolds == Spec => []GenerateAgrees
<1>1. ASSUME IInv, TranslationInv PROVE GenerateAgrees
  <2> SUFFICES ASSUME Status = "ended"
               PROVE  LET resp == WholeAnswer(body)
                          told == FromResponse(resp)
                          done == Last(delivered)
                      IN  /\ BlockedPrompt(resp) => Len(delivered) = 1 /\ done.finish = NoFinish
                          /\ Joined(delivered, TextEvents) = told.text
                          /\ CallsStreamed(delivered) = FlattenSeq(Mapped(WholeCall, told.calls))
                          /\ IF resp.finish = NoFinish THEN done.finish = NoFinish
                             ELSE done.finish = told.finish
                          /\ UsageWithCandidate(body) => done.usage = told.usage
                          /\ (\A c \in ToSet(body) : c.candidate => c.usage = NoUsage)
                               => done.usage = UnknownUsage
    BY DEF GenerateAgrees
  <2> DEFINE resp == WholeAnswer(body)
             last == Run(body)[Len(body)]
             done == GoogleDone(last.st)
  <2>1. body \in Bodies /\ delivered = Translation[body]
    BY <1>1 DEF Status, IInv, TypeOK, TranslationInv
  <2>2. last.evs \in Seq(K1Event) /\ done \in K1Event /\ delivered = Append(last.evs, done)
    BY <2>1, TranslationParts
  <2>3. Joined(delivered, TextEvents) = TextsOf(resp)
    BY <2>1, TextTold
  <2>4. CallsStreamed(delivered) = FlattenSeq(Mapped(WholeCall, ToToolCalls(resp)))
    BY <2>1, CallTold
  <2>5. /\ done.finish = IF resp.finish = NoFinish THEN NoFinish ELSE GMapFinishReason(resp.finish)
        /\ resp.finish # NoFinish => resp.candidate
    BY <2>1, FinishTold, DoneKept
  <2>6. /\ UsageWithCandidate(body) => done.usage = resp.usage
        /\ (\A c \in ToSet(body) : c.candidate => c.usage = NoUsage) => done.usage = UnknownUsage
    BY <2>1, UsageTold
  <2>7. ~resp.candidate => last.evs = <<>>
    BY <2>1, BlockedTold
  <2> HIDE DEF resp, last, done
  <2>8. Last(delivered) = done /\ (last.evs = <<>> => Len(delivered) = 1)
    BY <2>2 DEF Last
  <2>9. /\ FromResponse(resp).text = TextsOf(resp)
        /\ FromResponse(resp).calls = ToToolCalls(resp)
        /\ FromResponse(resp).finish = IF resp.candidate THEN GMapFinishReason(resp.finish) ELSE "unknown"
        /\ FromResponse(resp).usage = resp.usage
    BY DEF FromResponse, Response
  <2>10. BlockedPrompt(resp) => Len(delivered) = 1 /\ done.finish = NoFinish
    BY <2>5, <2>7, <2>8 DEF BlockedPrompt
  <2> QED
    BY <2>3, <2>4, <2>5, <2>6, <2>8, <2>9, <2>10 DEF resp
<1> QED
  BY <1>1, Translated, PTL
=============================================================================
