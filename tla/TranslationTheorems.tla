------------------------- MODULE TranslationTheorems ------------------------
(***************************************************************************)
(* What the refinement proofs of the stream readers need to know of a      *)
(* translation that goes through a body chunk by chunk: it exists for a    *)
(* body of any length, and what it has made of the first chunks is a       *)
(* prefix of what it makes of the whole.  Both need induction over the     *)
(* chunks, which is done here by the least counterexample.                 *)
(***************************************************************************)
EXTENDS Selections, SequenceTheorems, WellFoundedInduction, TLAPS

\* Every non-empty set of numbers has a least element.
LEMMA LeastNumber ==
  ASSUME NEW T \in SUBSET Nat, T # {}
  PROVE  \E n \in T : \A k \in T : n <= k
<1>1. \E n \in T : \A k \in T : <<k, n>> \notin OpToRel(<, Nat)
  BY NatLessThanWellFounded, WFMin
<1>2. PICK n \in T : \A k \in T : <<k, n>> \notin OpToRel(<, Nat)
  BY <1>1
<1>3. \A k \in T : ~(k < n)
  BY <1>2 DEF OpToRel
<1> QED
  BY <1>3

\* A set with 0, and with each number below n its successor, has all up to n.
LEMMA UpTo ==
  ASSUME NEW n \in Nat, NEW P,
         0 \in P,
         \A k \in 0..n : k # n /\ k \in P => k + 1 \in P
  PROVE  \A k \in 0..n : k \in P
<1> DEFINE T == {k \in 0..n : k \notin P}
<1>1. SUFFICES ASSUME T # {} PROVE FALSE
  OBVIOUS
<1>2. T \in SUBSET Nat
  OBVIOUS
<1>3. \E m \in T : \A k \in T : m <= k
  BY <1>1, <1>2, LeastNumber
<1>4. PICK m \in T : \A k \in T : m <= k
  BY <1>3
<1>5. m \in 0..n /\ m \notin P /\ m # 0
  BY <1>4
<1>6. m - 1 \in 0..n /\ m - 1 # n /\ m - 1 \notin T /\ (m - 1) + 1 = m
  BY <1>4, <1>5
<1>7. m - 1 \in P
  BY <1>6
<1> QED
  BY <1>5, <1>6, <1>7

\* run goes through body, from first on, by step.
GoesThrough(run, body, first, step) ==
  /\ run[0] = first
  /\ \A k \in 1..Len(body) : run[k] = step[<<run[k - 1], body[k]>>]

\* A translator that maps an accumulated translation and a chunk to the next one
\* goes through every body.
LEMMA RunExists ==
  ASSUME NEW Acc, NEW Chunks, NEW step \in [Acc \X Chunks -> Acc], NEW first \in Acc,
         NEW body \in Seq(Chunks)
  PROVE  \E run \in [0..Len(body) -> Acc] : GoesThrough(run, body, first, step)
<1> DEFINE n == Len(body)
           IsRun(r, m) == /\ r[0] = first
                          /\ \A k \in 1..m : r[k] = step[<<r[k - 1], body[k]>>]
           P == {m \in 0..n : \E r \in [0..m -> Acc] : IsRun(r, m)}
<1>1. n \in Nat /\ \A k \in 1..n : body[k] \in Chunks
  OBVIOUS
<1> HIDE DEF n
<1>2. 0 \in P
  <2> DEFINE r == [k \in 0..0 |-> first]
  <2>1. r \in [0..0 -> Acc] /\ IsRun(r, 0)
    OBVIOUS
  <2> HIDE DEF r
  <2> QED
    BY <1>1, <2>1
<1>3. ASSUME NEW m \in 0..n, m # n, m \in P PROVE m + 1 \in P
  <2>1. PICK r \in [0..m -> Acc] : IsRun(r, m)
    BY <1>3
  <2> DEFINE s == [k \in 0..(m + 1) |-> IF k = m + 1 THEN step[<<r[m], body[m + 1]>>] ELSE r[k]]
  <2>2. m \in Nat /\ m + 1 \in 1..n /\ m + 1 \in 0..n
    BY <1>1, <1>3
  <2>3. r[m] \in Acc /\ body[m + 1] \in Chunks
    BY <1>1, <2>1, <2>2
  <2>4. step[<<r[m], body[m + 1]>>] \in Acc
    BY <2>3
  <2>5. s \in [0..(m + 1) -> Acc]
    BY <2>1, <2>2, <2>4
  <2>6. s[0] = first
    BY <2>1, <2>2
  <2>7. ASSUME NEW k \in 1..(m + 1) PROVE s[k] = step[<<s[k - 1], body[k]>>]
    <3>1. k - 1 \in 0..(m + 1) /\ k \in 0..(m + 1) /\ k - 1 # m + 1
      BY <2>2
    <3>2. s[k - 1] = r[k - 1]
      BY <3>1
    <3>3. CASE k = m + 1
      BY <3>1, <3>2, <3>3, <2>2
    <3>4. CASE k # m + 1
      <4>1. k \in 1..m
        BY <2>2, <3>4
      <4> QED
        BY <2>1, <3>1, <3>2, <3>4, <4>1
    <3> QED
      BY <3>3, <3>4
  <2> HIDE DEF s
  <2>8. IsRun(s, m + 1)
    BY <2>6, <2>7
  <2> QED
    BY <2>2, <2>5, <2>8
<1>4. \A k \in 0..n : k \in P
  <2> HIDE DEF P
  <2> QED
    BY <1>1, <1>2, <1>3, UpTo
<1>5. n \in P
  <2>1. n \in 0..n
    BY <1>1
  <2> QED
    BY <1>4, <2>1, Zenon
<1>6. PICK r \in [0..n -> Acc] : IsRun(r, n)
  BY <1>5
<1> QED
  BY <1>6 DEF n, GoesThrough

\* t goes on where s ends.
Continues(t, s) == Len(s) <= Len(t) /\ \A i \in 1..Len(s) : t[i] = s[i]

LEMMA ConcatContinues ==
  ASSUME NEW S, NEW s \in Seq(S), NEW more \in Seq(S)
  PROVE  Continues(s \o more, s)
  BY ConcatProperties DEF Continues

\* A translation that only appends does not change what it has appended: all the
\* events continue those of the first j chunks.
LEMMA RunGrows ==
  ASSUME NEW S, NEW n \in Nat, NEW evs \in [0..n -> Seq(S)],
         \A k \in 1..n : Continues(evs[k], evs[k - 1]),
         NEW j \in 0..n
  PROVE  Continues(evs[n], evs[j])
<1> DEFINE P == {m \in 0..(n - j) : Continues(evs[j + m], evs[j])}
<1>1. n - j \in Nat /\ j \in Nat /\ Len(evs[j]) \in Nat
  OBVIOUS
<1>2. 0 \in P
  BY <1>1 DEF Continues
<1>3. ASSUME NEW m \in 0..(n - j), m # n - j, m \in P PROVE m + 1 \in P
  <2>1. m + 1 \in 0..(n - j) /\ j + (m + 1) \in 1..n /\ (j + (m + 1)) - 1 = j + m /\ j + m \in 0..n
    BY <1>1, <1>3
  <2>2. Continues(evs[j + (m + 1)], evs[j + m]) /\ Continues(evs[j + m], evs[j])
    BY <1>3, <2>1
  <2>3. Len(evs[j]) \in Nat /\ Len(evs[j + m]) \in Nat /\ Len(evs[j + (m + 1)]) \in Nat
    BY <2>1
  <2>4. Continues(evs[j + (m + 1)], evs[j])
    BY <2>2, <2>3 DEF Continues
  <2> QED
    BY <2>1, <2>4
<1>4. \A k \in 0..(n - j) : k \in P
  <2> HIDE DEF P
  <2> QED
    BY <1>1, <1>2, <1>3, UpTo
<1>5. n - j \in P /\ j + (n - j) = n
  <2>1. n - j \in 0..(n - j) /\ j + (n - j) = n
    BY <1>1
  <2> QED
    BY <1>4, <2>1, Zenon
<1> QED
  BY <1>5, Zenon

\* Moving the head of the queue to the delivered events keeps what follows them.
LEMMA PopConcat ==
  ASSUME NEW S, NEW s \in Seq(S), NEW t \in Seq(S), t # <<>>
  PROVE  Append(s, Head(t)) \o Tail(t) = s \o t
OBVIOUS

\* The event at the head of the queue is the one due, if delivered and queued
\* events together are the beginning of the whole.
LEMMA HeadIsDue ==
  ASSUME NEW S, NEW log \in Seq(S), NEW queue \in Seq(S), NEW whole \in Seq(S),
         queue # <<>>,
         Continues(whole, log \o queue)
  PROVE  Len(log) < Len(whole) /\ whole[Len(log) + 1] = Head(queue)
<1>1. Len(log) \in Nat /\ Len(queue) \in Nat /\ Len(whole) \in Nat
  OBVIOUS
<1>2. Len(queue) > 0 /\ Head(queue) = queue[1]
  OBVIOUS
<1>3. Len(log \o queue) = Len(log) + Len(queue) /\ (log \o queue)[Len(log) + 1] = queue[1]
  BY <1>1, <1>2, ConcatProperties
<1> QED
  BY <1>1, <1>2, <1>3 DEF Continues

\* A set of places has a last one, if any.
LEMMA LastPlace ==
  ASSUME NEW n \in Nat, NEW T \in SUBSET (1..n), T # {}
  PROVE  \E x \in T : \A y \in T : x >= y
<1> DEFINE back == {n - x : x \in T}
<1>1. back \in SUBSET Nat /\ back # {}
  <2>1. \A x \in T : n - x \in Nat
    OBVIOUS
  <2> QED
    BY <2>1
<1>2. PICK b \in back : \A c \in back : b <= c
  <2> HIDE DEF back
  <2> QED
    BY <1>1, LeastNumber
<1>3. PICK x \in T : b = n - x
  BY <1>2
<1>4. \A y \in T : n - x <= n - y
  BY <1>2, <1>3
<1>5. \A y \in T : x >= y
  BY <1>4
<1> QED
  BY <1>5

\* The pieces of a sequence of sequences, joined from the first on.
LEMMA Flattened ==
  ASSUME NEW S, NEW seqs \in Seq(Seq(S))
  PROVE  \E f \in [0..Len(seqs) -> Seq(S)] :
           /\ f[0] = <<>>
           /\ \A k \in 1..Len(seqs) : f[k] = f[k - 1] \o seqs[k]
           /\ FlattenSeq(seqs) = f[Len(seqs)]
<1> DEFINE n == Len(seqs)
           A == Seq(S)
           step == [p \in A \X A |-> p[1] \o p[2]]
           IsFlat(r) == r = [i \in 1..n |-> IF i = 1 THEN seqs[i] ELSE r[i - 1] \o seqs[i]]
<1>1. n \in Nat /\ \A k \in 1..n : seqs[k] \in A
  OBVIOUS
<1>2. <<>> \in A
  OBVIOUS
<1>3. step \in [A \X A -> A]
  OBVIOUS
<1>4. \A x \in A : <<>> \o x = x
  BY ConcatEmptySeq
<1> HIDE DEF A, step
<1>5. PICK f \in [0..Len(seqs) -> A] : GoesThrough(f, seqs, <<>>, step)
  BY <1>2, <1>3, RunExists DEF A
<1>6. f \in [0..n -> A] /\ f[0] = <<>> /\ \A k \in 1..n : f[k] = step[<<f[k - 1], seqs[k]>>]
  BY <1>5 DEF GoesThrough
<1> HIDE DEF n
<1>7. \A k \in 1..n : k - 1 \in 0..n /\ k \in 0..n /\ f[k] = f[k - 1] \o seqs[k]
  <2> SUFFICES ASSUME NEW k \in 1..n PROVE k - 1 \in 0..n /\ k \in 0..n /\ f[k] = f[k - 1] \o seqs[k]
    OBVIOUS
  <2>1. k - 1 \in 0..n /\ k \in 0..n
    BY <1>1
  <2>2. f[k - 1] \in A /\ seqs[k] \in A
    BY <1>1, <1>6, <2>1
  <2> QED
    BY <1>6, <2>1, <2>2 DEF step
<1>8. CASE n = 0
  <2>1. seqs = <<>>
    BY <1>8 DEF n
  <2>2. FlattenSeq(seqs) = seqs
    BY <1>8 DEF FlattenSeq, n
  <2> QED
    BY <1>6, <1>7, <1>8, <2>1, <2>2 DEF A, n
<1>9. CASE n # 0
  <2> DEFINE r == [i \in 1..n |-> f[i]]
  <2>1. \A i \in 1..n : r[i] = IF i = 1 THEN seqs[i] ELSE r[i - 1] \o seqs[i]
    <3> SUFFICES ASSUME NEW i \in 1..n PROVE r[i] = IF i = 1 THEN seqs[i] ELSE r[i - 1] \o seqs[i]
      OBVIOUS
    <3>1. r[i] = f[i] /\ f[i] = f[i - 1] \o seqs[i]
      BY <1>7
    <3>2. CASE i = 1
      <4>1. i - 1 = 0 /\ seqs[i] \in A
        BY <1>1, <3>2
      <4>2. f[i - 1] = <<>>
        BY <1>6, <4>1
      <4> QED
        BY <1>4, <3>1, <3>2, <4>1, <4>2
    <3>3. CASE i # 1
      <4>1. i - 1 \in 1..n
        BY <1>1, <3>3
      <4>2. r[i - 1] = f[i - 1]
        BY <4>1
      <4> HIDE DEF r
      <4> QED
        BY <3>1, <3>3, <4>2
    <3> QED
      BY <3>2, <3>3
  <2>2. IsFlat(r)
    <3>1. r = [i \in 1..n |-> r[i]]
      OBVIOUS
    <3> HIDE DEF r
    <3> QED
      BY <2>1, <3>1
  <2>3. FlattenSeq(seqs) = (CHOOSE flat : IsFlat(flat))[n]
    BY <1>9 DEF FlattenSeq, n
  <2> DEFINE g == CHOOSE flat : IsFlat(flat)
  <2>4. IsFlat(g)
    <3> HIDE DEF IsFlat, r
    <3> QED
      BY <2>2
  <2>5. \A i \in 1..n : g[i] = f[i]
    <3> DEFINE T == {i \in 0..n : i = 0 \/ g[i] = f[i]}
    <3>1. \A i \in 1..n : g[i] = IF i = 1 THEN seqs[i] ELSE g[i - 1] \o seqs[i]
      <4> HIDE DEF g
      <4> QED
        BY <2>4
    <3> HIDE DEF g, IsFlat
    <3>2. 0 \in T
      BY <1>1
    <3>3. ASSUME NEW k \in 0..n, k # n, k \in T PROVE k + 1 \in T
      <4>1. k + 1 \in 1..n /\ k + 1 \in 0..n /\ (k + 1) - 1 = k
        BY <1>1, <3>3
      <4>2. f[k + 1] = f[k] \o seqs[k + 1] /\ seqs[k + 1] \in A
        BY <1>1, <1>7, <4>1
      <4>3. CASE k = 0
        <5>1. g[k + 1] = seqs[k + 1]
          BY <3>1, <4>1, <4>3
        <5>2. f[k + 1] = <<>> \o seqs[k + 1]
          BY <1>6, <4>2, <4>3
        <5> QED
          BY <1>4, <4>1, <4>2, <5>1, <5>2
      <4>4. CASE k # 0
        <5>1. k + 1 # 1
          BY <4>4
        <5>2. g[k + 1] = g[k] \o seqs[k + 1]
          BY <3>1, <4>1, <5>1
        <5>3. g[k] = f[k]
          BY <3>3, <4>4
        <5> QED
          BY <4>1, <4>2, <5>2, <5>3
      <4> QED
        BY <4>3, <4>4
    <3>4. \A k \in 0..n : k \in T
      <4> HIDE DEF T
      <4> QED
        BY <1>1, <3>2, <3>3, UpTo
    <3>5. \A i \in 1..n : i \in 0..n /\ i # 0
      BY <1>1
    <3> QED
      BY <3>4, <3>5
  <2>6. FlattenSeq(seqs) = f[n]
    <3>1. n \in 1..n
      BY <1>1, <1>9
    <3> HIDE DEF g, IsFlat
    <3> QED
      BY <2>3, <2>5, <3>1 DEF g
  <2> QED
    BY <1>6, <1>7, <2>6 DEF A, n
<1> QED
  BY <1>8, <1>9

\* A sequence joined to another one element after the other.
StepsOf(S, s, t) ==
  {g \in [0..Len(t) -> Seq(S)] :
     /\ g[0] = s
     /\ \A k \in 1..Len(t) : g[k] = Append(g[k - 1], t[k])
     /\ g[Len(t)] = s \o t}

LEMMA OneByOne ==
  ASSUME NEW S, NEW s \in Seq(S), NEW t \in Seq(S)
  PROVE  StepsOf(S, s, t) # {}
<1> DEFINE n == Len(s)
           m == Len(t)
           Up(k) == [j \in 1..(n + k) |-> IF j <= n THEN s[j] ELSE t[j - n]]
           g == [k \in 0..m |-> Up(k)]
<1>1. /\ n \in Nat /\ m \in Nat /\ DOMAIN s = 1..n /\ DOMAIN t = 1..m
      /\ \A j \in 1..n : s[j] \in S
      /\ \A j \in 1..m : t[j] \in S
  OBVIOUS
<1> HIDE DEF n, m
<1>2. ASSUME NEW k \in 0..m PROVE Up(k) \in Seq(S) /\ Len(Up(k)) = n + k
  <2>1. n + k \in Nat /\ \A j \in 1..(n + k) : j <= n \/ j - n \in 1..m
    BY <1>1
  <2>2. \A j \in 1..(n + k) : (IF j <= n THEN s[j] ELSE t[j - n]) \in S
    BY <1>1, <2>1
  <2>3. Up(k) \in [1..(n + k) -> S]
    BY <2>2
  <2> QED
    BY <2>1, <2>3
<1>3. Up(0) = s
  <2>1. Up(0) \in Seq(S) /\ Len(Up(0)) = n
    BY <1>1, <1>2
  <2>2. \A j \in 1..n : Up(0)[j] = s[j]
    BY <1>1
  <2> HIDE DEF Up
  <2> QED
    BY <1>1, <2>1, <2>2, SeqEqual DEF n
<1>4. ASSUME NEW k \in 1..m PROVE Up(k) = Append(Up(k - 1), t[k])
  <2>1. k - 1 \in 0..m /\ k \in 0..m /\ (n + k) - n = k /\ ~(n + k <= n)
    BY <1>1
  <2>2. Up(k) \in Seq(S) /\ Len(Up(k)) = n + k /\ Up(k - 1) \in Seq(S) /\ Len(Up(k - 1)) = n + (k - 1)
    BY <1>2, <2>1
  <2>3. Up(k)[n + k] = t[k]
    BY <1>1, <2>1
  <2>4. \A j \in 1..(n + (k - 1)) : Up(k)[j] = Up(k - 1)[j]
    BY <1>1
  <2> DEFINE u == Up(k)
             v == Up(k - 1)
             a == Append(v, t[k])
  <2> HIDE DEF Up, u, v
  <2>5. /\ a \in Seq(S) /\ Len(a) = n + k /\ a[n + k] = t[k]
        /\ \A j \in 1..(n + (k - 1)) : a[j] = v[j]
    BY <1>1, <2>2 DEF v
  <2>6. \A j \in 1..(n + k) : u[j] = a[j]
    <3>1. \A j \in 1..(n + k) : j = n + k \/ j \in 1..(n + (k - 1))
      BY <1>1
    <3> HIDE DEF a
    <3> QED
      BY <2>3, <2>4, <2>5, <3>1 DEF u, v
  <2>7. u = a
    <3> HIDE DEF a
    <3> QED
      BY <2>2, <2>5, <2>6, SeqEqual DEF u
  <2> QED
    BY <2>7 DEF u, v
<1>5. Up(m) = s \o t
  <2>1. Up(m) \in Seq(S) /\ Len(Up(m)) = n + m
    BY <1>1, <1>2
  <2>2. s \o t \in Seq(S) /\ Len(s \o t) = n + m
    BY <1>1 DEF n, m
  <2>3. \A j \in 1..(n + m) : Up(m)[j] = (s \o t)[j]
    BY <1>1 DEF n, m
  <2> HIDE DEF Up
  <2> QED
    BY <2>1, <2>2, <2>3, SeqEqual
<1>6. /\ g \in [0..m -> Seq(S)] /\ g[0] = Up(0) /\ g[m] = Up(m)
      /\ \A k \in 1..m : g[k] = Up(k) /\ g[k - 1] = Up(k - 1)
  <2>1. 0 \in 0..m /\ m \in 0..m /\ \A k \in 1..m : k \in 0..m /\ k - 1 \in 0..m
    BY <1>1
  <2>2. \A k \in 0..m : Up(k) \in Seq(S)
    BY <1>2
  <2> HIDE DEF Up
  <2> QED
    BY <2>1, <2>2
<1>7. \A k \in 1..m : g[k] = Append(g[k - 1], t[k])
  <2> HIDE DEF g, Up
  <2> QED
    BY <1>4, <1>6
<1> HIDE DEF g, Up
<1>8. g \in StepsOf(S, s, t)
  BY <1>3, <1>5, <1>6, <1>7 DEF m, StepsOf
<1> QED
  BY <1>8

-----------------------------------------------------------------------------
(* Queues of events that are tagged with the request they came from.       *)

Untagged(s) == [k \in DOMAIN s |-> s[k].ev]

LEMMA UntaggedType ==
  ASSUME NEW S, NEW T, \A e \in T : e.ev \in S, NEW s \in Seq(T)
  PROVE  /\ Untagged(s) \in Seq(S)
         /\ Len(Untagged(s)) = Len(s) /\ DOMAIN Untagged(s) = DOMAIN s
         /\ \A k \in DOMAIN s : Untagged(s)[k] = s[k].ev
<1>1. DOMAIN s = 1..Len(s) /\ Len(s) \in Nat /\ \A k \in 1..Len(s) : s[k].ev \in S
  OBVIOUS
<1>2. Untagged(s) \in [1..Len(s) -> S]
  BY <1>1 DEF Untagged
<1> QED
  BY <1>1, <1>2 DEF Untagged

LEMMA UntaggedNone == Untagged(<<>>) = <<>>
  BY DEF Untagged

\* Moving the head of a tagged queue moves the event at the head.
LEMMA UntaggedPop ==
  ASSUME NEW T, NEW s \in Seq(T), NEW t \in Seq(T), t # <<>>
  PROVE  /\ Untagged(t) # <<>>
         /\ Head(Untagged(t)) = Head(t).ev
         /\ Untagged(Append(s, Head(t))) = Append(Untagged(s), Head(t).ev)
         /\ Untagged(Tail(t)) = Tail(Untagged(t))
<1> DEFINE S == {e.ev : e \in T}
<1>0. \A e \in T : e.ev \in S
  OBVIOUS
<1> HIDE DEF S
<1>1. /\ Untagged(s) \in Seq(S) /\ Len(Untagged(s)) = Len(s)
      /\ Untagged(t) \in Seq(S) /\ Len(Untagged(t)) = Len(t)
      /\ \A k \in 1..Len(s) : Untagged(s)[k] = s[k].ev
      /\ \A k \in 1..Len(t) : Untagged(t)[k] = t[k].ev
  <2>1. DOMAIN s = 1..Len(s) /\ DOMAIN t = 1..Len(t)
    OBVIOUS
  <2>2. /\ Untagged(s) \in Seq(S) /\ Len(Untagged(s)) = Len(s)
        /\ \A k \in DOMAIN s : Untagged(s)[k] = s[k].ev
    BY <1>0, UntaggedType, ZenonT(60)
  <2>3. /\ Untagged(t) \in Seq(S) /\ Len(Untagged(t)) = Len(t)
        /\ \A k \in DOMAIN t : Untagged(t)[k] = t[k].ev
    BY <1>0, UntaggedType, ZenonT(60)
  <2> QED
    BY <2>1, <2>2, <2>3
<1>2. Len(t) \in Nat /\ Len(t) # 0 /\ Head(t) = t[1] /\ Head(t) \in T /\ Head(t).ev \in S
  BY <1>0
<1>3. Untagged(t) # <<>>
  BY <1>1, <1>2
<1>4. Head(Untagged(t)) = Head(t).ev
  <2>1. 1 \in 1..Len(t)
    BY <1>2
  <2> QED
    BY <1>3, <1>1, <1>2, <2>1
<1>5. Untagged(Append(s, Head(t))) = Append(Untagged(s), Head(t).ev)
  <2> DEFINE a == Untagged(Append(s, Head(t)))
             b == Append(Untagged(s), Head(t).ev)
             u == Append(s, Head(t))
  <2>1. u \in Seq(T) /\ Len(u) = Len(s) + 1 /\ DOMAIN u = 1..(Len(s) + 1)
    BY <1>2
  <2>2. a \in Seq(S) /\ Len(a) = Len(s) + 1 /\ \A k \in 1..(Len(s) + 1) : a[k] = u[k].ev
    <3> HIDE DEF u
    <3>1. Untagged(u) \in Seq(S) /\ Len(Untagged(u)) = Len(u) /\ \A k \in DOMAIN u : Untagged(u)[k] = u[k].ev
      BY <1>0, <2>1, UntaggedType, ZenonT(60)
    <3> QED
      BY <2>1, <3>1 DEF u
  <2>3. b \in Seq(S) /\ Len(b) = Len(s) + 1
    BY <1>1, <1>2
  <2>4. ASSUME NEW k \in 1..(Len(s) + 1) PROVE a[k] = b[k]
    <3>1. CASE k = Len(s) + 1
      <4>1. u[k] = Head(t)
        BY <1>2, <3>1
      <4>2. b[k] = Head(t).ev
        BY <1>1, <1>2, <3>1
      <4> QED
        BY <2>2, <4>1, <4>2
    <3>2. CASE k # Len(s) + 1
      <4>1. k \in 1..Len(s)
        BY <3>2
      <4>2. u[k] = s[k]
        BY <1>2, <4>1
      <4>3. b[k] = Untagged(s)[k]
        BY <1>1, <1>2, <4>1
      <4> QED
        BY <1>1, <2>2, <4>1, <4>2, <4>3
    <3> QED
      BY <3>1, <3>2
  <2> HIDE DEF a, b
  <2>5. a = b
    BY <2>2, <2>3, <2>4, SeqEqual
  <2> QED
    BY <2>5 DEF a, b
<1>6. Untagged(Tail(t)) = Tail(Untagged(t))
  <2> DEFINE a == Untagged(Tail(t))
             b == Tail(Untagged(t))
             u == Tail(t)
  <2>1. u \in Seq(T) /\ Len(u) = Len(t) - 1 /\ DOMAIN u = 1..(Len(t) - 1)
        /\ \A k \in 1..(Len(t) - 1) : u[k] = t[k + 1]
    OBVIOUS
  <2>2. a \in Seq(S) /\ Len(a) = Len(t) - 1 /\ \A k \in 1..(Len(t) - 1) : a[k] = u[k].ev
    <3> HIDE DEF u
    <3>1. Untagged(u) \in Seq(S) /\ Len(Untagged(u)) = Len(u) /\ \A k \in DOMAIN u : Untagged(u)[k] = u[k].ev
      BY <1>0, <2>1, UntaggedType, ZenonT(60)
    <3> QED
      BY <2>1, <3>1 DEF u
  <2>3. b \in Seq(S) /\ Len(b) = Len(t) - 1 /\ \A k \in 1..(Len(t) - 1) : b[k] = Untagged(t)[k + 1]
    BY <1>3, <1>1
  <2>4. ASSUME NEW k \in 1..(Len(t) - 1) PROVE a[k] = b[k]
    <3>1. k + 1 \in 1..Len(t)
      BY <1>2
    <3> QED
      BY <1>1, <2>1, <2>2, <2>3, <3>1
  <2> HIDE DEF a, b
  <2>5. a = b
    BY <2>2, <2>3, <2>4, SeqEqual
  <2> QED
    BY <2>5 DEF a, b
<1> QED
  BY <1>3, <1>4, <1>5, <1>6
-----------------------------------------------------------------------------
(* Sequences.                                                              *)

\* What holds of the empty sequence and is kept by Append holds of every one.
LEMMA BuiltUp ==
  ASSUME NEW S, NEW s \in Seq(S), NEW P, <<>> \in P,
         \A t \in Seq(S), x \in S : t \in P => Append(t, x) \in P
  PROVE  s \in P
<1> DEFINE n == Len(s)
           T == {k \in 0..n : SubSeq(s, 1, k) \in P}
<1>1. n \in Nat /\ n \in 0..n
  OBVIOUS
<1>2. 0 \in T
  <2>1. SubSeq(s, 1, 0) = <<>> /\ 0 \in 0..n
    BY <1>1
  <2>2. SubSeq(s, 1, 0) \in P
    BY <2>1
  <2> QED
    BY <2>1, <2>2
<1>3. ASSUME NEW k \in 0..n, k # n, k \in T PROVE k + 1 \in T
  <2>1. k + 1 \in 1..n /\ k + 1 \in 0..n /\ s[k + 1] \in S
    BY <1>1, <1>3
  <2>2. SubSeq(s, 1, k) \in Seq(S) /\ Len(SubSeq(s, 1, k)) = k
    BY <1>1
  <2>3. SubSeq(s, 1, k + 1) = Append(SubSeq(s, 1, k), s[k + 1])
    <3>1. /\ SubSeq(s, 1, k + 1) \in Seq(S) /\ Len(SubSeq(s, 1, k + 1)) = k + 1
          /\ \A i \in 1..(k + 1) : SubSeq(s, 1, k + 1)[i] = s[i]
      BY <2>1
    <3>2. \A i \in 1..k : SubSeq(s, 1, k)[i] = s[i]
      BY <2>2
    <3>3. /\ Append(SubSeq(s, 1, k), s[k + 1]) \in Seq(S)
          /\ Len(Append(SubSeq(s, 1, k), s[k + 1])) = k + 1
          /\ \A i \in 1..(k + 1) : Append(SubSeq(s, 1, k), s[k + 1])[i] = s[i]
      BY <2>1, <2>2, <3>2
    <3> QED
      BY <3>1, <3>3, SeqEqual
  <2>4. SubSeq(s, 1, k) \in P
    BY <1>3
  <2> QED
    BY <2>1, <2>2, <2>3, <2>4
<1>4. \A k \in 0..n : k \in T
  <2> HIDE DEF T, n
  <2> QED
    BY <1>1, <1>2, <1>3, UpTo
<1>5. SubSeq(s, 1, n) = s
  <2>1. SubSeq(s, 1, n) \in Seq(S) /\ Len(SubSeq(s, 1, n)) = Len(s) /\ \A i \in 1..Len(s) : SubSeq(s, 1, n)[i] = s[i]
    BY <1>1
  <2> QED
    BY <2>1, SeqEqual
<1> QED
  BY <1>1, <1>4, <1>5

\* What is kept of a sequence, element by element.
Goes(kept, s, T) ==
  /\ kept[0] = <<>>
  /\ \A k \in 1..Len(s) : kept[k] = IF s[k] \in T THEN Append(kept[k - 1], s[k]) ELSE kept[k - 1]

LEMMA KeptSteps ==
  ASSUME NEW S, NEW s \in Seq(S), NEW T
  PROVE  /\ KeptUpTo(s, T) \in [0..Len(s) -> Seq(S \cap T)]
         /\ Goes(KeptUpTo(s, T), s, T)
<1> DEFINE n == Len(s)
           A == Seq(S \cap T)
           step == [p \in A \X S |-> IF p[2] \in T THEN Append(p[1], p[2]) ELSE p[1]]
           IsKept(r) == r = [k \in 0..n |-> IF k = 0 THEN <<>>
                                            ELSE IF s[k] \in T THEN Append(r[k - 1], s[k]) ELSE r[k - 1]]
<1>1. n \in Nat /\ \A k \in 1..n : s[k] \in S
  OBVIOUS
<1>2. <<>> \in A
  OBVIOUS
<1>3. step \in [A \X S -> A]
  OBVIOUS
<1> HIDE DEF step, A
<1>5. PICK r \in [0..Len(s) -> A] : GoesThrough(r, s, <<>>, step)
  <2> HIDE DEF n
  <2> QED
    BY <1>1, <1>2, <1>3, RunExists
<1>6. r \in [0..n -> A] /\ r[0] = <<>> /\ \A k \in 1..n : r[k] = step[<<r[k - 1], s[k]>>]
  BY <1>5 DEF GoesThrough
<1> HIDE DEF n
<1>7. \A k \in 0..n : r[k] = IF k = 0 THEN <<>>
                             ELSE IF s[k] \in T THEN Append(r[k - 1], s[k]) ELSE r[k - 1]
  <2> SUFFICES ASSUME NEW k \in 0..n, k # 0
               PROVE r[k] = IF s[k] \in T THEN Append(r[k - 1], s[k]) ELSE r[k - 1]
    BY <1>6
  <2>1. k \in 1..n /\ k - 1 \in 0..n
    BY <1>1
  <2>2. r[k - 1] \in A /\ s[k] \in S
    BY <1>1, <1>6, <2>1
  <2> QED
    BY <1>6, <2>1, <2>2 DEF step
<1>8. IsKept(r)
  BY <1>6, <1>7
<1>9. KeptUpTo(s, T) = CHOOSE kept : IsKept(kept)
  BY DEF KeptUpTo, n
<1>10. IsKept(KeptUpTo(s, T))
  <2> HIDE DEF IsKept
  <2> QED
    BY <1>8, <1>9
<1>11. /\ KeptUpTo(s, T)[0] = <<>>
       /\ \A k \in 1..n : KeptUpTo(s, T)[k] = IF s[k] \in T THEN Append(KeptUpTo(s, T)[k - 1], s[k])
                                              ELSE KeptUpTo(s, T)[k - 1]
  <2>1. 0 \in 0..n /\ \A k \in 1..n : k \in 0..n /\ k # 0
    BY <1>1
  <2> QED
    BY <1>10, <2>1
<1>12. \A k \in 0..n : KeptUpTo(s, T)[k] \in A
  <2> DEFINE P == {k \in 0..n : KeptUpTo(s, T)[k] \in A}
  <2>1. 0 \in P
    BY <1>1, <1>2, <1>11
  <2>2. ASSUME NEW k \in 0..n, k # n, k \in P PROVE k + 1 \in P
    <3>1. k + 1 \in 1..n /\ k + 1 \in 0..n /\ (k + 1) - 1 = k
      BY <1>1, <2>2
    <3>2. KeptUpTo(s, T)[k + 1] = IF s[k + 1] \in T THEN Append(KeptUpTo(s, T)[k], s[k + 1])
                                  ELSE KeptUpTo(s, T)[k]
      BY <1>11, <3>1
    <3>3. KeptUpTo(s, T)[k] \in A /\ s[k + 1] \in S
      BY <1>1, <2>2, <3>1
    <3>4. s[k + 1] \in T => Append(KeptUpTo(s, T)[k], s[k + 1]) \in A
      BY <3>3 DEF A
    <3> QED
      BY <3>1, <3>2, <3>3, <3>4
  <2>3. \A k \in 0..n : k \in P
    <3> HIDE DEF P
    <3> QED
      BY <1>1, <2>1, <2>2, UpTo
  <2> QED
    BY <2>3
<1>13. KeptUpTo(s, T) \in [0..n -> A]
  BY <1>10, <1>12
<1> QED
  BY <1>11, <1>13 DEF n, A, Goes

\* What is kept of the empty sequence, and of a longer one.
KeptLonger(s, x, T) == Kept(Append(s, x), T) = IF x \in T THEN Append(Kept(s, T), x) ELSE Kept(s, T)

LEMMA KeptType ==
  ASSUME NEW S, NEW s \in Seq(S), NEW T
  PROVE  Kept(s, T) \in Seq(S \cap T) /\ Kept(s, T) \in Seq(S)
<1>1. Len(s) \in 0..Len(s)
  OBVIOUS
<1>2. Kept(s, T) \in Seq(S \cap T)
  BY <1>1, KeptSteps DEF Kept
<1> QED
  BY <1>2

LEMMA KeptAppend ==
  ASSUME NEW S, NEW s \in Seq(S), NEW T, NEW x \in S
  PROVE  KeptLonger(s, x, T)
<1> DEFINE n == Len(s)
           t == Append(s, x)
           P == {k \in 0..n : KeptUpTo(t, T)[k] = KeptUpTo(s, T)[k]}
<1>1. /\ n \in Nat /\ Len(t) = n + 1 /\ t \in Seq(S) /\ t[n + 1] = x
      /\ \A k \in 1..n : t[k] = s[k] /\ k \in 1..Len(t)
  OBVIOUS
<1> HIDE DEF t
<1>2. Goes(KeptUpTo(s, T), s, T) /\ Goes(KeptUpTo(t, T), t, T)
  BY <1>1, KeptSteps
<1>3. 0 \in P
  BY <1>1, <1>2 DEF Goes
<1>4. ASSUME NEW k \in 0..n, k # n, k \in P PROVE k + 1 \in P
  <2>1. k + 1 \in 1..n /\ k + 1 \in 0..n /\ (k + 1) - 1 = k /\ k + 1 \in 1..Len(t)
    BY <1>1, <1>4
  <2>2. KeptUpTo(s, T)[k + 1] = IF s[k + 1] \in T THEN Append(KeptUpTo(s, T)[k], s[k + 1])
                                ELSE KeptUpTo(s, T)[k]
    BY <1>2, <2>1 DEF Goes
  <2>3. KeptUpTo(t, T)[k + 1] = IF t[k + 1] \in T THEN Append(KeptUpTo(t, T)[k], t[k + 1])
                                ELSE KeptUpTo(t, T)[k]
    BY <1>1, <1>2, <2>1 DEF Goes
  <2> QED
    BY <1>1, <1>4, <2>1, <2>2, <2>3
<1>5. n \in P
  <2>1. \A k \in 0..n : k \in P
    <3> HIDE DEF P, n
    <3> QED
      BY <1>1, <1>3, <1>4, UpTo
  <2> QED
    BY <1>1, <2>1
<1>6. KeptUpTo(t, T)[n + 1] = IF x \in T THEN Append(KeptUpTo(t, T)[n], x) ELSE KeptUpTo(t, T)[n]
  <2>1. n + 1 \in 1..Len(t) /\ (n + 1) - 1 = n
    BY <1>1
  <2> QED
    BY <1>1, <1>2, <2>1 DEF Goes
<1> QED
  BY <1>1, <1>5, <1>6 DEF Kept, KeptLonger, t

LEMMA KeptEmpty == ASSUME NEW T PROVE Kept(<<>>, T) = <<>>
<1> DEFINE s == <<>>
<1>1. s \in Seq({}) /\ Len(s) = 0
  OBVIOUS
<1> HIDE DEF s
<1>2. Goes(KeptUpTo(s, T), s, T)
  BY <1>1, KeptSteps
<1> QED
  BY <1>1, <1>2 DEF Goes, Kept, s

\* Two tests that agree on the elements keep the same.
LEMMA KeptSame ==
  ASSUME NEW S, NEW s \in Seq(S), NEW A, NEW B, \A x \in S : x \in A <=> x \in B
  PROVE  Kept(s, A) = Kept(s, B)
<1> DEFINE P == {t \in Seq(S) : Kept(t, A) = Kept(t, B)}
<1>1. <<>> \in P
  BY KeptEmpty
<1>2. ASSUME NEW t \in Seq(S), NEW x \in S, t \in P PROVE Append(t, x) \in P
  <2>1. /\ Kept(Append(t, x), A) = IF x \in A THEN Append(Kept(t, A), x) ELSE Kept(t, A)
        /\ Kept(Append(t, x), B) = IF x \in B THEN Append(Kept(t, B), x) ELSE Kept(t, B)
    BY KeptAppend DEF KeptLonger
  <2>2. Append(t, x) \in Seq(S)
    OBVIOUS
  <2>3. Kept(t, A) = Kept(t, B) /\ (x \in A <=> x \in B)
    BY <1>2
  <2>4. Kept(Append(t, x), A) = Kept(Append(t, x), B)
    BY <2>1, <2>3, Zenon
  <2> QED
    BY <2>2, <2>4
<1>3. s \in P
  <2> HIDE DEF P
  <2> QED
    BY <1>1, <1>2, BuiltUp
<1> QED
  BY <1>3

\* A test that all elements pass, and one that none does.
LEMMA KeptAll ==
  ASSUME NEW S, NEW s \in Seq(S), NEW A, S \subseteq A
  PROVE  Kept(s, A) = s
<1> DEFINE P == {t \in Seq(S) : Kept(t, A) = t}
<1>1. <<>> \in P
  BY KeptEmpty
<1>2. ASSUME NEW t \in Seq(S), NEW x \in S, t \in P PROVE Append(t, x) \in P
  <2>1. Kept(Append(t, x), A) = Append(Kept(t, A), x)
    BY KeptAppend DEF KeptLonger
  <2>2. Append(t, x) \in Seq(S)
    OBVIOUS
  <2> QED
    BY <1>2, <2>1, <2>2
<1>3. s \in P
  <2> HIDE DEF P
  <2> QED
    BY <1>1, <1>2, BuiltUp
<1> QED
  BY <1>3

LEMMA KeptNone ==
  ASSUME NEW S, NEW s \in Seq(S), NEW A, \A x \in S : x \notin A
  PROVE  Kept(s, A) = <<>>
<1> DEFINE P == {t \in Seq(S) : Kept(t, A) = <<>>}
<1>1. <<>> \in P
  BY KeptEmpty
<1>2. ASSUME NEW t \in Seq(S), NEW x \in S, t \in P PROVE Append(t, x) \in P
  <2>1. Kept(Append(t, x), A) = Kept(t, A)
    BY KeptAppend DEF KeptLonger
  <2>2. Append(t, x) \in Seq(S)
    OBVIOUS
  <2> QED
    BY <1>2, <2>1, <2>2
<1>3. s \in P
  <2> HIDE DEF P
  <2> QED
    BY <1>1, <1>2, BuiltUp
<1> QED
  BY <1>3

\* What is kept of two sequences, one after the other.
KeptOfBoth(s, t, A) == Kept(s \o t, A) = Kept(s, A) \o Kept(t, A)

LEMMA KeptConcat ==
  ASSUME NEW S, NEW s \in Seq(S), NEW t \in Seq(S), NEW A
  PROVE  KeptOfBoth(s, t, A)
<1> DEFINE P == {u \in Seq(S) : Kept(s \o u, A) = Kept(s, A) \o Kept(u, A)}
<1>1. <<>> \in P
  <2>1. Kept(s, A) \in Seq(S)
    BY KeptType
  <2>2. Kept(s, A) \o <<>> = Kept(s, A) /\ s \o <<>> = s
    BY <2>1, ConcatEmptySeq
  <2>3. Kept(<<>>, A) = <<>> /\ <<>> \in Seq(S)
    BY KeptEmpty
  <2> QED
    BY <2>2, <2>3
<1>2. ASSUME NEW u \in Seq(S), NEW x \in S, u \in P PROVE Append(u, x) \in P
  <2>1. s \o Append(u, x) = Append(s \o u, x) /\ s \o u \in Seq(S)
    OBVIOUS
  <2>2. /\ Kept(s, A) \in Seq(S) /\ Kept(u, A) \in Seq(S)
        /\ Kept(Append(u, x), A) = IF x \in A THEN Append(Kept(u, A), x) ELSE Kept(u, A)
        /\ Kept(Append(s \o u, x), A) = IF x \in A THEN Append(Kept(s \o u, A), x) ELSE Kept(s \o u, A)
    <3>1. Kept(s, A) \in Seq(S) /\ Kept(u, A) \in Seq(S)
      BY KeptType
    <3>2. KeptLonger(u, x, A) /\ KeptLonger(s \o u, x, A)
      BY <2>1, KeptAppend
    <3> QED
      BY <3>1, <3>2 DEF KeptLonger
  <2>3. Kept(s, A) \o Append(Kept(u, A), x) = Append(Kept(s, A) \o Kept(u, A), x)
    <3>1. \A a, b \in Seq(S) : a \o Append(b, x) = Append(a \o b, x)
      OBVIOUS
    <3>2. Kept(s, A) \in Seq(S) /\ Kept(u, A) \in Seq(S)
      BY <2>2
    <3> HIDE DEF P
    <3> QED
      BY <3>1, <3>2, Zenon
  <2>4. Kept(s \o u, A) = Kept(s, A) \o Kept(u, A)
    BY <1>2
  <2>5. Kept(s \o Append(u, x), A) = Kept(s, A) \o Kept(Append(u, x), A)
    BY <2>1, <2>2, <2>3, <2>4
  <2>6. Append(u, x) \in Seq(S)
    OBVIOUS
  <2> QED
    BY <2>5, <2>6
<1>3. t \in P
  <2> HIDE DEF P
  <2> QED
    BY <1>1, <1>2, BuiltUp
<1> QED
  BY <1>3 DEF KeptOfBoth

\* What is kept of what was kept.
LEMMA KeptTwice ==
  ASSUME NEW S, NEW s \in Seq(S), NEW A, NEW B
  PROVE  Kept(Kept(s, A), B) = Kept(s, A \cap B)
<1> DEFINE P == {t \in Seq(S) : Kept(Kept(t, A), B) = Kept(t, A \cap B)}
<1>1. <<>> \in P
  BY KeptEmpty
<1>2. ASSUME NEW t \in Seq(S), NEW x \in S, t \in P PROVE Append(t, x) \in P
  <2>1. /\ Kept(t, A) \in Seq(S)
        /\ Kept(Append(t, x), A) = IF x \in A THEN Append(Kept(t, A), x) ELSE Kept(t, A)
        /\ Kept(Append(t, x), A \cap B) = IF x \in A /\ x \in B THEN Append(Kept(t, A \cap B), x)
                                          ELSE Kept(t, A \cap B)
    <3>1. Kept(t, A) \in Seq(S) /\ KeptLonger(t, x, A) /\ KeptLonger(t, x, A \cap B)
      BY KeptType, KeptAppend
    <3> QED
      BY <3>1 DEF KeptLonger
  <2>2. Kept(Append(Kept(t, A), x), B) = IF x \in B THEN Append(Kept(Kept(t, A), B), x)
                                         ELSE Kept(Kept(t, A), B)
    BY <2>1, KeptAppend DEF KeptLonger
  <2>3. Kept(Kept(t, A), B) = Kept(t, A \cap B)
    BY <1>2
  <2>4. Kept(Kept(Append(t, x), A), B) = Kept(Append(t, x), A \cap B)
    <3>1. CASE x \in A
      <4>1. Kept(Append(t, x), A) = Append(Kept(t, A), x)
        BY <2>1, <3>1
      <4> QED
        BY <2>1, <2>2, <2>3, <3>1, <4>1
    <3>2. CASE x \notin A
      <4>1. Kept(Append(t, x), A) = Kept(t, A)
        BY <2>1, <3>2
      <4> QED
        BY <2>1, <2>3, <3>2, <4>1
    <3> QED
      BY <3>1, <3>2
  <2>5. Append(t, x) \in Seq(S)
    OBVIOUS
  <2> QED
    BY <2>4, <2>5
<1>3. s \in P
  <2> HIDE DEF P
  <2> QED
    BY <1>1, <1>2, BuiltUp
<1> QED
  BY <1>3

\* f of each element, in order.
Each(f, s) == [k \in DOMAIN s |-> f[s[k]]]

EachLonger(f, s, x) == Each(f, Append(s, x)) = Append(Each(f, s), f[x])

IsEach(e, f, t) == Len(e) = Len(t) /\ \A k \in 1..Len(t) : e[k] = f[t[k]]

LEMMA EachType ==
  ASSUME NEW S, NEW U, NEW f \in [S -> U], NEW t \in Seq(S)
  PROVE  Each(f, t) \in Seq(U) /\ IsEach(Each(f, t), f, t)
<1>1. DOMAIN t = 1..Len(t) /\ Len(t) \in Nat /\ \A k \in 1..Len(t) : t[k] \in S
  OBVIOUS
<1>2. Each(f, t) \in [1..Len(t) -> U]
  BY <1>1 DEF Each
<1>3. Each(f, t) \in Seq(U) /\ Len(Each(f, t)) = Len(t)
  BY <1>1, <1>2
<1> QED
  BY <1>1, <1>3 DEF Each, IsEach

\* A function of which only the values over S matter.
LEMMA EachRange ==
  ASSUME NEW S, NEW f, NEW t \in Seq(S)
  PROVE  Each(f, t) \in Seq({f[x] : x \in S}) /\ IsEach(Each(f, t), f, t)
<1> DEFINE U == {f[x] : x \in S}
<1>1. DOMAIN t = 1..Len(t) /\ Len(t) \in Nat /\ \A k \in 1..Len(t) : t[k] \in S
  OBVIOUS
<1>2. Each(f, t) \in [1..Len(t) -> U]
  BY <1>1 DEF Each
<1> HIDE DEF U
<1>3. Each(f, t) \in Seq(U) /\ Len(Each(f, t)) = Len(t)
  BY <1>1, <1>2
<1> QED
  BY <1>1, <1>3 DEF Each, IsEach, U

LEMMA EachAppend ==
  ASSUME NEW S, NEW f, NEW s \in Seq(S), NEW x \in S
  PROVE  EachLonger(f, s, x)
<1> DEFINE U == {f[y] : y \in S}
           t == Append(s, x)
           b == Append(Each(f, s), f[x])
<1>1. t \in Seq(S) /\ Len(t) = Len(s) + 1 /\ Len(s) \in Nat /\ t[Len(s) + 1] = x
      /\ \A k \in 1..Len(s) : t[k] = s[k]
  OBVIOUS
<1>0. Each(f, s) \in Seq(U) /\ IsEach(Each(f, s), f, s) /\ Each(f, t) \in Seq(U) /\ IsEach(Each(f, t), f, t)
  <2> HIDE DEF t
  <2> QED
    BY <1>1, EachRange
<1>2. Each(f, s) \in Seq(U) /\ Len(Each(f, s)) = Len(s) /\ f[x] \in U
  BY <1>0 DEF IsEach
<1>3. b \in Seq(U) /\ Len(b) = Len(s) + 1 /\ b[Len(s) + 1] = f[x]
      /\ \A k \in 1..Len(s) : b[k] = Each(f, s)[k]
  BY <1>2
<1> HIDE DEF t, b, U
<1>4. \A k \in 1..(Len(s) + 1) : Each(f, t)[k] = b[k]
  <2>1. \A k \in 1..(Len(s) + 1) : Each(f, t)[k] = f[t[k]]
    BY <1>1, <1>0 DEF IsEach
  <2>2. \A k \in 1..Len(s) : Each(f, s)[k] = f[s[k]]
    BY <1>0 DEF IsEach
  <2>3. \A k \in 1..Len(s) : Each(f, t)[k] = b[k]
    BY <1>1, <1>3, <2>1, <2>2
  <2>4. Each(f, t)[Len(s) + 1] = b[Len(s) + 1]
    BY <1>1, <1>3, <2>1
  <2> QED
    BY <1>1, <2>3, <2>4
<1>5. Each(f, t) \in Seq(U) /\ Len(Each(f, t)) = Len(s) + 1
  BY <1>1, <1>0 DEF IsEach
<1>6. Each(f, t) = b
  BY <1>3, <1>4, <1>5, SeqEqual
<1> QED
  BY <1>6 DEF t, b, EachLonger

\* Keeping and mapping, in either order.
Passes(f, S, A, B) == \A x \in S : x \in A <=> f[x] \in B

LEMMA KeptEach ==
  ASSUME NEW S, NEW f, NEW s \in Seq(S), NEW A, NEW B, Passes(f, S, A, B)
  PROVE  Kept(Each(f, s), B) = Each(f, Kept(s, A))
<1> DEFINE U == {f[y] : y \in S}
           P == {t \in Seq(S) : Kept(Each(f, t), B) = Each(f, Kept(t, A))}
<1>1. <<>> \in P
  <2>1. Each(f, <<>>) = <<>>
    BY DEF Each
  <2> QED
    BY <2>1, KeptEmpty
<1>2. ASSUME NEW t \in Seq(S), NEW x \in S, t \in P PROVE Append(t, x) \in P
  <2>1. /\ Kept(t, A) \in Seq(S)
        /\ Kept(Append(t, x), A) = IF x \in A THEN Append(Kept(t, A), x) ELSE Kept(t, A)
    <3>1. Kept(t, A) \in Seq(S) /\ KeptLonger(t, x, A) /\ KeptLonger(t, x, A \cap B)
      BY KeptType, KeptAppend
    <3> QED
      BY <3>1 DEF KeptLonger
  <2>2. /\ Each(f, t) \in Seq(U) /\ Each(f, Append(t, x)) = Append(Each(f, t), f[x]) /\ f[x] \in U
        /\ Each(f, Append(Kept(t, A), x)) = Append(Each(f, Kept(t, A)), f[x])
    <3>1. Each(f, t) \in Seq(U) /\ EachLonger(f, t, x) /\ EachLonger(f, Kept(t, A), x)
      BY <2>1, EachRange, EachAppend
    <3>2. f[x] \in U
      OBVIOUS
    <3> HIDE DEF U
    <3> QED
      BY <3>1, <3>2 DEF EachLonger
  <2> HIDE DEF U
  <2>3. Kept(Append(Each(f, t), f[x]), B) = IF f[x] \in B THEN Append(Kept(Each(f, t), B), f[x])
                                            ELSE Kept(Each(f, t), B)
    <3>1. KeptLonger(Each(f, t), f[x], B)
      BY <2>2, KeptAppend
    <3> QED
      BY <3>1 DEF KeptLonger
  <2>4. Kept(Each(f, t), B) = Each(f, Kept(t, A))
    BY <1>2
  <2>5. Kept(Each(f, Append(t, x)), B) = Each(f, Kept(Append(t, x), A))
    BY <2>1, <2>2, <2>3, <2>4 DEF Passes
  <2>6. Append(t, x) \in Seq(S)
    OBVIOUS
  <2> QED
    BY <2>5, <2>6
<1>3. s \in P
  <2> HIDE DEF P
  <2> QED
    BY <1>1, <1>2, BuiltUp
<1> QED
  BY <1>3

\* Where keeps by a test, whatever set the elements are taken from.
LEMMA KeptRange ==
  ASSUME NEW S, NEW s \in Seq(S), NEW A, NEW B, \A x \in S : x \in ToSet(s) => (x \in A <=> x \in B)
  PROVE  Kept(s, A) = Kept(s, B)
<1> DEFINE R == ToSet(s)
<1>1. s \in Seq(R)
  <2>1. s \in [1..Len(s) -> R] /\ Len(s) \in Nat
    BY DEF ToSet
  <2> QED
    BY <2>1
<1>2. R \subseteq S
  BY DEF ToSet
<1> HIDE DEF R
<1>3. \A x \in R : x \in A <=> x \in B
  BY <1>2 DEF R
<1> QED
  BY <1>1, <1>3, KeptSame

\* f of each element of two sequences.
EachOfBoth(f, s, t) == Each(f, s \o t) = Each(f, s) \o Each(f, t)

LEMMA EachConcat ==
  ASSUME NEW S, NEW s \in Seq(S), NEW t \in Seq(S), NEW f
  PROVE  EachOfBoth(f, s, t)
<1>0. Len(s) \in Nat /\ Len(t) \in Nat
  OBVIOUS
<1> DEFINE U == {f[x] : x \in S}
<1>1. s \o t \in Seq(S) /\ Len(s \o t) = Len(s) + Len(t)
  OBVIOUS
<1>2. /\ Each(f, s) \in Seq(U) /\ Each(f, t) \in Seq(U) /\ Each(f, s \o t) \in Seq(U)
      /\ IsEach(Each(f, s), f, s) /\ IsEach(Each(f, t), f, t) /\ IsEach(Each(f, s \o t), f, s \o t)
  BY <1>1, EachRange
<1> HIDE DEF U
<1>3. Each(f, s) \o Each(f, t) \in Seq(U)
  BY <1>2
<1>4. Len(Each(f, s) \o Each(f, t)) = Len(s) + Len(t) /\ Len(Each(f, s \o t)) = Len(s) + Len(t)
  <2>1. Len(Each(f, s)) = Len(s) /\ Len(Each(f, t)) = Len(t) /\ Len(Each(f, s \o t)) = Len(s \o t)
    BY <1>2 DEF IsEach
  <2>2. Len(Each(f, s) \o Each(f, t)) = Len(Each(f, s)) + Len(Each(f, t))
    BY <1>2
  <2> QED
    BY <1>1, <2>1, <2>2
<1>5. ASSUME NEW k \in 1..(Len(s) + Len(t)) PROVE Each(f, s \o t)[k] = (Each(f, s) \o Each(f, t))[k]
  <2> DEFINE left == Each(f, s \o t)[k]
             right == (Each(f, s) \o Each(f, t))[k]
  <2> SUFFICES left = right
    OBVIOUS
  <2>1. Each(f, s \o t)[k] = f[(s \o t)[k]]
    BY <1>1, <1>2 DEF IsEach
  <2>2. CASE k <= Len(s)
    <3>1. k \in 1..Len(s) /\ (s \o t)[k] = s[k]
      BY <2>2
    <3>2. Each(f, s)[k] = f[s[k]] /\ Len(Each(f, s)) = Len(s)
      BY <1>2, <3>1 DEF IsEach
    <3>3. (Each(f, s) \o Each(f, t))[k] = Each(f, s)[k]
      BY <1>2, <3>1, <3>2
    <3> QED
      BY <2>1, <3>1, <3>2, <3>3
  <2>3. CASE k > Len(s)
    <3>1. k - Len(s) \in 1..Len(t) /\ (s \o t)[k] = t[k - Len(s)]
      BY <2>3
    <3>2. Each(f, t)[k - Len(s)] = f[t[k - Len(s)]] /\ Len(Each(f, s)) = Len(s) /\ Len(Each(f, t)) = Len(t)
      BY <1>2, <3>1 DEF IsEach
    <3>3. (Each(f, s) \o Each(f, t))[k] = Each(f, t)[k - Len(s)]
      BY <1>2, <2>3, <3>1, <3>2
    <3> QED
      BY <2>1, <3>1, <3>2, <3>3
  <2> HIDE DEF left, right
  <2> QED
    BY <1>0, <2>2, <2>3
<1>6. Each(f, s \o t) = Each(f, s) \o Each(f, t)
  <2> DEFINE a == Each(f, s \o t)
             b == Each(f, s) \o Each(f, t)
             n == Len(s) + Len(t)
  <2>1. a \in Seq(U)
    BY <1>2
  <2>5. b \in Seq(U)
    BY <1>3
  <2>2. Len(a) = n /\ Len(b) = n
    BY <1>4
  <2>3. \A k \in 1..n : a[k] = b[k]
    BY <1>5
  <2> HIDE DEF a, b, n
  <2>4. a = b
    BY <2>1, <2>2, <2>3, <2>5, SeqEqual
  <2> QED
    BY <2>4 DEF a, b
<1> QED
  BY <1>6 DEF EachOfBoth


-----------------------------------------------------------------------------
(* Sums: what is computed of a sequence piece by piece.                    *)

\* Flattening gives a sequence, and one more piece comes behind it.
FlattenLonger(seqs, x) == FlattenSeq(Append(seqs, x)) = FlattenSeq(seqs) \o x

LEMMA FlattenEmpty == FlattenSeq(<<>>) = <<>>
<1>1. Len(<<>>) = 0
  OBVIOUS
<1> QED
  BY <1>1 DEF FlattenSeq

LEMMA FlattenType ==
  ASSUME NEW S, NEW seqs \in Seq(Seq(S))
  PROVE  FlattenSeq(seqs) \in Seq(S)
<1>1. PICK f \in [0..Len(seqs) -> Seq(S)] : FlattenSeq(seqs) = f[Len(seqs)]
  BY Flattened
<1>2. Len(seqs) \in 0..Len(seqs)
  OBVIOUS
<1> QED
  BY <1>1, <1>2

LEMMA FlattenAppend ==
  ASSUME NEW S, NEW seqs \in Seq(Seq(S)), NEW x \in Seq(S)
  PROVE  FlattenLonger(seqs, x)
<1> DEFINE n == Len(seqs)
           t == Append(seqs, x)
<1>1. /\ n \in Nat /\ t \in Seq(Seq(S)) /\ Len(t) = n + 1 /\ t[n + 1] = x
      /\ \A k \in 1..n : t[k] = seqs[k]
  OBVIOUS
<1>2. PICK f \in [0..n -> Seq(S)] :
        /\ f[0] = <<>>
        /\ \A k \in 1..n : f[k] = f[k - 1] \o seqs[k]
        /\ FlattenSeq(seqs) = f[n]
  BY Flattened
<1>3. PICK g \in [0..Len(t) -> Seq(S)] :
        /\ g[0] = <<>>
        /\ \A k \in 1..Len(t) : g[k] = g[k - 1] \o t[k]
        /\ FlattenSeq(t) = g[Len(t)]
  <2> HIDE DEF t
  <2> QED
    BY <1>1, Flattened
<1> HIDE DEF n, t
<1>0. n \in Nat /\ Len(t) = n + 1
  BY <1>1
<1> DEFINE P == {k \in 0..n : g[k] = f[k]}
<1>4. 0 \in P
  BY <1>1, <1>2, <1>3
<1>5. ASSUME NEW k \in 0..n, k # n, k \in P PROVE k + 1 \in P
  <2>1. k + 1 \in 1..n /\ k + 1 \in 1..Len(t) /\ k + 1 \in 0..n /\ (k + 1) - 1 = k
    BY <1>0, <1>5
  <2>2. f[k + 1] = f[k] \o seqs[k + 1]
    BY <1>2, <2>1
  <2>3. g[k + 1] = g[k] \o t[k + 1]
    BY <1>3, <2>1
  <2>4. g[k] = f[k] /\ t[k + 1] = seqs[k + 1]
    BY <1>1, <1>5, <2>1
  <2> QED
    BY <2>1, <2>2, <2>3, <2>4
<1>6. \A k \in 0..n : k \in P
  <2> HIDE DEF P
  <2> QED
    BY <1>1, <1>4, <1>5, UpTo
<1>7. g[n] = f[n]
  BY <1>1, <1>6
<1>8. g[n + 1] = g[n] \o x
  <2>1. n + 1 \in 1..Len(t) /\ (n + 1) - 1 = n
    BY <1>1
  <2> QED
    BY <1>1, <1>3, <2>1
<1> QED
  BY <1>1, <1>2, <1>3, <1>7, <1>8 DEF FlattenLonger, t

\* Both of two sequences of pieces.
FlattenBoth(s, t) == FlattenSeq(s \o t) = FlattenSeq(s) \o FlattenSeq(t)

LEMMA FlattenConcat ==
  ASSUME NEW S, NEW s \in Seq(Seq(S)), NEW t \in Seq(Seq(S))
  PROVE  FlattenBoth(s, t)
<1> DEFINE A == Seq(S)
           P == {u \in Seq(A) : FlattenSeq(s \o u) = FlattenSeq(s) \o FlattenSeq(u)}
<1>1. <<>> \in P
  <2>1. FlattenSeq(s) \in Seq(S) /\ FlattenSeq(<<>>) = <<>>
    BY FlattenType, FlattenEmpty
  <2>2. s \o <<>> = s /\ FlattenSeq(s) \o <<>> = FlattenSeq(s)
    BY <2>1, ConcatEmptySeq
  <2> QED
    BY <2>1, <2>2
<1>2. ASSUME NEW u \in Seq(A), NEW x \in A, u \in P PROVE Append(u, x) \in P
  <2>1. s \o u \in Seq(A) /\ Append(u, x) \in Seq(A)
    OBVIOUS
  <2>2. s \o Append(u, x) = Append(s \o u, x)
    <3> HIDE DEF A
    <3>1. s \in Seq(A)
      BY DEF A
    <3> QED
      BY <3>1
  <2>3. /\ FlattenSeq(Append(u, x)) = FlattenSeq(u) \o x
        /\ FlattenSeq(Append(s \o u, x)) = FlattenSeq(s \o u) \o x
    <3>1. FlattenLonger(u, x) /\ FlattenLonger(s \o u, x)
      BY <2>1, FlattenAppend
    <3> QED
      BY <3>1 DEF FlattenLonger
  <2>4. FlattenSeq(s \o u) = FlattenSeq(s) \o FlattenSeq(u)
    BY <1>2
  <2>5. FlattenSeq(s) \in Seq(S) /\ FlattenSeq(u) \in Seq(S) /\ x \in Seq(S)
    BY FlattenType
  <2>6. (FlattenSeq(s) \o FlattenSeq(u)) \o x = FlattenSeq(s) \o (FlattenSeq(u) \o x)
    BY <2>5, ConcatAssociative
  <2> QED
    BY <2>1, <2>2, <2>3, <2>4, <2>6
<1>3. t \in P
  <2> HIDE DEF P
  <2>1. t \in Seq(A)
    OBVIOUS
  <2> QED
    BY <1>1, <1>2, <2>1, BuiltUp
<1> QED
  BY <1>3 DEF FlattenBoth


\* Of a sequence all of whose elements are wanted, or none.
LEMMA KeptWhole ==
  ASSUME NEW S, NEW s \in Seq(S), NEW A, \A k \in DOMAIN s : s[k] \in A
  PROVE  Kept(s, A) = s
<1>1. \A x \in S : x \in ToSet(s) => (x \in A <=> x \in S)
  BY DEF ToSet
<1>2. Kept(s, A) = Kept(s, S)
  BY <1>1, KeptRange
<1>3. Kept(s, S) = s
  BY KeptAll
<1> QED
  BY <1>2, <1>3

LEMMA KeptNothing ==
  ASSUME NEW S, NEW s \in Seq(S), NEW A, \A k \in DOMAIN s : s[k] \notin A
  PROVE  Kept(s, A) = <<>>
<1>1. \A x \in S : x \in ToSet(s) => (x \in A <=> x \in {})
  BY DEF ToSet
<1>2. Kept(s, A) = Kept(s, {})
  BY <1>1, KeptRange
<1>3. Kept(s, {}) = <<>>
  BY KeptNone
<1> QED
  BY <1>2, <1>3

\* f of what is kept, of both of two sequences and of a longer one.
Picked(f, s, A) == Each(f, Kept(s, A))
PickedBoth(f, s, t, A) == Picked(f, s \o t, A) = Picked(f, s, A) \o Picked(f, t, A)
PickedLonger(f, s, x, A) ==
  Picked(f, Append(s, x), A) = IF x \in A THEN Append(Picked(f, s, A), f[x]) ELSE Picked(f, s, A)

LEMMA PickedEmpty ==
  ASSUME NEW f, NEW A
  PROVE  Picked(f, <<>>, A) = <<>>
<1>1. Each(f, <<>>) = <<>>
  BY DEF Each
<1> QED
  BY <1>1, KeptEmpty DEF Picked

LEMMA PickedType ==
  ASSUME NEW S, NEW U, NEW f \in [S -> U], NEW s \in Seq(S), NEW A
  PROVE  Picked(f, s, A) \in Seq(U)
  BY KeptType, EachType DEF Picked

LEMMA PickedConcat ==
  ASSUME NEW S, NEW f, NEW s \in Seq(S), NEW t \in Seq(S), NEW A
  PROVE  PickedBoth(f, s, t, A)
<1>1. KeptOfBoth(s, t, A) /\ Kept(s, A) \in Seq(S) /\ Kept(t, A) \in Seq(S)
  BY KeptType, KeptConcat
<1>2. EachOfBoth(f, Kept(s, A), Kept(t, A))
  BY <1>1, EachConcat
<1> QED
  BY <1>1, <1>2 DEF KeptOfBoth, EachOfBoth, Picked, PickedBoth

LEMMA PickedAppend ==
  ASSUME NEW S, NEW f, NEW s \in Seq(S), NEW x \in S, NEW A
  PROVE  PickedLonger(f, s, x, A)
<1>1. KeptLonger(s, x, A) /\ Kept(s, A) \in Seq(S)
  BY KeptType, KeptAppend
<1>2. EachLonger(f, Kept(s, A), x)
  BY <1>1, EachAppend
<1> QED
  BY <1>1, <1>2 DEF KeptLonger, EachLonger, Picked, PickedLonger

\* Two sums over the same pieces.
LEMMA SameSums ==
  ASSUME NEW n \in Nat, NEW a, NEW b, a[0] = b[0],
         \A k \in 1..n : \E x : a[k] = a[k - 1] \o x /\ b[k] = b[k - 1] \o x
  PROVE  a[n] = b[n]
<1> DEFINE P == {k \in 0..n : a[k] = b[k]}
<1>1. 0 \in P
  OBVIOUS
<1>2. ASSUME NEW k \in 0..n, k # n, k \in P PROVE k + 1 \in P
  <2>1. k + 1 \in 1..n /\ k + 1 \in 0..n /\ (k + 1) - 1 = k
    BY <1>2
  <2>2. PICK x : a[k + 1] = a[k] \o x /\ b[k + 1] = b[k] \o x
    BY <2>1
  <2> QED
    BY <1>2, <2>1, <2>2
<1>3. \A k \in 0..n : k \in P
  <2> HIDE DEF P
  <2> QED
    BY <1>1, <1>2, UpTo
<1>4. n \in 0..n
  OBVIOUS
<1> QED
  BY <1>3, <1>4


\* What is picked of one element.
PickedOnce(f, x, T) == Picked(f, <<x>>, T) = IF x \in T THEN <<f[x]>> ELSE <<>>

LEMMA PickedOne ==
  ASSUME NEW f, NEW x, NEW T
  PROVE  PickedOnce(f, x, T)
<1>1. x \in {x} /\ <<>> \in Seq({x}) /\ Append(<<>>, x) = <<x>> /\ Append(<<>>, f[x]) = <<f[x]>>
  OBVIOUS
<1>2. PickedLonger(f, <<>>, x, T)
  BY <1>1, PickedAppend
<1>3. Picked(f, <<>>, T) = <<>>
  BY PickedEmpty
<1> QED
  BY <1>1, <1>2, <1>3, Zenon DEF PickedLonger, PickedOnce

LEMMA KeptOne ==
  ASSUME NEW x, NEW T
  PROVE  Kept(<<x>>, T) = IF x \in T THEN <<x>> ELSE <<>>
<1>1. x \in {x} /\ <<>> \in Seq({x}) /\ Append(<<>>, x) = <<x>>
  OBVIOUS
<1>2. KeptLonger(<<>>, x, T)
  BY <1>1, KeptAppend
<1>3. Kept(<<>>, T) = <<>>
  BY KeptEmpty
<1> QED
  BY <1>1, <1>2, <1>3, Zenon DEF KeptLonger

\* f of the elements of a short sequence.
LEMMA EachOne ==
  ASSUME NEW f, NEW x
  PROVE  Each(f, <<x>>) = <<f[x]>>
  BY DEF Each

LEMMA EachOfThree ==
  ASSUME NEW f, NEW x, NEW y, NEW z
  PROVE  Each(f, <<x, y, z>>) = <<f[x], f[y], f[z]>>
<1> DEFINE s == <<x, y, z>>
<1>1. DOMAIN s = 1..3 /\ s[1] = x /\ s[2] = y /\ s[3] = z
  OBVIOUS
<1>2. Each(f, s) = [k \in 1..3 |-> f[s[k]]]
  BY <1>1 DEF Each
<1>3. <<f[x], f[y], f[z]>> = [k \in 1..3 |-> f[s[k]]]
  BY <1>1
<1> QED
  BY <1>2, <1>3


-----------------------------------------------------------------------------
(* The last of a kind.                                                     *)

\* What no step after j changes.
LEMMA Stays ==
  ASSUME NEW n \in Nat, NEW j \in 0..n, NEW v, \A k \in (j + 1)..n : v[k] = v[k - 1]
  PROVE  v[n] = v[j]
<1> DEFINE P == {k \in 0..n : k >= j => v[k] = v[j]}
<1>1. 0 \in P
  BY j \in Nat
<1>2. ASSUME NEW k \in 0..n, k # n, k \in P PROVE k + 1 \in P
  <2>1. k + 1 \in 0..n /\ (k + 1) - 1 = k
    BY <1>2
  <2>2. CASE k + 1 > j
    <3>1. k + 1 \in (j + 1)..n /\ k >= j
      BY <2>1, <2>2
    <3>2. v[k + 1] = v[k] /\ v[k] = v[j]
      BY <1>2, <2>1, <3>1
    <3> QED
      BY <2>1, <3>2
  <2>3. CASE ~(k + 1 > j)
    <3>1. k + 1 >= j => k + 1 = j
      BY <2>3
    <3> QED
      BY <2>1, <3>1
  <2> QED
    BY <2>2, <2>3
<1>3. \A k \in 0..n : k \in P
  <2> HIDE DEF P
  <2> QED
    BY <1>1, <1>2, UpTo
<1>4. n \in 0..n /\ n >= j
  OBVIOUS
<1> QED
  BY <1>3, <1>4

\* A field that each wanted element sets has its last value at the end.
SetBy(v, s, T, g) == \A k \in 1..Len(s) : v[k] = IF s[k] \in T THEN g[s[k]] ELSE v[k - 1]
SetByLast(v, s, T, g) == v[Len(s)] = IF Kept(s, T) = <<>> THEN v[0] ELSE g[Last(Kept(s, T))]

LEMMA LastSets ==
  ASSUME NEW S, NEW s \in Seq(S), NEW T, NEW v, NEW g, SetBy(v, s, T, g)
  PROVE  SetByLast(v, s, T, g)
<1> DEFINE n == Len(s)
           kept == KeptUpTo(s, T)
           P == {k \in 0..n : v[k] = IF kept[k] = <<>> THEN v[0] ELSE g[Last(kept[k])]}
<1>1. n \in Nat /\ n \in 0..n /\ \A k \in 1..n : s[k] \in S
  OBVIOUS
<1>2. /\ \A k \in 0..n : kept[k] \in Seq(S \cap T)
      /\ kept[0] = <<>>
      /\ \A k \in 1..n : kept[k] = IF s[k] \in T THEN Append(kept[k - 1], s[k]) ELSE kept[k - 1]
  <2>1. kept \in [0..n -> Seq(S \cap T)] /\ Goes(kept, s, T)
    BY KeptSteps
  <2> HIDE DEF kept
  <2> QED
    BY <2>1 DEF Goes
<1> HIDE DEF n, kept
<1>3. 0 \in P
  BY <1>1, <1>2
<1>4. ASSUME NEW k \in 0..n, k # n, k \in P PROVE k + 1 \in P
  <2>1. k + 1 \in 1..n /\ k + 1 \in 0..n /\ (k + 1) - 1 = k
    BY <1>1, <1>4
  <2>2. v[k + 1] = IF s[k + 1] \in T THEN g[s[k + 1]] ELSE v[k]
    BY <2>1 DEF n, SetBy
  <2>3. kept[k + 1] = IF s[k + 1] \in T THEN Append(kept[k], s[k + 1]) ELSE kept[k]
    BY <1>2, <2>1
  <2>4. s[k + 1] \in T =>
          Append(kept[k], s[k + 1]) # <<>> /\ Last(Append(kept[k], s[k + 1])) = s[k + 1]
    <3>1. kept[k] \in Seq(S \cap T) /\ s[k + 1] \in S
      BY <1>1, <1>2, <2>1
    <3> QED
      BY <3>1 DEF Last
  <2>5. v[k] = IF kept[k] = <<>> THEN v[0] ELSE g[Last(kept[k])]
    BY <1>4
  <2> QED
    BY <2>1, <2>2, <2>3, <2>4, <2>5
<1>5. \A k \in 0..n : k \in P
  <2> HIDE DEF P
  <2> QED
    BY <1>1, <1>3, <1>4, UpTo
<1>6. v[n] = IF kept[n] = <<>> THEN v[0] ELSE g[Last(kept[n])]
  BY <1>1, <1>5
<1> QED
  BY <1>6 DEF n, kept, Kept, SetByLast

\* The last that is kept, if it is known which one that is, and that it is one.
LEMMA LastKept ==
  ASSUME NEW S, NEW s \in Seq(S), NEW T, NEW j \in DOMAIN s, s[j] \in T,
         \A k \in (j + 1)..Len(s) : s[k] \notin T
  PROVE  Kept(s, T) # <<>> /\ Last(Kept(s, T)) = s[j]
<1> DEFINE n == Len(s)
           kept == KeptUpTo(s, T)
<1>1. n \in Nat /\ j \in 1..n /\ j \in 0..n /\ j - 1 \in 0..n /\ \A k \in 1..n : s[k] \in S
  OBVIOUS
<1>2. /\ \A k \in 0..n : kept[k] \in Seq(S \cap T)
      /\ \A k \in 1..n : kept[k] = IF s[k] \in T THEN Append(kept[k - 1], s[k]) ELSE kept[k - 1]
  <2>1. kept \in [0..n -> Seq(S \cap T)] /\ Goes(kept, s, T)
    BY KeptSteps
  <2> HIDE DEF kept
  <2> QED
    BY <2>1 DEF Goes
<1> HIDE DEF n, kept
<1>3. \A k \in (j + 1)..n : kept[k] = kept[k - 1]
  <2>1. \A k \in (j + 1)..n : k \in 1..n /\ s[k] \notin T
    BY <1>1 DEF n
  <2> QED
    BY <1>2, <2>1
<1>4. kept[n] = kept[j]
  BY <1>1, <1>3, Stays
<1>5. kept[j] = Append(kept[j - 1], s[j]) /\ kept[j - 1] \in Seq(S \cap T) /\ s[j] \in S
  BY <1>1, <1>2
<1>6. kept[j] # <<>> /\ Last(kept[j]) = s[j]
  BY <1>5 DEF Last
<1> QED
  BY <1>4, <1>6 DEF Kept, kept, n

LEMMA LastIsOne ==
  ASSUME NEW S, NEW s \in Seq(S), NEW T, Kept(s, T) # <<>>
  PROVE  Last(Kept(s, T)) \in S /\ Last(Kept(s, T)) \in T
<1>1. Kept(s, T) \in Seq(S \cap T)
  BY KeptType
<1> DEFINE kept == Kept(s, T)
<1> HIDE DEF kept
<1>2. kept \in Seq(S \cap T) /\ kept # <<>>
  BY <1>1 DEF kept
<1>3. Last(kept) \in S \cap T
  BY <1>2 DEF Last
<1> QED
  BY <1>3 DEF kept

\* The elements of what is kept, and those that f makes of a sequence.
LEMMA KeptElements ==
  ASSUME NEW S, NEW s \in Seq(S), NEW T
  PROVE  ToSet(Kept(s, T)) = {x \in ToSet(s) : x \in T}
<1> DEFINE P == {t \in Seq(S) : ToSet(Kept(t, T)) = {x \in ToSet(t) : x \in T}}
<1>1. <<>> \in P
  <2>1. ToSet(<<>>) = {}
    BY DEF ToSet
  <2> QED
    BY <2>1, KeptEmpty
<1>2. \A t \in Seq(S) : \A x \in S : ToSet(Append(t, x)) = ToSet(t) \cup {x}
  <2> SUFFICES ASSUME NEW t \in Seq(S), NEW x \in S PROVE ToSet(Append(t, x)) = ToSet(t) \cup {x}
    OBVIOUS
  <2>1. /\ DOMAIN Append(t, x) = 1..(Len(t) + 1) /\ DOMAIN t = 1..Len(t) /\ Len(t) \in Nat
        /\ Append(t, x)[Len(t) + 1] = x /\ \A k \in 1..Len(t) : Append(t, x)[k] = t[k]
        /\ 1..(Len(t) + 1) = 1..Len(t) \cup {Len(t) + 1}
    OBVIOUS
  <2> DEFINE u == Append(t, x)
  <2> HIDE DEF u
  <2>2. \A k \in DOMAIN u : u[k] \in ToSet(t) \cup {x}
    BY <2>1 DEF ToSet, u
  <2>3. \A k \in DOMAIN t : k \in DOMAIN u /\ u[k] = t[k]
    BY <2>1 DEF u
  <2>4. Len(t) + 1 \in DOMAIN u /\ u[Len(t) + 1] = x
    BY <2>1 DEF u
  <2>5. ToSet(u) = ToSet(t) \cup {x}
    BY <2>2, <2>3, <2>4 DEF ToSet
  <2> QED
    BY <2>5 DEF u
<1>3. ASSUME NEW t \in Seq(S), NEW x \in S, t \in P PROVE Append(t, x) \in P
  <2>1. KeptLonger(t, x, T) /\ Kept(t, T) \in Seq(S)
    BY KeptAppend, KeptType
  <2>2. ToSet(Append(t, x)) = ToSet(t) \cup {x}
    BY <1>2
  <2>3. ToSet(Append(Kept(t, T), x)) = ToSet(Kept(t, T)) \cup {x}
    BY <1>2, <2>1
  <2>4. ToSet(Kept(t, T)) = {y \in ToSet(t) : y \in T} /\ Append(t, x) \in Seq(S)
    BY <1>3
  <2>5. CASE x \in T
    <3>1. ToSet(Kept(Append(t, x), T)) = {y \in ToSet(t) : y \in T} \cup {x}
      BY <2>1, <2>3, <2>4, <2>5 DEF KeptLonger
    <3> QED
      BY <2>2, <2>4, <2>5, <3>1
  <2>6. CASE x \notin T
    <3>1. ToSet(Kept(Append(t, x), T)) = {y \in ToSet(t) : y \in T}
      BY <2>1, <2>4, <2>6 DEF KeptLonger
    <3> QED
      BY <2>2, <2>4, <2>6, <3>1
  <2> QED
    BY <2>5, <2>6
<1>4. s \in P
  <2> HIDE DEF P
  <2> QED
    BY <1>1, <1>3, BuiltUp
<1> QED
  BY <1>4

LEMMA EachElements ==
  ASSUME NEW f, NEW s
  PROVE  ToSet(Each(f, s)) = {f[x] : x \in ToSet(s)}
  BY DEF Each, ToSet

\* The elements of the pieces are those of the whole.
LEMMA FlatElements ==
  ASSUME NEW S, NEW seqs \in Seq(Seq(S))
  PROVE  \A x : x \in ToSet(FlattenSeq(seqs)) <=> \E k \in DOMAIN seqs : x \in ToSet(seqs[k])
<1> DEFINE n == Len(seqs)
<1>1. PICK f \in [0..n -> Seq(S)] :
        /\ f[0] = <<>>
        /\ \A k \in 1..n : f[k] = f[k - 1] \o seqs[k]
        /\ FlattenSeq(seqs) = f[n]
  BY Flattened
<1>2. n \in Nat /\ DOMAIN seqs = 1..n /\ \A k \in 1..n : seqs[k] \in Seq(S)
  OBVIOUS
<1> HIDE DEF n
<1>3. ASSUME NEW s \in Seq(S), NEW t \in Seq(S) PROVE ToSet(s \o t) = ToSet(s) \cup ToSet(t)
  <2>1. /\ DOMAIN (s \o t) = 1..(Len(s) + Len(t)) /\ DOMAIN s = 1..Len(s) /\ DOMAIN t = 1..Len(t)
        /\ Len(s) \in Nat /\ Len(t) \in Nat
        /\ \A k \in 1..Len(s) : (s \o t)[k] = s[k]
        /\ \A k \in 1..(Len(s) + Len(t)) : k > Len(s) => (s \o t)[k] = t[k - Len(s)]
    OBVIOUS
  <2> DEFINE u == s \o t
  <2> HIDE DEF u
  <2>2. \A k \in DOMAIN s : k \in DOMAIN u /\ u[k] = s[k]
    BY <2>1 DEF u
  <2>3. \A k \in DOMAIN t : k + Len(s) \in DOMAIN u /\ u[k + Len(s)] = t[k]
    <3> SUFFICES ASSUME NEW k \in DOMAIN t PROVE k + Len(s) \in DOMAIN u /\ u[k + Len(s)] = t[k]
      OBVIOUS
    <3>1. k + Len(s) \in 1..(Len(s) + Len(t)) /\ k + Len(s) > Len(s) /\ (k + Len(s)) - Len(s) = k
      BY <2>1
    <3> QED
      BY <2>1, <3>1 DEF u
  <2>4. \A k \in DOMAIN u : (k \in DOMAIN s /\ u[k] = s[k]) \/ (k - Len(s) \in DOMAIN t /\ u[k] = t[k - Len(s)])
    <3> SUFFICES ASSUME NEW k \in DOMAIN u
                 PROVE  (k \in DOMAIN s /\ u[k] = s[k]) \/ (k - Len(s) \in DOMAIN t /\ u[k] = t[k - Len(s)])
      OBVIOUS
    <3>1. k \in 1..(Len(s) + Len(t))
      BY <2>1 DEF u
    <3>2. k \in 1..Len(s) \/ (k > Len(s) /\ k - Len(s) \in 1..Len(t))
      BY <2>1, <3>1
    <3> QED
      BY <2>1, <3>1, <3>2 DEF u
  <2>5. ToSet(u) = ToSet(s) \cup ToSet(t)
    BY <2>2, <2>3, <2>4 DEF ToSet
  <2> QED
    BY <2>5 DEF u
<1> DEFINE Has(k) == \A x : x \in ToSet(f[k]) <=> \E j \in 1..k : x \in ToSet(seqs[j])
           P == {k \in 0..n : Has(k)}
<1>4. 0 \in P
  <2>1. ToSet(<<>>) = {}
    BY DEF ToSet
  <2> QED
    BY <1>1, <1>2, <2>1
<1>5. ASSUME NEW k \in 0..n, k # n, k \in P PROVE k + 1 \in P
  <2>1. k + 1 \in 1..n /\ k + 1 \in 0..n /\ (k + 1) - 1 = k /\ 1..(k + 1) = 1..k \cup {k + 1}
    BY <1>2, <1>5
  <2>2. f[k + 1] = f[k] \o seqs[k + 1] /\ f[k] \in Seq(S) /\ seqs[k + 1] \in Seq(S)
    BY <1>1, <1>2, <2>1
  <2>3. ToSet(f[k + 1]) = ToSet(f[k]) \cup ToSet(seqs[k + 1])
    BY <1>3, <2>2
  <2>4. Has(k)
    BY <1>5
  <2>5. Has(k + 1)
    BY <2>1, <2>3, <2>4
  <2> QED
    BY <2>1, <2>5
<1>6. \A k \in 0..n : k \in P
  <2> HIDE DEF P
  <2> QED
    BY <1>2, <1>4, <1>5, UpTo
<1>7. n \in P
  <2>1. n \in 0..n
    BY <1>2
  <2> QED
    BY <1>6, <2>1, Zenon
<1> QED
  BY <1>1, <1>2, <1>7
=============================================================================
