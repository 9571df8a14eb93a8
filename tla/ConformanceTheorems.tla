------------------------ MODULE ConformanceTheorems -------------------------
(***************************************************************************)
(* When a sequence of events keeps the rules of AssertStreamToolCalls, and *)
(* that the translators of both formats keep them; and that the events of  *)
(* OpenAI chunks add up to the answer those chunks are of.  It is what the *)
(* proofs of the readers with such translators share.                      *)
(***************************************************************************)
EXTENDS OpenAIChunks, AnthropicEvents, TranslationTheorems, FiniteSetTheorems

\* The rules for event k that can be told from the events up to it: all but that
\* the Done is the last.  A Done for tool calls comes after the End of each.
AllowedAt(evs, k) ==
  LET e == evs[k] IN
  /\ e.kind \in {"text", "thinking"} => e.text # NoText
  /\ e.kind = "tool_start" =>
       e.index >= 0 /\ e.call # NoCall /\ ~SeenIndex(evs, k, e.index, "tool_end")
  /\ e.kind \in {"tool_args", "tool_end"} => SeenIndex(evs, k, e.index, "tool_start")
  /\ e.kind = "done" =>
       /\ e.usage.source # "nil" /\ e.finish # NoFinish
       /\ e.finish = "tool_calls" => \A i \in Indexes : ~SeenIndex(evs, k, i, "tool_start")
Lawful(evs) == \A k \in DOMAIN evs : AllowedAt(evs, k)

\* The calls that were started and not ended, and those that were ended.
Opened(evs) == {i \in Indexes : SeenIndex(evs, Len(evs) + 1, i, "tool_start")}
Ended(evs) == {i \in Indexes : SeenIndex(evs, Len(evs) + 1, i, "tool_end")}

\* e may come after events that left these calls open and those ended.
Fits(e, opened, ended) ==
  /\ e.kind \in {"text", "thinking"} => e.text # NoText
  /\ e.kind = "tool_start" => e.index \in Indexes \ ended /\ e.index >= 0 /\ e.call # NoCall
  /\ e.kind \in {"tool_args", "tool_end"} => e.index \in opened
  /\ e.kind = "done" => /\ e.usage.source # "nil" /\ e.finish # NoFinish
                        /\ e.finish = "tool_calls" => opened = {}

\* What was seen before event k depends on no event from k on.
LEMMA SeenSame ==
  ASSUME NEW S, NEW s, NEW t, NEW k \in Nat, NEW i, NEW kind,
         \A j \in 1..(k - 1) : s[j] = t[j]
  PROVE  SeenIndex(s, k, i, kind) <=> SeenIndex(t, k, i, kind)
<1>1. \A j \in 1..(k - 1) : \A l \in (j + 1)..(k - 1) : s[l] = t[l]
  OBVIOUS
<1> QED
  BY <1>1 DEF SeenIndex

\* One more event moves the mark of its own index, if it is a Start or an End.
LEMMA SeenNext ==
  ASSUME NEW s, NEW k \in Nat \ {0}, NEW i, NEW kind \in {"tool_start", "tool_end"}
  PROVE  SeenIndex(s, k + 1, i, kind)
           <=> IF IsMark(s[k], i) THEN s[k].kind = kind ELSE SeenIndex(s, k, i, kind)
<1>1. /\ (k + 1) - 1 = k /\ 1..k = 1..(k - 1) \cup {k} /\ k \in 1..k
      /\ \A j \in 1..k : k \in (j + 1)..k <=> j # k
      /\ \A j \in 1..(k - 1) : (j + 1)..k = (j + 1)..(k - 1) \cup {k}
      /\ \A l \in (k + 1)..k : FALSE
  OBVIOUS
<1>2. CASE IsMark(s[k], i)
  <2>1. s[k].index = i
    BY <1>2 DEF IsMark
  <2>2. ASSUME SeenIndex(s, k + 1, i, kind) PROVE s[k].kind = kind
    <3>1. PICK j \in 1..k : s[j].kind = kind /\ \A l \in (j + 1)..k : ~IsMark(s[l], i)
      BY <1>1, <2>2 DEF SeenIndex
    <3>2. j = k
      BY <1>1, <1>2, <3>1
    <3> QED
      BY <3>1, <3>2
  <2>3. ASSUME s[k].kind = kind PROVE SeenIndex(s, k + 1, i, kind)
    BY <1>1, <2>1, <2>3 DEF SeenIndex
  <2> QED
    BY <1>2, <2>2, <2>3
<1>3. CASE ~IsMark(s[k], i)
  <2>1. ASSUME SeenIndex(s, k + 1, i, kind) PROVE SeenIndex(s, k, i, kind)
    <3>1. PICK j \in 1..k : /\ s[j].kind = kind /\ s[j].index = i
                            /\ \A l \in (j + 1)..k : ~IsMark(s[l], i)
      BY <1>1, <2>1 DEF SeenIndex
    <3>2. IsMark(s[j], i)
      BY <3>1 DEF IsMark
    <3>3. j # k
      BY <1>3, <3>2
    <3>4. j \in 1..(k - 1)
      BY <1>1, <3>3
    <3> QED
      BY <1>1, <3>1, <3>4 DEF SeenIndex
  <2>2. ASSUME SeenIndex(s, k, i, kind) PROVE SeenIndex(s, k + 1, i, kind)
    <3>1. PICK j \in 1..(k - 1) : /\ s[j].kind = kind /\ s[j].index = i
                                  /\ \A l \in (j + 1)..(k - 1) : ~IsMark(s[l], i)
      BY <2>2 DEF SeenIndex
    <3>2. \A l \in (j + 1)..k : ~IsMark(s[l], i)
      BY <1>1, <1>3, <3>1
    <3> QED
      BY <1>1, <3>1, <3>2 DEF SeenIndex
  <2> QED
    BY <1>3, <2>1, <2>2
<1> QED
  BY <1>2, <1>3

\* An event that fits keeps the rules.
LEMMA Appended ==
  ASSUME NEW evs \in Seq(K1Event), Lawful(evs), NEW e \in K1Event,
         Fits(e, Opened(evs), Ended(evs))
  PROVE  /\ Append(evs, e) \in Seq(K1Event) /\ Lawful(Append(evs, e))
         /\ Opened(Append(evs, e)) = CASE e.kind = "tool_start" -> Opened(evs) \cup {e.index}
                                       [] e.kind = "tool_end" -> Opened(evs) \ {e.index}
                                       [] OTHER -> Opened(evs)
         /\ Ended(Append(evs, e)) = IF e.kind = "tool_end" THEN Ended(evs) \cup {e.index}
                                    ELSE Ended(evs)
<1> DEFINE n == Len(evs)
           new == Append(evs, e)
<1>1. /\ n \in Nat /\ new \in Seq(K1Event) /\ Len(new) = n + 1 /\ DOMAIN new = 1..(n + 1)
      /\ new[n + 1] = e /\ DOMAIN evs = 1..n /\ \A k \in 1..n : new[k] = evs[k]
  OBVIOUS
<1> HIDE DEF n, new
<1>2. ASSUME NEW k \in 1..(n + 1), NEW i, NEW kind
      PROVE  SeenIndex(new, k, i, kind) <=> SeenIndex(evs, k, i, kind)
  <2>1. k \in Nat /\ \A j \in 1..(k - 1) : new[j] = evs[j]
    BY <1>1
  <2> QED
    BY <2>1, SeenSame
<1>3. ASSUME NEW i, NEW kind \in {"tool_start", "tool_end"}
      PROVE  SeenIndex(new, n + 2, i, kind)
               <=> IF IsMark(e, i) THEN e.kind = kind ELSE SeenIndex(evs, n + 1, i, kind)
  <2>1. n + 1 \in Nat \ {0} /\ (n + 1) + 1 = n + 2 /\ n + 1 \in 1..(n + 1)
    BY <1>1
  <2>2. SeenIndex(new, n + 2, i, kind)
          <=> IF IsMark(e, i) THEN e.kind = kind ELSE SeenIndex(new, n + 1, i, kind)
    BY <1>1, <2>1, SeenNext
  <2> QED
    BY <1>2, <2>1, <2>2
<1>4. /\ Opened(evs) = {i \in Indexes : SeenIndex(evs, n + 1, i, "tool_start")}
      /\ Ended(evs) = {i \in Indexes : SeenIndex(evs, n + 1, i, "tool_end")}
  BY DEF Opened, Ended, n
<1>5. /\ Opened(new) = {i \in Indexes : SeenIndex(new, n + 2, i, "tool_start")}
      /\ Ended(new) = {i \in Indexes : SeenIndex(new, n + 2, i, "tool_end")}
  <2>1. Len(new) + 1 = n + 2
    BY <1>1
  <2> QED
    BY <2>1 DEF Opened, Ended
<1>6. Lawful(new)
  <2> SUFFICES ASSUME NEW k \in 1..(n + 1) PROVE AllowedAt(new, k)
    BY <1>1 DEF Lawful
  <2>1. CASE k # n + 1
    <3>1. k \in 1..n /\ new[k] = evs[k]
      BY <1>1, <2>1
    <3>2. AllowedAt(evs, k)
      BY <1>1, <3>1 DEF Lawful
    <3>3. \A i, kind : SeenIndex(new, k, i, kind) <=> SeenIndex(evs, k, i, kind)
      BY <1>2
    <3> QED
      BY <3>1, <3>2, <3>3 DEF AllowedAt
  <2>2. CASE k = n + 1
    <3>1. new[k] = e /\ \A i, kind : SeenIndex(new, k, i, kind) <=> SeenIndex(evs, n + 1, i, kind)
      BY <1>1, <1>2, <2>2
    <3>2. e.kind = "tool_start" => ~SeenIndex(new, k, e.index, "tool_end")
      BY <1>4, <3>1 DEF Fits
    <3>3. e.kind \in {"tool_args", "tool_end"} => SeenIndex(new, k, e.index, "tool_start")
      BY <1>4, <3>1 DEF Fits
    <3>4. e.kind = "done" /\ e.finish = "tool_calls" =>
            \A i \in Indexes : ~SeenIndex(new, k, i, "tool_start")
      BY <1>4, <3>1 DEF Fits
    <3> QED
      BY <3>1, <3>2, <3>3, <3>4 DEF AllowedAt, Fits
  <2> QED
    BY <2>1, <2>2
<1>7. Opened(new) = CASE e.kind = "tool_start" -> Opened(evs) \cup {e.index}
                      [] e.kind = "tool_end" -> Opened(evs) \ {e.index}
                      [] OTHER -> Opened(evs)
  <2>1. CASE e.kind = "tool_start"
    BY <1>3, <1>4, <1>5, <2>1 DEF IsMark, Fits
  <2>2. CASE e.kind = "tool_end"
    BY <1>3, <1>4, <1>5, <2>2 DEF IsMark, Fits
  <2>3. CASE e.kind \notin {"tool_start", "tool_end"}
    BY <1>3, <1>4, <1>5, <2>3 DEF IsMark
  <2> QED
    BY <2>1, <2>2, <2>3
<1>8. Ended(new) = IF e.kind = "tool_end" THEN Ended(evs) \cup {e.index} ELSE Ended(evs)
  <2>1. CASE e.kind = "tool_start"
    BY <1>3, <1>4, <1>5, <2>1 DEF IsMark, Fits
  <2>2. CASE e.kind = "tool_end"
    BY <1>3, <1>4, <1>5, <2>2 DEF IsMark, Fits, Opened
  <2>3. CASE e.kind \notin {"tool_start", "tool_end"}
    BY <1>3, <1>4, <1>5, <2>3 DEF IsMark
  <2> QED
    BY <2>1, <2>2, <2>3
<1> QED
  BY <1>1, <1>6, <1>7, <1>8 DEF new

-----------------------------------------------------------------------------
(* Sequences of events.                                                    *)

\* evs keeps the rules, with these calls open and those ended.
Keeps(evs, opened, ended) ==
  evs \in Seq(K1Event) /\ Lawful(evs) /\ Opened(evs) = opened /\ Ended(evs) = ended

LEMMA NothingKeeps == Keeps(<<>>, {}, {})
  BY DEF Keeps, Lawful, Opened, Ended, SeenIndex

\* One event at a time.
LEMMA TextKeeps ==
  ASSUME NEW opened, NEW ended, NEW evs, Keeps(evs, opened, ended), NEW t \in Texts \cup {NoText},
         t # NoText
  PROVE  Keeps(Append(evs, TextDelta(t)), opened, ended)
         /\ Keeps(Append(evs, ThinkingDelta(t)), opened, ended)
<1>1. ASSUME NEW e \in K1Event, e.kind \in {"text", "thinking"}, e.text = t
      PROVE  Keeps(Append(evs, e), opened, ended)
  <2>1. Fits(e, opened, ended)
    BY <1>1 DEF Fits
  <2> QED
    BY <1>1, <2>1, Appended DEF Keeps
<1>2. /\ TextDelta(t) \in K1Event /\ TextDelta(t).kind = "text" /\ TextDelta(t).text = t
      /\ ThinkingDelta(t) \in K1Event /\ ThinkingDelta(t).kind = "thinking" /\ ThinkingDelta(t).text = t
  <2>1. NoUsage \in Usage
    BY DEF Usage
  <2> QED
    BY <2>1 DEF K1Event, Blank, TextDelta, ThinkingDelta
<1> QED
  BY <1>1, <1>2

LEMMA StartKeeps ==
  ASSUME NEW opened, NEW ended, NEW evs, Keeps(evs, opened, ended),
         NEW i \in Indexes \ ended, NEW c \in Calls \cup {NoCall}, c # NoCall
  PROVE  Keeps(Append(evs, ToolStart(i, c)), opened \cup {i}, ended)
<1> DEFINE e == ToolStart(i, c)
<1>1. e \in K1Event /\ e.kind = "tool_start" /\ e.index = i /\ e.call = c
  <2>1. NoUsage \in Usage
    BY DEF Usage
  <2> QED
    BY <2>1 DEF K1Event, Blank, ToolStart
<1> HIDE DEF e
<1>2. Fits(e, opened, ended)
  BY <1>1, IndexAssumption DEF Fits
<1>3. Keeps(Append(evs, e), opened \cup {i}, ended)
  BY <1>1, <1>2, Appended DEF Keeps
<1> QED
  BY <1>3 DEF e

LEMMA ArgsKeeps ==
  ASSUME NEW opened, NEW ended, NEW evs, Keeps(evs, opened, ended),
         NEW i \in opened, NEW c \in Calls \cup {NoCall}, NEW t \in Texts \cup {NoText}
  PROVE  Keeps(Append(evs, ToolArgs(i, c, t)), opened, ended)
<1> DEFINE e == ToolArgs(i, c, t)
<1>0. i \in Indexes
  BY DEF Keeps, Opened
<1>1. e \in K1Event /\ e.kind = "tool_args" /\ e.index = i
  <2>1. NoUsage \in Usage
    BY DEF Usage
  <2> QED
    BY <1>0, <2>1 DEF K1Event, Blank, ToolArgs
<1> HIDE DEF e
<1>2. Fits(e, opened, ended)
  BY <1>1 DEF Fits
<1>3. Keeps(Append(evs, e), opened, ended)
  BY <1>1, <1>2, Appended DEF Keeps
<1> QED
  BY <1>3 DEF e

LEMMA EndKeeps ==
  ASSUME NEW opened, NEW ended, NEW evs, Keeps(evs, opened, ended),
         NEW i \in opened, NEW c \in Calls \cup {NoCall}
  PROVE  Keeps(Append(evs, ToolEnd(i, c)), opened \ {i}, ended \cup {i})
<1> DEFINE e == ToolEnd(i, c)
<1>0. i \in Indexes
  BY DEF Keeps, Opened
<1>1. e \in K1Event /\ e.kind = "tool_end" /\ e.index = i
  <2>1. NoUsage \in Usage
    BY DEF Usage
  <2> QED
    BY <1>0, <2>1 DEF K1Event, Blank, ToolEnd
<1> HIDE DEF e
<1>2. Fits(e, opened, ended)
  BY <1>1 DEF Fits
<1>3. Keeps(Append(evs, e), opened \ {i}, ended \cup {i})
  BY <1>1, <1>2, Appended DEF Keeps
<1> QED
  BY <1>3 DEF e

LEMMA DoneKeeps ==
  ASSUME NEW opened, NEW ended, NEW evs, Keeps(evs, opened, ended),
         NEW u \in Usage, u.source # "nil", NEW f \in FinishReasons \cup {NoFinish}, f # NoFinish,
         f = "tool_calls" => opened = {}
  PROVE  Keeps(Append(evs, Done(u, f)), opened, ended)
<1> DEFINE e == Done(u, f)
<1>1. e \in K1Event /\ e.kind = "done" /\ e.usage = u /\ e.finish = f
  BY DEF K1Event, Blank, Done
<1> HIDE DEF e
<1>2. Fits(e, opened, ended)
  BY <1>1 DEF Fits
<1>3. Keeps(Append(evs, e), opened, ended)
  BY <1>1, <1>2, Appended DEF Keeps
<1> QED
  BY <1>3 DEF e

\* What keeps the rules to its end conforms if nothing comes after a Done.
LEMMA KeepsConforms ==
  ASSUME NEW evs, Lawful(evs), \A k \in DOMAIN evs : evs[k].kind = "done" => k = Len(evs)
  PROVE  K1Conforms(evs)
  BY DEF Lawful, AllowedAt, K1Conforms, ConformsAt

-----------------------------------------------------------------------------
(* The translator of OpenAI chunks.                                        *)

\* A finite set of indexes can be sorted.
LEMMA SortedExists ==
  ASSUME NEW indexes \in SUBSET Nat, IsFiniteSet(indexes)
  PROVE  \E s \in [1..Cardinality(indexes) -> indexes] : Ascending(s)
<1> DEFINE n == Cardinality(indexes)
           P == {k \in 0..n : \A T \in SUBSET Nat :
                   IsFiniteSet(T) /\ Cardinality(T) = k => \E s \in [1..k -> T] : Ascending(s)}
<1>1. n \in Nat
  BY FS_CardinalityType
<1> HIDE DEF n
<1>2. 0 \in P
  <2> SUFFICES ASSUME NEW T \in SUBSET Nat, IsFiniteSet(T), Cardinality(T) = 0
               PROVE  \E s \in [1..0 -> T] : Ascending(s)
    BY <1>1
  <2>1. T = {}
    BY FS_EmptySet
  <2>2. <<>> \in [1..0 -> T] /\ DOMAIN <<>> = {}
    OBVIOUS
  <2> QED
    BY <2>1, <2>2 DEF Ascending
<1>3. ASSUME NEW k \in 0..n, k # n, k \in P PROVE k + 1 \in P
  <2> SUFFICES ASSUME NEW T \in SUBSET Nat, IsFiniteSet(T), Cardinality(T) = k + 1
               PROVE  \E s \in [1..(k + 1) -> T] : Ascending(s)
    BY <1>1, <1>3
  <2>0. k \in Nat
    BY <1>1
  <2>1. T # {}
    BY <2>0, FS_EmptySet
  <2>2. PICK x \in T : \A y \in T : x <= y
    BY <2>1, LeastNumber
  <2> DEFINE U == T \ {x}
  <2>3. U \in SUBSET Nat /\ IsFiniteSet(U) /\ Cardinality(U) = k
    <3>1. IsFiniteSet(T \ {x}) /\ Cardinality(T \ {x}) = Cardinality(T) - 1
      BY <2>2, FS_RemoveElement, Zenon
    <3> QED
      BY <2>0, <3>1
  <2>4. PICK r \in [1..k -> U] : Ascending(r)
    <3> HIDE DEF U
    <3> QED
      BY <1>3, <2>3
  <2> DEFINE s == [j \in 1..(k + 1) |-> IF j = 1 THEN x ELSE r[j - 1]]
  <2>5. \A j \in 1..(k + 1) : j # 1 => j - 1 \in 1..k /\ s[j] = r[j - 1] /\ r[j - 1] \in U
    BY <2>0
  <2>6. s[1] = x /\ 1 \in 1..(k + 1)
    BY <2>0
  <2>7. s \in [1..(k + 1) -> T]
    BY <2>2, <2>5
  <2>8. ASSUME NEW i \in 1..(k + 1), NEW j \in 1..(k + 1), i < j PROVE s[i] < s[j]
    <3>1. j # 1 /\ s[j] = r[j - 1] /\ r[j - 1] \in U /\ j - 1 \in 1..k
      BY <2>5, <2>8
    <3>2. CASE i = 1
      <4>1. s[j] \in T /\ s[j] # x /\ x <= s[j] /\ x \in Nat /\ s[j] \in Nat
        BY <2>2, <3>1
      <4> HIDE DEF s
      <4> QED
        BY <2>6, <3>2, <4>1
    <3>3. CASE i # 1
      <4>1. s[i] = r[i - 1] /\ i - 1 \in 1..k /\ i - 1 < j - 1
        BY <2>5, <2>8, <3>3
      <4>2. r[i - 1] < r[j - 1]
        BY <2>4, <3>1, <4>1 DEF Ascending
      <4> HIDE DEF s
      <4> QED
        BY <3>1, <4>1, <4>2
    <3> QED
      BY <3>2, <3>3
  <2>10. DOMAIN s = 1..(k + 1)
    OBVIOUS
  <2> HIDE DEF s
  <2> QED
    BY <2>7, <2>8, <2>10 DEF Ascending
<1>4. \A k \in 0..n : k \in P
  <2> HIDE DEF P
  <2> QED
    BY <1>1, <1>2, <1>3, UpTo
<1>5. n \in P
  <2>1. n \in 0..n
    BY <1>1
  <2> QED
    BY <1>4, <2>1, Zenon
<1> QED
  BY <1>5 DEF n

LEMMA SortedType ==
  ASSUME NEW indexes \in SUBSET Nat, IsFiniteSet(indexes)
  PROVE  /\ Sorted(indexes) \in [1..Cardinality(indexes) -> indexes]
         /\ \A j, k \in DOMAIN Sorted(indexes) : j # k => Sorted(indexes)[j] # Sorted(indexes)[k]
         /\ \A i \in indexes : \E k \in DOMAIN Sorted(indexes) : Sorted(indexes)[k] = i
<1> DEFINE n == Cardinality(indexes)
           all == Sorted(indexes)
<1>1. n \in Nat
  BY FS_CardinalityType
<1>3. all \in [1..n -> indexes] /\ Ascending(all)
  BY SortedExists DEF Sorted
<1> HIDE DEF n, all
<1>4. \A j, k \in 1..n : j # k => all[j] # all[k]
  <2>1. ASSUME NEW j \in 1..n, NEW k \in 1..n, j < k PROVE all[j] # all[k]
    <3>1. all[j] < all[k] /\ all[j] \in Nat
      BY <1>3, <2>1 DEF Ascending
    <3> QED
      BY <3>1
  <2>2. \A j, k \in 1..n : j # k => j < k \/ k < j
    BY <1>1
  <2> QED
    BY <2>1, <2>2
<1>5. \A i \in indexes : \E k \in 1..n : all[k] = i
  <2>1. all \in Injection(1..n, indexes)
    BY <1>3, <1>4 DEF Injection, IsInjective
  <2>2. IsFiniteSet(1..n) /\ Cardinality(1..n) = n
    BY <1>1, FS_Interval
  <2>3. all \in Surjection(1..n, indexes)
    BY <2>1, <2>2, FS_Injection DEF n
  <2> QED
    BY <2>3 DEF Surjection
<1> QED
  BY <1>3, <1>4, <1>5 DEF n, all

\* The calls among the first k of s.
Among(s, k) == {s[j] : j \in 1..k}

\* The Ends of all open calls.
LEMMA EndsKeep ==
  ASSUME NEW opened, IsFiniteSet(opened), NEW evs, Keeps(evs, opened, {})
  PROVE  /\ OAEndEvents(opened) \in Seq(K1Event)
         /\ Keeps(evs \o OAEndEvents(opened), {}, opened)
<1> DEFINE n == Cardinality(opened)
           s == Sorted(opened)
           ends == OAEndEvents(opened)
<1>1. opened \in SUBSET Nat /\ opened \subseteq Indexes /\ n \in Nat /\ evs \in Seq(K1Event)
  BY FS_CardinalityType, IndexAssumption DEF Keeps, Opened
<1>2. /\ s \in [1..n -> opened]
      /\ \A j, k \in 1..n : j # k => s[j] # s[k]
      /\ \A i \in opened : \E k \in 1..n : s[k] = i
  <2>1. s \in [1..n -> opened]
    BY <1>1, SortedType
  <2>2. DOMAIN s = 1..n
    BY <2>1
  <2> QED
    BY <1>1, <2>1, <2>2, SortedType
<1>3. ends \in Seq(K1Event) /\ Len(ends) = n /\ \A k \in 1..n : ends[k] = ToolEnd(s[k], NoCall)
  <2>1. \A i \in Indexes : ToolEnd(i, NoCall) \in K1Event
    <3>1. NoUsage \in Usage
      BY DEF Usage
    <3> QED
      BY <3>1 DEF K1Event, Blank, ToolEnd
  <2>2. DOMAIN s = 1..n /\ \A k \in 1..n : s[k] \in Indexes
    BY <1>1, <1>2
  <2>3. ends = [k \in 1..n |-> ToolEnd(s[k], NoCall)]
    BY <2>2 DEF OAEndEvents
  <2>4. \A k \in 1..n : ToolEnd(s[k], NoCall) \in K1Event
    BY <2>1, <2>2
  <2>5. ends \in [1..n -> K1Event]
    BY <2>3, <2>4
  <2> QED
    BY <1>1, <2>3, <2>5
<1> HIDE DEF n, s, ends
<1>4. PICK g : g \in StepsOf(K1Event, evs, ends)
  BY <1>1, <1>3, OneByOne
<1>5. /\ g[0] = evs
      /\ \A k \in 1..n : g[k] = Append(g[k - 1], ends[k])
      /\ g[n] = evs \o ends
  BY <1>3, <1>4 DEF StepsOf
<1> DEFINE P == {k \in 0..n : Keeps(g[k], opened \ Among(s, k), Among(s, k))}
<1>6. 0 \in P
  <2>1. Among(s, 0) = {} /\ opened \ {} = opened /\ 0 \in 0..n
    BY <1>1 DEF Among
  <2> QED
    BY <1>5, <2>1
<1>7. ASSUME NEW k \in 0..n, k # n, k \in P PROVE k + 1 \in P
  <2>1. k + 1 \in 1..n /\ k + 1 \in 0..n /\ (k + 1) - 1 = k /\ 1..(k + 1) = 1..k \cup {k + 1}
        /\ \A j \in 1..k : j \in 1..n /\ j # k + 1
    BY <1>1, <1>7
  <2>2. g[k + 1] = Append(g[k], ToolEnd(s[k + 1], NoCall))
    BY <1>3, <1>5, <2>1
  <2>3. s[k + 1] \in opened \ Among(s, k)
    <3>1. s[k + 1] \in opened
      BY <1>2, <2>1
    <3>2. \A j \in 1..k : s[j] # s[k + 1]
      BY <1>2, <2>1
    <3> QED
      BY <3>1, <3>2 DEF Among
  <2>4. Among(s, k + 1) = Among(s, k) \cup {s[k + 1]}
    BY <2>1, Zenon DEF Among
  <2>5. Keeps(g[k], opened \ Among(s, k), Among(s, k))
    BY <1>7
  <2>6. NoCall \in Calls \cup {NoCall}
    OBVIOUS
  <2>7. Keeps(Append(g[k], ToolEnd(s[k + 1], NoCall)), (opened \ Among(s, k)) \ {s[k + 1]},
              Among(s, k) \cup {s[k + 1]})
    BY <2>3, <2>5, <2>6, EndKeeps, Zenon
  <2>8. (opened \ Among(s, k)) \ {s[k + 1]} = opened \ Among(s, k + 1)
    BY <2>4
  <2>9. Keeps(g[k + 1], opened \ Among(s, k + 1), Among(s, k + 1))
    BY <2>2, <2>4, <2>7, <2>8, Zenon
  <2> QED
    BY <2>1, <2>9
<1>8. \A k \in 0..n : k \in P
  <2> HIDE DEF P
  <2> QED
    BY <1>1, <1>6, <1>7, UpTo
<1>9. Keeps(g[n], opened \ Among(s, n), Among(s, n))
  <2>1. n \in 0..n
    BY <1>1
  <2> QED
    BY <1>8, <2>1
<1>10. Among(s, n) = opened
  BY <1>2 DEF Among
<1>11. opened \ Among(s, n) = {}
  BY <1>10
<1>12. Keeps(evs \o ends, {}, opened)
  BY <1>5, <1>9, <1>10, <1>11, Zenon
<1> QED
  BY <1>3, <1>12 DEF ends

LEMMA EventsAssociate ==
  \A a, b, c \in Seq(K1Event) : /\ a \o b \in Seq(K1Event)
                                /\ (a \o b) \o c = a \o (b \o c)
  BY ConcatAssociative

\* One delta of a call that is open or that it names.
LEMMA ToolKeeps ==
  ASSUME NEW opened, NEW evs, Keeps(evs, opened, {}), NEW t \in ToolDelta,
         t.call # NoCall \/ t.index \in opened
  PROVE  /\ OAToolEvents(t) \in Seq(K1Event)
         /\ Keeps(evs \o OAToolEvents(t), opened \cup {t.index}, {})
<1> DEFINE i == t.index
           start == ToolStart(i, t.call)
           args == ToolArgs(i, t.call, t.args)
           now == opened \cup {i}
<1>1. /\ i \in Indexes /\ t.call \in Calls \cup {NoCall} /\ t.args \in Texts \cup {NoText}
      /\ evs \in Seq(K1Event)
  BY DEF ToolDelta, Keeps
<1>2. start \in K1Event /\ args \in K1Event
  <2>1. NoUsage \in Usage
    BY DEF Usage
  <2> QED
    BY <1>1, <2>1 DEF K1Event, Blank, ToolStart, ToolArgs
<1>3. t.call # NoCall => Keeps(Append(evs, start), now, {})
  <2>1. i \in Indexes \ {}
    BY <1>1
  <2> HIDE DEF i
  <2> QED
    BY <1>1, <2>1, StartKeeps
<1>4. t.call = NoCall => now = opened
  OBVIOUS
<1>5. ASSUME NEW s, Keeps(s, now, {}) PROVE Keeps(Append(s, args), now, {})
  <2>1. i \in now
    OBVIOUS
  <2> HIDE DEF i, now
  <2> QED
    BY <1>1, <1>5, <2>1, ArgsKeeps
<1> HIDE DEF start, args
<1>6. /\ t.call # NoCall /\ t.args # NoText => OAToolEvents(t) = <<start>> \o <<args>>
      /\ t.call # NoCall /\ t.args = NoText => OAToolEvents(t) = <<start>>
      /\ t.call = NoCall /\ t.args # NoText => OAToolEvents(t) = <<args>>
      /\ t.call = NoCall /\ t.args = NoText => OAToolEvents(t) = <<>>
  <2>1. OAToolEvents(t) = (IF t.call # NoCall THEN <<start>> ELSE <<>>)
                            \o (IF t.args # NoText THEN <<args>> ELSE <<>>)
    BY Zenon DEF OAToolEvents, start, args
  <2>2. <<start>> \o <<>> = <<start>> /\ <<>> \o <<args>> = <<args>> /\ <<>> \o <<>> = <<>>
    BY <1>2
  <2> QED
    BY <2>1, <2>2, Zenon
<1> HIDE DEF i, now
<1>7. /\ evs \o (<<start>> \o <<args>>) = Append(Append(evs, start), args)
      /\ evs \o <<start>> = Append(evs, start) /\ evs \o <<args>> = Append(evs, args)
      /\ evs \o <<>> = evs
  <2>1. <<start>> \in Seq(K1Event) /\ <<args>> \in Seq(K1Event)
    BY <1>2
  <2>2. evs \o (<<start>> \o <<args>>) = (evs \o <<start>>) \o <<args>>
    BY <1>1, <2>1, ConcatAssociative
  <2>3. evs \o <<start>> = Append(evs, start) /\ evs \o <<args>> = Append(evs, args)
    BY <1>1, <1>2, AppendIsConcat
  <2>4. Append(evs, start) \in Seq(K1Event)
    BY <1>1, <1>2
  <2>5. Append(evs, start) \o <<args>> = Append(Append(evs, start), args)
    BY <1>2, <2>4, AppendIsConcat
  <2>6. evs \o <<>> = evs
    BY <1>1
  <2> QED
    BY <2>2, <2>3, <2>5, <2>6, Zenon
<1>8. <<start>> \o <<args>> \in Seq(K1Event) /\ <<start>> \in Seq(K1Event)
      /\ <<args>> \in Seq(K1Event) /\ <<>> \in Seq(K1Event)
  BY <1>2
<1>9. CASE t.call # NoCall /\ t.args # NoText
  BY <1>3, <1>5, <1>6, <1>7, <1>8, <1>9 DEF now, i
<1>10. CASE t.call # NoCall /\ t.args = NoText
  BY <1>3, <1>6, <1>7, <1>8, <1>10 DEF now, i
<1>11. CASE t.call = NoCall /\ t.args # NoText
  BY <1>4, <1>5, <1>6, <1>7, <1>8, <1>11 DEF now, i
<1>12. CASE t.call = NoCall /\ t.args = NoText
  BY <1>4, <1>6, <1>7, <1>8, <1>12 DEF now, i
<1> QED
  BY <1>9, <1>10, <1>11, <1>12

\* The indexes of the first k deltas.
IndexesOf(tools, k) == {tools[l].index : l \in 1..k}
ToolSeqs(tools) == [k \in DOMAIN tools |-> OAToolEvents(tools[k])]

\* Deltas of calls that are open or that they name.
LEMMA ToolsKeep ==
  ASSUME NEW opened, NEW evs, Keeps(evs, opened, {}), NEW tools \in Seq(ToolDelta),
         \A m \in DOMAIN tools : \/ tools[m].index \in opened
                                 \/ \E l \in 1..m : Names(tools[l], tools[m].index)
  PROVE  /\ FlattenSeq(ToolSeqs(tools)) \in Seq(K1Event)
         /\ Keeps(evs \o FlattenSeq(ToolSeqs(tools)), opened \cup IndexesOf(tools, Len(tools)), {})
<1> DEFINE n == Len(tools)
           seqs == ToolSeqs(tools)
<1>1. n \in Nat /\ DOMAIN tools = 1..n /\ (\A k \in 1..n : tools[k] \in ToolDelta) /\ evs \in Seq(K1Event)
  BY DEF Keeps
<1>2. ASSUME NEW t \in ToolDelta PROVE OAToolEvents(t) \in Seq(K1Event)
  <2>1. NoUsage \in Usage
    BY DEF Usage
  <2>2. ToolStart(t.index, t.call) \in K1Event /\ ToolArgs(t.index, t.call, t.args) \in K1Event
    BY <2>1 DEF K1Event, Blank, ToolStart, ToolArgs, ToolDelta
  <2> QED
    BY <2>2 DEF OAToolEvents
<1>3. /\ seqs \in Seq(Seq(K1Event)) /\ Len(seqs) = n
      /\ \A k \in 1..n : seqs[k] = OAToolEvents(tools[k])
  <2>1. \A k \in 1..n : OAToolEvents(tools[k]) \in Seq(K1Event)
    BY <1>1, <1>2
  <2>2. seqs = [k \in 1..n |-> OAToolEvents(tools[k])]
    BY <1>1, Zenon DEF ToolSeqs
  <2> HIDE DEF seqs
  <2>3. seqs \in [1..n -> Seq(K1Event)]
    BY <2>1, <2>2
  <2> QED
    BY <1>1, <2>2, <2>3
<1>4. PICK f \in [0..Len(seqs) -> Seq(K1Event)] :
        /\ f[0] = <<>>
        /\ \A k \in 1..Len(seqs) : f[k] = f[k - 1] \o seqs[k]
        /\ FlattenSeq(seqs) = f[Len(seqs)]
  BY <1>3, Flattened
<1> HIDE DEF seqs, n
<1> DEFINE P == {k \in 0..n : Keeps(evs \o f[k], opened \cup IndexesOf(tools, k), {})}
<1>5. 0 \in P
  <2>1. IndexesOf(tools, 0) = {} /\ evs \o f[0] = evs /\ 0 \in 0..n /\ opened \cup {} = opened
    BY <1>1, <1>4 DEF IndexesOf
  <2> QED
    BY <2>1
<1>6. ASSUME NEW k \in 0..n, k # n, k \in P PROVE k + 1 \in P
  <2> DEFINE t == tools[k + 1]
             now == opened \cup IndexesOf(tools, k)
  <2>1. k + 1 \in 1..n /\ k + 1 \in 0..n /\ (k + 1) - 1 = k /\ 1..(k + 1) = 1..k \cup {k + 1}
    BY <1>1, <1>6
  <2>2. f[k + 1] = f[k] \o OAToolEvents(t) /\ f[k] \in Seq(K1Event)
    BY <1>3, <1>4, <2>1
  <2>3. t.call # NoCall \/ t.index \in now
    <3>1. CASE t.index \in opened
      BY <3>1
    <3>2. ASSUME NEW l \in 1..(k + 1), Names(tools[l], t.index) PROVE t.call # NoCall \/ t.index \in now
      <4>1. CASE l = k + 1
        BY <3>2, <4>1 DEF Names
      <4>2. CASE l \in 1..k
        BY <3>2, <4>2 DEF Names, IndexesOf
      <4> QED
        BY <2>1, <4>1, <4>2
    <3> QED
      BY <1>1, <2>1, <3>1, <3>2
  <2>4. IndexesOf(tools, k + 1) = IndexesOf(tools, k) \cup {t.index}
    BY <2>1, Zenon DEF IndexesOf
  <2>5. t \in ToolDelta /\ Keeps(evs \o f[k], now, {})
    BY <1>1, <1>6, <2>1
  <2>6. now \cup {t.index} = opened \cup IndexesOf(tools, k + 1)
    BY <2>4
  <2> HIDE DEF t, now
  <2>7. Keeps((evs \o f[k]) \o OAToolEvents(t), now \cup {t.index}, {})
    BY <2>3, <2>5, ToolKeeps
  <2>8. (evs \o f[k]) \o OAToolEvents(t) = evs \o f[k + 1]
    <3>1. OAToolEvents(t) \in Seq(K1Event)
      BY <1>2, <2>5
    <3>2. evs \in Seq(K1Event) /\ f[k] \in Seq(K1Event)
      BY <1>1, <2>2, Zenon
    <3>3. (evs \o f[k]) \o OAToolEvents(t) = evs \o (f[k] \o OAToolEvents(t))
      BY <3>1, <3>2, EventsAssociate, Zenon
    <3> QED
      BY <2>2, <3>3, Zenon
  <2>9. Keeps(evs \o f[k + 1], opened \cup IndexesOf(tools, k + 1), {})
    BY <2>6, <2>7, <2>8, Zenon
  <2> QED
    BY <2>1, <2>9
<1>7. \A k \in 0..n : k \in P
  <2> HIDE DEF P
  <2> QED
    BY <1>1, <1>5, <1>6, UpTo
<1>8. n \in P /\ FlattenSeq(seqs) = f[n] /\ f[n] \in Seq(K1Event)
  <2>1. n \in 0..n
    BY <1>1
  <2> HIDE DEF P
  <2> QED
    BY <1>3, <1>4, <1>7, <2>1
<1> QED
  BY <1>8 DEF seqs, n

\* Of no choice or one, what OAChoice makes of it.
LEMMA AtMostOneChoice ==
  ASSUME NEW acc, NEW chs \in Seq(OAWireChoice), Len(chs) <= 1
  PROVE  FoldLeft(OAChoice, acc, chs) = IF chs = <<>> THEN acc ELSE OAChoice(acc, chs[1])
<1> DEFINE D == DOMAIN chs
           Last1 == IF chs = <<>> THEN acc ELSE OAChoice(acc, chs[1])
           body(g) == [s \in SUBSET D |->
                         IF s = {} THEN acc
                         ELSE LET x == Max(s) IN OAChoice(g[s \ {x}], chs[x])]
           made == [s \in SUBSET D |-> IF s = {} THEN acc ELSE OAChoice(acc, chs[1])]
           fold == CHOOSE g : g = body(g)
<1>1. FoldLeft(OAChoice, acc, chs) = fold[D]
  BY Zenon DEF FoldLeft, MapThenFoldSet
<1>2. Len(chs) \in Nat /\ D = 1..Len(chs)
  OBVIOUS
<1>3. D \subseteq {1} /\ (chs = <<>> <=> D = {})
  BY <1>2
<1> HIDE DEF D
<1>4. ASSUME NEW s \in SUBSET D, s # {} PROVE s = {1} /\ Max(s) = 1 /\ s \ {Max(s)} = {}
  <2>1. s = {1}
    BY <1>3, <1>4
  <2>2. 1 >= 1
    OBVIOUS
  <2>3. Max({1}) = 1
    BY <2>2 DEF Max
  <2> QED
    BY <2>1, <2>3
<1>5. ASSUME NEW g, g = body(g) PROVE g[D] = Last1
  <2>1. {} \in SUBSET D /\ D \in SUBSET D
    OBVIOUS
  <2>2. g[{}] = acc
    BY <1>5, <2>1, Zenon
  <2>3. CASE D = {}
    BY <1>3, <2>2, <2>3, Zenon
  <2>4. CASE D # {}
    <3>1. g[D] = OAChoice(g[D \ {Max(D)}], chs[Max(D)])
      BY <1>5, <2>1, <2>4, Zenon
    <3> QED
      BY <1>3, <1>4, <2>1, <2>2, <2>4, <3>1, Zenon
  <2> QED
    BY <2>3, <2>4
<1>6. made = body(made)
  <2>1. ASSUME NEW s \in SUBSET D
        PROVE  made[s] = IF s = {} THEN acc ELSE OAChoice(made[s \ {Max(s)}], chs[Max(s)])
    <3>1. CASE s = {}
      BY <3>1, Zenon
    <3>2. CASE s # {}
      <4>1. {} \in SUBSET D
        OBVIOUS
      <4> QED
        BY <1>4, <3>2, <4>1, Zenon
    <3> QED
      BY <3>1, <3>2
  <2> QED
    BY <2>1, Zenon
<1>7. fold = body(fold)
  <2> HIDE DEF body, made
  <2> QED
    BY <1>6, Zenon
<1> HIDE DEF fold, body
<1> QED
  BY <1>1, <1>5, <1>7

\* What the events told of an answer and the reader's state have to do with each
\* other, before its finish reason was read and after.
BeforeFinish(evs, st) == Keeps(evs, st.toolIndexes, {}) /\ IsFiniteSet(st.toolIndexes)
AfterFinish(evs, st) ==
  /\ \E ended : Keeps(evs, st.toolIndexes, ended)
  /\ st.lastFinish \in FinishReasons
  /\ st.lastFinish = "tool_calls" => st.toolIndexes = {}

LEMMA FiniteIndexes ==
  ASSUME NEW tools \in Seq(ToolDelta)
  PROVE  /\ IndexesOf(tools, Len(tools)) = {t.index : t \in ToSet(tools)}
         /\ IsFiniteSet(IndexesOf(tools, Len(tools)))
         /\ IndexesOf(tools, Len(tools)) \subseteq Indexes
<1> DEFINE n == Len(tools)
           T == IndexesOf(tools, n)
           f == [l \in 1..n |-> tools[l].index]
<1>1. n \in Nat /\ DOMAIN tools = 1..n /\ \A l \in 1..n : tools[l] \in ToolDelta
  OBVIOUS
<1> HIDE DEF n
<1>2. IsFiniteSet(1..n)
  BY <1>1, FS_Interval
<1>3. f \in Surjection(1..n, T)
  BY DEF Surjection, IndexesOf
<1>4. IsFiniteSet(T)
  BY <1>2, <1>3, FS_Surjection
<1>5. T = {t.index : t \in ToSet(tools)}
  BY <1>1 DEF IndexesOf, ToSet
<1>6. T \subseteq Indexes
  BY <1>1 DEF IndexesOf, ToolDelta
<1> QED
  BY <1>4, <1>5, <1>6 DEF n

\* A finish reason that is sent becomes one, and "tool_calls" only from itself.
LEMMA FinishMapped ==
  ASSUME NEW f \in OAWireFinish, f # NoFinish
  PROVE  OAMapFinishReason(f) \in FinishReasons
         /\ (OAMapFinishReason(f) = "tool_calls" => f = "tool_calls")
<1>1. "unknown" \in FinishReasons /\ "unknown" # "tool_calls"
  BY DEF FinishReasons
<1> QED
  BY <1>1, Zenon DEF OAMapFinishReason

LEMMA ReasonGiven == \A f \in FinishReasons : f # NoFinish
<1>1. NoFinish \notin FinishReasons
  BY Zenon DEF FinishReasons, NoFinish
<1> QED
  BY <1>1, Zenon

\* What the deltas of a choice become, given its text and tools.
TextPart(ch) == IF ch.text # NoText THEN <<TextDelta(ch.text)>> ELSE <<>>
ToolPart(ch) == FlattenSeq(ToolSeqs(ch.tools))

LEMMA DeltasKeep ==
  ASSUME NEW st \in OAState, NEW evs, BeforeFinish(evs, st), NEW ch \in OAWireChoice,
         \A m \in DOMAIN ch.tools : \/ ch.tools[m].index \in st.toolIndexes
                                    \/ \E l \in 1..m : Names(ch.tools[l], ch.tools[m].index)
  PROVE  LET now == st.toolIndexes \cup {t.index : t \in ToSet(ch.tools)} IN
         /\ TextPart(ch) \in Seq(K1Event) /\ ToolPart(ch) \in Seq(K1Event)
         /\ Keeps((evs \o TextPart(ch)) \o ToolPart(ch), now, {})
         /\ IsFiniteSet(now) /\ now \subseteq Indexes
<1> DEFINE open == st.toolIndexes
           tools == ch.tools
           T == IndexesOf(tools, Len(tools))
<1>1. /\ tools \in Seq(ToolDelta) /\ ch.text \in Texts \cup {NoText}
      /\ open \subseteq Indexes /\ evs \in Seq(K1Event)
      /\ Keeps(evs, open, {}) /\ IsFiniteSet(open)
  BY DEF OAWireChoice, OAState, BeforeFinish, Keeps
<1>2. T = {t.index : t \in ToSet(tools)} /\ IsFiniteSet(T) /\ T \subseteq Indexes
  BY <1>1, FiniteIndexes
<1>3. TextPart(ch) \in Seq(K1Event) /\ Keeps(evs \o TextPart(ch), open, {})
  <2>1. CASE ch.text = NoText
    <3>1. TextPart(ch) = <<>> /\ evs \o <<>> = evs
      BY <1>1, <2>1 DEF TextPart
    <3> QED
      BY <1>1, <3>1
  <2>2. CASE ch.text # NoText
    <3>1. Keeps(Append(evs, TextDelta(ch.text)), open, {})
      BY <1>1, <2>2, TextKeeps
    <3>2. TextDelta(ch.text) \in K1Event
      <4>1. NoUsage \in Usage
        BY DEF Usage
      <4> QED
        BY <1>1, <4>1 DEF K1Event, Blank, TextDelta
    <3>3. TextPart(ch) = <<TextDelta(ch.text)>>
      BY <2>2 DEF TextPart
    <3>4. evs \o <<TextDelta(ch.text)>> = Append(evs, TextDelta(ch.text))
      BY <1>1, <3>2, AppendIsConcat
    <3>5. <<TextDelta(ch.text)>> \in Seq(K1Event)
      BY <3>2
    <3> QED
      BY <3>1, <3>3, <3>4, <3>5, Zenon
  <2> QED
    BY <2>1, <2>2
<1>4. \A m \in DOMAIN tools : tools[m].index \in open \/ \E l \in 1..m : Names(tools[l], tools[m].index)
  OBVIOUS
<1>5. IsFiniteSet(open \cup T)
  BY <1>1, <1>2, FS_Union
<1> HIDE DEF open, tools, T
<1>6. FlattenSeq(ToolSeqs(tools)) \in Seq(K1Event)
      /\ Keeps((evs \o TextPart(ch)) \o FlattenSeq(ToolSeqs(tools)), open \cup T, {})
  BY <1>1, <1>3, <1>4, ToolsKeep DEF T
<1>7. ToolPart(ch) = FlattenSeq(ToolSeqs(tools))
  BY DEF ToolPart, tools
<1>8. open \cup T \subseteq Indexes
  BY <1>1, <1>2
<1>9. open \cup T = st.toolIndexes \cup {t.index : t \in ToSet(ch.tools)}
  BY <1>2 DEF open, tools
<1> QED
  BY <1>3, <1>5, <1>6, <1>7, <1>8, <1>9, Zenon

\* A choice of an answer that has not finished.
LEMMA ChoiceKeeps ==
  ASSUME NEW st \in OAState, NEW evs, BeforeFinish(evs, st), NEW ch \in OAWireChoice,
         \A m \in DOMAIN ch.tools : \/ ch.tools[m].index \in st.toolIndexes
                                    \/ \E l \in 1..m : Names(ch.tools[l], ch.tools[m].index)
  PROVE  LET next == OAChoice([evs |-> <<>>, st |-> st], ch) IN
         /\ next.evs \in Seq(K1Event) /\ next.st \in OAState
         /\ ch.finish = NoFinish =>
              /\ BeforeFinish(evs \o next.evs, next.st)
              /\ next.st.toolIndexes = st.toolIndexes \cup {t.index : t \in ToSet(ch.tools)}
         /\ ch.finish # NoFinish => AfterFinish(evs \o next.evs, next.st)
<1> DEFINE now == st.toolIndexes \cup {t.index : t \in ToSet(ch.tools)}
           seen == [st EXCEPT !.toolIndexes = now]
           ends == OAEndsCalls(seen, ch)
           a == TextPart(ch)
           b == ToolPart(ch)
           c == IF ends THEN OAEndEvents(now) ELSE <<>>
           next == OAChoice([evs |-> <<>>, st |-> st], ch)
           told == (evs \o a) \o b
<1>1. /\ a \in Seq(K1Event) /\ b \in Seq(K1Event) /\ evs \in Seq(K1Event)
      /\ Keeps(told, now, {}) /\ IsFiniteSet(now) /\ now \subseteq Indexes
  BY DeltasKeep DEF BeforeFinish, Keeps
<1>2. seen.toolIndexes = now /\ seen.lastFinish = st.lastFinish /\ st.lastFinish \in FinishReasons \cup {NoFinish}
  BY DEF OAState
<1>3. ends <=> ch.finish = "tool_calls" /\ now # {}
  BY <1>2 DEF OAEndsCalls
<1>4. c \in Seq(K1Event) /\ Keeps(told \o c, IF ends THEN {} ELSE now, IF ends THEN now ELSE {})
  <2> HIDE DEF told, now, ends
  <2>1. CASE ends
    <3>1. OAEndEvents(now) \in Seq(K1Event) /\ Keeps(told \o OAEndEvents(now), {}, now)
      BY <1>1, EndsKeep
    <3> QED
      BY <2>1, <3>1
  <2>2. CASE ~ends
    <3>1. told \o <<>> = told
      BY <1>1 DEF Keeps
    <3> QED
      BY <1>1, <2>2, <3>1
  <2> QED
    BY <2>1, <2>2
<1>5. next.st = [lastFinish  |-> IF ch.finish = NoFinish THEN st.lastFinish
                                 ELSE OAMapFinishReason(ch.finish),
                 toolIndexes |-> IF ends THEN {} ELSE now]
  BY <1>2, Zenon DEF OAChoice
<1>6. next.evs = ((<<>> \o a) \o b) \o c
  <2>1. next.evs = ((<<>> \o a) \o b) \o (IF ends THEN OAEndEvents(seen.toolIndexes) ELSE <<>>)
    <3> DEFINE acc == [evs |-> <<>>, st |-> st]
    <3>1. acc.evs = <<>> /\ acc.st = st
      OBVIOUS
    <3> HIDE DEF acc
    <3>2. OAChoice(acc, ch).evs =
            ((acc.evs \o a) \o b) \o
              (IF OAEndsCalls([acc.st EXCEPT !.toolIndexes =
                                 acc.st.toolIndexes \cup {t.index : t \in ToSet(ch.tools)}], ch)
               THEN OAEndEvents([acc.st EXCEPT !.toolIndexes =
                      acc.st.toolIndexes \cup {t.index : t \in ToSet(ch.tools)}].toolIndexes)
               ELSE <<>>)
      BY DEF OAChoice, TextPart, ToolPart, ToolSeqs
    <3>3. next = OAChoice(acc, ch)
      BY DEF acc
    <3> HIDE DEF next, a, b
    <3> QED
      BY <3>1, <3>2, <3>3, Zenon
  <2> QED
    BY <1>2, <2>1, Zenon
<1> HIDE DEF next, c, a, b, seen
<1>7. next.evs \in Seq(K1Event) /\ evs \o next.evs = told \o c
  <2>1. <<>> \o a = a
    BY <1>1
  <2>2. next.evs = (a \o b) \o c
    BY <1>6, <2>1
  <2>3. a \o b \in Seq(K1Event) /\ (a \o b) \o c \in Seq(K1Event)
    BY <1>1, <1>4, EventsAssociate, Zenon
  <2>4. evs \o ((a \o b) \o c) = (evs \o (a \o b)) \o c
    BY <1>1, <1>4, <2>3, EventsAssociate, Zenon
  <2>5. evs \o (a \o b) = (evs \o a) \o b
    BY <1>1, EventsAssociate, Zenon
  <2> QED
    BY <2>2, <2>3, <2>4, <2>5, Zenon
<1> HIDE DEF told
<1>8. Keeps(evs \o next.evs, IF ends THEN {} ELSE now, IF ends THEN now ELSE {})
  BY <1>4, <1>7
<1>9. /\ next.st.toolIndexes = IF ends THEN {} ELSE now
      /\ next.st.lastFinish = IF ch.finish = NoFinish THEN st.lastFinish
                              ELSE OAMapFinishReason(ch.finish)
  BY <1>5
<1>10. ch.finish \in OAWireFinish
  BY DEF OAWireChoice
<1>11. next.st \in OAState
  <2>1. next.st.lastFinish \in FinishReasons \cup {NoFinish}
    BY <1>2, <1>9, <1>10, FinishMapped, Zenon
  <2>2. next.st.toolIndexes \in SUBSET Indexes
    BY <1>1, <1>9
  <2> HIDE DEF ends, now
  <2> QED
    BY <1>5, <1>9, <2>1, <2>2, Zenon DEF OAState
<1>12. ASSUME ch.finish = NoFinish
       PROVE BeforeFinish(evs \o next.evs, next.st) /\ next.st.toolIndexes = now
  <2>1. ~ends
    <3>1. NoFinish # "tool_calls"
      BY Zenon DEF NoFinish
    <3> QED
      BY <1>3, <1>12, <3>1, Zenon
  <2> HIDE DEF ends, now
  <2> QED
    BY <1>1, <1>8, <1>9, <2>1 DEF BeforeFinish
<1>13. ASSUME ch.finish # NoFinish PROVE AfterFinish(evs \o next.evs, next.st)
  <2>1. next.st.lastFinish = OAMapFinishReason(ch.finish)
    BY <1>9, <1>13, Zenon
  <2>2. next.st.lastFinish \in FinishReasons
        /\ (next.st.lastFinish = "tool_calls" => ch.finish = "tool_calls")
    BY <1>10, <1>13, <2>1, FinishMapped, Zenon
  <2>3. next.st.lastFinish = "tool_calls" => next.st.toolIndexes = {}
    BY <1>3, <1>9, <2>2, Zenon
  <2> HIDE DEF ends, now
  <2>4. Keeps(evs \o next.evs, next.st.toolIndexes, IF ends THEN now ELSE {})
    BY <1>8, <1>9, Zenon
  <2> QED
    BY <2>2, <2>3, <2>4, Zenon DEF AfterFinish
<1> QED
  BY <1>7, <1>11, <1>12, <1>13 DEF next

\* What the choices of a chunk become.
ChoicesOf(st, chunk) == FoldLeft(OAChoice, [evs |-> <<>>, st |-> st], chunk.choices)

LEMMA NoChoices ==
  ASSUME NEW st, NEW chunk \in OAChunk, chunk.choices = <<>>
  PROVE  ChoicesOf(st, chunk).evs = <<>> /\ ChoicesOf(st, chunk).st = st
<1>1. chunk.choices \in Seq(OAWireChoice) /\ Len(chunk.choices) <= 1
  BY DEF OAChunk
<1>2. ChoicesOf(st, chunk) = [evs |-> <<>>, st |-> st]
  BY <1>1, AtMostOneChoice DEF ChoicesOf
<1> QED
  BY <1>2

LEMMA ChoicesKeep ==
  ASSUME NEW st \in OAState, NEW evs, BeforeFinish(evs, st), NEW chunk \in OAChunk,
         Len(chunk.choices) <= 1,
         \A m \in DOMAIN Tools(chunk) : \/ Tools(chunk)[m].index \in st.toolIndexes
                                        \/ \E l \in 1..m : Names(Tools(chunk)[l], Tools(chunk)[m].index)
  PROVE  LET next == ChoicesOf(st, chunk) IN
         /\ next.evs \in Seq(K1Event) /\ next.st \in OAState
         /\ ~Finishes(chunk) =>
              /\ BeforeFinish(evs \o next.evs, next.st)
              /\ next.st.toolIndexes = st.toolIndexes \cup {t.index : t \in ToSet(Tools(chunk))}
         /\ Finishes(chunk) => AfterFinish(evs \o next.evs, next.st)
<1>1. chunk.choices \in Seq(OAWireChoice) /\ Len(chunk.choices) \in Nat
  BY DEF OAChunk
<1>2. CASE chunk.choices = <<>>
  <2>1. ChoicesOf(st, chunk).evs = <<>> /\ ChoicesOf(st, chunk).st = st
    BY <1>2, NoChoices
  <2>2. evs \o <<>> = evs /\ <<>> \in Seq(K1Event)
    BY DEF BeforeFinish, Keeps
  <2>3. Tools(chunk) = <<>> /\ ~Finishes(chunk)
    BY <1>2 DEF Tools, Finishes
  <2>4. {t.index : t \in ToSet(<<>>)} = {}
    BY DEF ToSet
  <2>5. st.toolIndexes \cup {t.index : t \in ToSet(Tools(chunk))} = st.toolIndexes
    BY <2>3, <2>4, Zenon
  <2> QED
    BY <2>1, <2>2, <2>3, <2>5, Zenon
<1>3. CASE chunk.choices # <<>>
  <2> DEFINE ch == chunk.choices[1]
  <2>1. ch \in OAWireChoice
    BY <1>1, <1>3
  <2>2. Tools(chunk) = ch.tools /\ (Finishes(chunk) <=> ch.finish # NoFinish)
    BY <1>3, Zenon DEF Tools, Finishes
  <2>3. ChoicesOf(st, chunk) = OAChoice([evs |-> <<>>, st |-> st], ch)
    BY <1>1, <1>3, AtMostOneChoice DEF ChoicesOf
  <2> HIDE DEF ch
  <2> QED
    BY <2>1, <2>2, <2>3, ChoiceKeeps
<1> QED
  BY <1>2, <1>3

LEMMA ToolsType ==
  ASSUME NEW chunk \in OAChunk
  PROVE  /\ Tools(chunk) \in Seq(ToolDelta)
         /\ \A m \in DOMAIN Tools(chunk) : Tools(chunk)[m].index \in Indexes
<1> DEFINE chs == chunk.choices
           tools == Tools(chunk)
<1>1. chs \in Seq(OAWireChoice)
  BY DEF OAChunk
<1> HIDE DEF chs
<1>2. tools \in Seq(ToolDelta)
  <2>1. CASE chs = <<>>
    <3>1. tools = <<>>
      BY <2>1 DEF Tools, chs
    <3> QED
      BY <3>1
  <2>2. CASE chs # <<>>
    <3>1. chs[1] \in OAWireChoice
      BY <1>1, <2>2
    <3>2. tools = chs[1].tools
      BY <2>2 DEF Tools, chs
    <3> QED
      BY <3>1, <3>2 DEF OAWireChoice
  <2> QED
    BY <2>1, <2>2
<1> HIDE DEF tools
<1>3. \A m \in DOMAIN tools : tools[m].index \in Indexes
  <2>1. \A t \in ToolDelta : t.index \in Indexes
    BY DEF ToolDelta
  <2> QED
    BY <1>2, <2>1
<1> QED
  BY <1>2, <1>3 DEF tools

\* The calls that the first p chunks of body name.
NamedIn(body, p) ==
  {i \in Indexes : \E j \in 1..p : \E l \in DOMAIN Tools(body[j]) : Names(Tools(body[j])[l], i)}

\* evs and the reader's state are those of the first p chunks of body.
Follows(body, p, evs, st) ==
  \/ /\ \A k \in 1..p : ~Finishes(body[k])
     /\ BeforeFinish(evs, st)
     /\ NamedIn(body, p) \subseteq st.toolIndexes
  \/ /\ \E k \in 1..p : Finishes(body[k])
     /\ AfterFinish(evs, st)

\* Before the first chunk the reader has no call open, nor has what it told.
LEMMA FollowsNothing ==
  ASSUME NEW body, NEW st, NEW evs, Keeps(evs, {}, {}), st.toolIndexes = {}
  PROVE  Follows(body, 0, evs, st)
<1>1. IsFiniteSet({})
  BY FS_EmptySet
<1>2. NamedIn(body, 0) = {} /\ \A k \in 1..0 : ~Finishes(body[k])
  BY DEF NamedIn
<1> QED
  BY <1>1, <1>2 DEF Follows, BeforeFinish

LEMMA ChunkKeeps ==
  ASSUME NEW body \in Seq(OAChunk), CompleteAnswer(body), NEW p \in Nat, p + 1 \in DOMAIN body,
         NEW st \in OAState, NEW evs, Follows(body, p, evs, st)
  PROVE  LET next == ChoicesOf(st, body[p + 1]) IN
         /\ next.evs \in Seq(K1Event) /\ next.st \in OAState
         /\ Follows(body, p + 1, evs \o next.evs, next.st)
<1> DEFINE chunk == body[p + 1]
           next == ChoicesOf(st, chunk)
<1>1. chunk \in OAChunk /\ DOMAIN body = 1..Len(body) /\ Len(body) \in Nat
      /\ 1..(p + 1) = 1..p \cup {p + 1} /\ (p + 1) - 1 = p
  OBVIOUS
<1>2. Len(chunk.choices) <= 1 /\ \A m \in DOMAIN Tools(chunk) : NamedBy(body, p + 1, m)
  BY DEF CompleteAnswer
<1>3. ASSUME \A k \in 1..p : ~Finishes(body[k]), BeforeFinish(evs, st),
             NamedIn(body, p) \subseteq st.toolIndexes
      PROVE  next.evs \in Seq(K1Event) /\ next.st \in OAState
             /\ Follows(body, p + 1, evs \o next.evs, next.st)
  <2>2. ASSUME NEW m \in DOMAIN Tools(chunk)
        PROVE  \/ Tools(chunk)[m].index \in st.toolIndexes
               \/ \E l \in 1..m : Names(Tools(chunk)[l], Tools(chunk)[m].index)
    <3>1. Tools(chunk)[m].index \in Indexes
      BY <1>1, ToolsType
    <3>2. NamedBy(body, p + 1, m)
      BY <1>2
    <3> QED
      BY <1>1, <1>3, <3>1, <3>2 DEF NamedBy, NamedIn
  <2> HIDE DEF chunk
  <2>3. /\ next.evs \in Seq(K1Event) /\ next.st \in OAState
        /\ ~Finishes(chunk) =>
             /\ BeforeFinish(evs \o next.evs, next.st)
             /\ next.st.toolIndexes = st.toolIndexes \cup {t.index : t \in ToSet(Tools(chunk))}
        /\ Finishes(chunk) => AfterFinish(evs \o next.evs, next.st)
    BY <1>1, <1>2, <1>3, <2>2, ChoicesKeep
  <2> HIDE DEF next
  <2>4. CASE Finishes(chunk)
    <3>1. p + 1 \in 1..(p + 1) /\ Finishes(body[p + 1])
      BY <1>1, <2>4 DEF chunk
    <3> QED
      BY <2>3, <2>4, <3>1, Zenon DEF Follows
  <2>5. CASE ~Finishes(chunk)
    <3>1. \A k \in 1..(p + 1) : ~Finishes(body[k])
      BY <1>1, <1>3, <2>5 DEF chunk
    <3>2. ASSUME NEW i \in NamedIn(body, p + 1) PROVE i \in next.st.toolIndexes
      <4>1. PICK j \in 1..(p + 1) : \E l \in DOMAIN Tools(body[j]) : Names(Tools(body[j])[l], i)
        BY DEF NamedIn
      <4>2. CASE j \in 1..p
        <5>1. i \in NamedIn(body, p)
          BY <4>1, <4>2 DEF NamedIn
        <5> QED
          BY <1>3, <2>3, <2>5, <5>1
      <4>3. CASE j = p + 1
        <5>1. PICK l \in DOMAIN Tools(chunk) : Names(Tools(chunk)[l], i)
          BY <4>1, <4>3 DEF chunk
        <5>2. Tools(chunk)[l] \in ToSet(Tools(chunk)) /\ Tools(chunk)[l].index = i
          BY <5>1 DEF ToSet, Names
        <5> QED
          BY <2>3, <2>5, <5>2
      <4> QED
        BY <1>1, <4>1, <4>2, <4>3
    <3> QED
      BY <2>3, <2>5, <3>1, <3>2, Zenon DEF Follows
  <2> QED
    BY <2>3, <2>4, <2>5
<1>4. ASSUME \E k \in 1..p : Finishes(body[k]), AfterFinish(evs, st)
      PROVE  next.evs \in Seq(K1Event) /\ next.st \in OAState
             /\ Follows(body, p + 1, evs \o next.evs, next.st)
  <2>1. PICK k \in 1..p : Finishes(body[k])
    BY <1>4
  <2>2. PICK f \in DOMAIN body : /\ \A j \in 1..(f - 1) : ~Finishes(body[j])
                                 /\ \A j \in (f + 1)..Len(body) : body[j].choices = <<>>
    BY DEF CompleteAnswer
  <2>3. f <= k
    BY <1>1, <2>1, <2>2
  <2>4. p + 1 \in (f + 1)..Len(body)
    BY <1>1, <2>3
  <2>5. chunk.choices = <<>>
    BY <2>2, <2>4
  <2>6. next.evs = <<>> /\ next.st = st
    BY <1>1, <2>5, NoChoices
  <2>7. evs \o <<>> = evs /\ <<>> \in Seq(K1Event)
    BY <1>4 DEF AfterFinish, Keeps
  <2>8. \E j \in 1..(p + 1) : Finishes(body[j])
    BY <1>1, <2>1
  <2> HIDE DEF next
  <2> QED
    BY <1>4, <2>6, <2>7, <2>8, Zenon DEF Follows
<1> QED
  BY <1>3, <1>4 DEF Follows

\* At its end an answer has finished.
LEMMA CompleteEnds ==
  ASSUME NEW body \in Seq(OAChunk), CompleteAnswer(body), NEW st, NEW evs,
         Follows(body, Len(body), evs, st)
  PROVE  AfterFinish(evs, st)
<1>1. DOMAIN body = 1..Len(body)
  OBVIOUS
<1>2. \E k \in 1..Len(body) : Finishes(body[k])
  BY <1>1, Zenon DEF CompleteAnswer
<1> QED
  BY <1>2, Zenon DEF Follows

\* The Done of an answer that has finished.
LEMMA AnswerDoneKeeps ==
  ASSUME NEW evs, NEW st, AfterFinish(evs, st), NEW u \in Usage, u.source # "nil"
  PROVE  /\ AfterFinish(Append(evs, Done(u, st.lastFinish)), st)
         /\ Lawful(Append(evs, Done(u, st.lastFinish)))
<1>1. PICK ended : Keeps(evs, st.toolIndexes, ended)
  BY DEF AfterFinish
<1>2. st.lastFinish \in FinishReasons \cup {NoFinish} /\ st.lastFinish # NoFinish
      /\ (st.lastFinish = "tool_calls" => st.toolIndexes = {})
  BY ReasonGiven, Zenon DEF AfterFinish
<1>3. Keeps(Append(evs, Done(u, st.lastFinish)), st.toolIndexes, ended)
  BY <1>1, <1>2, DoneKeeps
<1> QED
  BY <1>3, Zenon DEF AfterFinish, Keeps

\* Events of content: all but a Done.
Content == {e \in K1Event : e.kind # "done"}

LEMMA ContentEvents ==
  ASSUME NEW i \in Indexes, NEW c \in Calls \cup {NoCall}, NEW t \in Texts \cup {NoText}
  PROVE  /\ TextDelta(t) \in Content /\ ThinkingDelta(t) \in Content
         /\ ToolStart(i, c) \in Content /\ ToolArgs(i, c, t) \in Content /\ ToolEnd(i, c) \in Content
<1>1. NoUsage \in Usage
  BY DEF Usage
<1> QED
  BY <1>1 DEF Content, K1Event, Blank, TextDelta, ThinkingDelta, ToolStart, ToolArgs, ToolEnd

LEMMA ContentSeqs == \A s \in Seq(Content) : s \in Seq(K1Event) /\ \A k \in DOMAIN s : s[k].kind # "done"
<1>1. \A e \in Content : e \in K1Event /\ e.kind # "done"
  BY DEF Content
<1> SUFFICES ASSUME NEW s \in Seq(Content)
             PROVE  s \in Seq(K1Event) /\ \A k \in DOMAIN s : s[k].kind # "done"
  OBVIOUS
<1>2. \A k \in DOMAIN s : s[k] \in Content
  OBVIOUS
<1>3. \A k \in 1..Len(s) : s[k] \in K1Event
  BY <1>1, <1>2
<1>4. s = [k \in 1..Len(s) |-> s[k]] /\ Len(s) \in Nat
  OBVIOUS
<1>5. s \in Seq(K1Event)
  BY <1>3, <1>4
<1> QED
  BY <1>1, <1>2, <1>5

\* The choices of a chunk hold no Done.
LEMMA ChoicesAreContent ==
  ASSUME NEW st \in OAState, IsFiniteSet(st.toolIndexes), NEW chunk \in OAChunk,
         Len(chunk.choices) <= 1
  PROVE  ChoicesOf(st, chunk).evs \in Seq(Content)
<1>1. chunk.choices \in Seq(OAWireChoice) /\ Len(chunk.choices) \in Nat
  BY DEF OAChunk
<1>2. CASE chunk.choices = <<>>
  <2>1. ChoicesOf(st, chunk).evs = <<>>
    BY <1>2, NoChoices
  <2>2. <<>> \in Seq(Content)
    OBVIOUS
  <2> QED
    BY <2>1, <2>2, Zenon
<1>3. CASE chunk.choices # <<>>
  <2> DEFINE ch == chunk.choices[1]
             now == st.toolIndexes \cup {t.index : t \in ToSet(ch.tools)}
             seen == [st EXCEPT !.toolIndexes = now]
             c == IF OAEndsCalls(seen, ch) THEN OAEndEvents(seen.toolIndexes) ELSE <<>>
  <2>0. ch \in OAWireChoice
    BY <1>1, <1>3
  <2>1. ChoicesOf(st, chunk) = OAChoice([evs |-> <<>>, st |-> st], ch)
    BY <1>1, <1>3, AtMostOneChoice DEF ChoicesOf
  <2> HIDE DEF ch
  <2>2. ch.tools \in Seq(ToolDelta) /\ ch.text \in Texts \cup {NoText}
    BY <2>0 DEF OAWireChoice
  <2>3. TextPart(ch) \in Seq(Content)
    <3>1. CASE ch.text = NoText
      BY <3>1 DEF TextPart
    <3>2. CASE ch.text # NoText
      <4>1. TextDelta(ch.text) \in Content
        <5>1. NoUsage \in Usage
          BY DEF Usage
        <5> QED
          BY <2>2, <5>1 DEF Content, K1Event, Blank, TextDelta
      <4> QED
        BY <3>2, <4>1 DEF TextPart
    <3> QED
      BY <3>1, <3>2
  <2>4. ToolPart(ch) \in Seq(Content)
    <3> DEFINE n == Len(ch.tools)
               seqs == ToolSeqs(ch.tools)
    <3>1. n \in Nat /\ DOMAIN ch.tools = 1..n /\ \A k \in 1..n : ch.tools[k] \in ToolDelta
      BY <2>2
    <3>2. ASSUME NEW t \in ToolDelta PROVE OAToolEvents(t) \in Seq(Content)
      <4>1. t.index \in Indexes /\ t.call \in Calls \cup {NoCall} /\ t.args \in Texts \cup {NoText}
        BY DEF ToolDelta
      <4>2. ToolStart(t.index, t.call) \in Content /\ ToolArgs(t.index, t.call, t.args) \in Content
        BY <4>1, ContentEvents
      <4> QED
        BY <4>2 DEF OAToolEvents
    <3>3. \A k \in 1..n : OAToolEvents(ch.tools[k]) \in Seq(Content)
      BY <3>1, <3>2
    <3>4. seqs = [k \in 1..n |-> OAToolEvents(ch.tools[k])]
      BY <3>1, Zenon DEF ToolSeqs
    <3> HIDE DEF seqs, n
    <3>5. seqs \in [1..n -> Seq(Content)]
      BY <3>3, <3>4
    <3>6. seqs \in Seq(Seq(Content)) /\ Len(seqs) = n
      BY <3>1, <3>4, <3>5
    <3>7. PICK f \in [0..Len(seqs) -> Seq(Content)] : FlattenSeq(seqs) = f[Len(seqs)]
      BY <3>6, Flattened
    <3> QED
      BY <3>1, <3>6, <3>7 DEF ToolPart, seqs
  <2>5. seen.toolIndexes = now
    BY DEF OAState
  <2>6. c \in Seq(Content)
    <3> DEFINE s == Sorted(now)
               n == Cardinality(now)
    <3>1. /\ {t.index : t \in ToSet(ch.tools)} \subseteq Indexes
          /\ IsFiniteSet({t.index : t \in ToSet(ch.tools)})
      BY <2>2, FiniteIndexes
    <3>2. now \subseteq Indexes /\ IsFiniteSet(now)
      BY <3>1, FS_Union DEF OAState
    <3> HIDE DEF now
    <3>3. now \in SUBSET Nat
      BY <3>2, IndexAssumption
    <3>4. s \in [1..n -> now] /\ n \in Nat
      BY <3>2, <3>3, SortedType, FS_CardinalityType
    <3>5. DOMAIN s = 1..n /\ \A k \in 1..n : s[k] \in Indexes
      BY <3>2, <3>4
    <3>6. \A k \in 1..n : ToolEnd(s[k], NoCall) \in Content
      <4>1. \A i \in Indexes : ToolEnd(i, NoCall) \in Content
        <5>1. NoUsage \in Usage
          BY DEF Usage
        <5> QED
          BY <5>1 DEF Content, K1Event, Blank, ToolEnd
      <4> QED
        BY <3>5, <4>1
    <3>7. OAEndEvents(now) = [k \in 1..n |-> ToolEnd(s[k], NoCall)]
      BY <3>5 DEF OAEndEvents
    <3>8. OAEndEvents(now) \in Seq(Content)
      BY <3>4, <3>6, <3>7
    <3> QED
      BY <2>5, <3>8
  <2>7. OAChoice([evs |-> <<>>, st |-> st], ch).evs = ((<<>> \o TextPart(ch)) \o ToolPart(ch)) \o c
    <3> DEFINE acc == [evs |-> <<>>, st |-> st]
    <3>1. acc.evs = <<>> /\ acc.st = st
      OBVIOUS
    <3> HIDE DEF acc
    <3>2. OAChoice(acc, ch).evs =
            ((acc.evs \o TextPart(ch)) \o ToolPart(ch)) \o
              (IF OAEndsCalls([acc.st EXCEPT !.toolIndexes =
                                 acc.st.toolIndexes \cup {t.index : t \in ToSet(ch.tools)}], ch)
               THEN OAEndEvents([acc.st EXCEPT !.toolIndexes =
                      acc.st.toolIndexes \cup {t.index : t \in ToSet(ch.tools)}].toolIndexes)
               ELSE <<>>)
      BY DEF OAChoice, TextPart, ToolPart, ToolSeqs
    <3> QED
      BY <3>1, <3>2, Zenon DEF acc
  <2> HIDE DEF c
  <2>8. ((<<>> \o TextPart(ch)) \o ToolPart(ch)) \o c \in Seq(Content)
    <3> DEFINE a == TextPart(ch)
               b == ToolPart(ch)
    <3>1. a \in Seq(Content) /\ b \in Seq(Content)
      BY <2>3, <2>4
    <3> HIDE DEF a, b
    <3> QED
      BY <2>6, <3>1 DEF a, b
  <2> QED
    BY <2>1, <2>7, <2>8
<1> QED
  BY <1>2, <1>3

-----------------------------------------------------------------------------
(* The translator of Anthropic events.                                     *)

\* After p events of a message, which left st and became evs: the tool_use blocks
\* of a call are open from their Start to their End, and a message_delta gave
\* usage and a finish reason.
Deltaed(body, p) == \E k \in 1..p : body[k].type = "message_delta"
BlocksTold(body, p, evs) ==
  Keeps(evs, ToolBlocks(body, p) \ StoppedBlocks(body, p),
             ToolBlocks(body, p) \cap StoppedBlocks(body, p))
BlocksKnown(body, p, st) ==
  \A i \in Indexes : st.blockKinds[i] = "tool_use" <=> i \in ToolBlocks(body, p)
DeltaKnown(body, p, st) ==
  Deltaed(body, p) => st.finish # NoFinish /\ st.usage.source # "nil"
MsgFollows(body, p, evs, st) ==
  BlocksTold(body, p, evs) /\ BlocksKnown(body, p, st) /\ DeltaKnown(body, p, st)

LEMMA MsgFollowsNothing ==
  ASSUME NEW body, NEW evs, Keeps(evs, {}, {}), NEW st,
         \A i \in Indexes : st.blockKinds[i] # "tool_use"
  PROVE  MsgFollows(body, 0, evs, st)
<1>1. ToolBlocks(body, 0) = {} /\ StoppedBlocks(body, 0) = {} /\ ~Deltaed(body, 0)
  BY DEF ToolBlocks, StoppedBlocks, Deltaed
<1> QED
  BY <1>1 DEF MsgFollows, BlocksTold, BlocksKnown, DeltaKnown

\* Event p + 1 adds to the blocks what it starts and stops.
LEMMA BlocksNext ==
  ASSUME NEW body, NEW p \in Nat
  PROVE  LET e == body[p + 1] IN
         /\ ToolBlocks(body, p + 1) = ToolBlocks(body, p) \cup
              {i \in Indexes : StartsBlock(e, i) /\ e.kind = "tool_use"}
         /\ StoppedBlocks(body, p + 1) = StoppedBlocks(body, p) \cup {i \in Indexes : StopsBlock(e, i)}
         /\ Deltaed(body, p + 1) <=> Deltaed(body, p) \/ e.type = "message_delta"
<1>1. 1..(p + 1) = 1..p \cup {p + 1}
  OBVIOUS
<1> QED
  BY <1>1 DEF ToolBlocks, StoppedBlocks, Deltaed

\* An event has the fields of its type.
LEMMA EventFields ==
  ASSUME NEW e \in AnthropicChunk
  PROVE  /\ e.type \in {"message_start", "message_delta", "content_block_start",
                        "content_block_delta", "content_block_stop", "message_stop"}
         /\ e.type = "content_block_start" => e.index \in Indexes /\ e.call \in Calls \cup {NoCall}
         /\ e.type = "content_block_delta" => e.index \in Indexes /\ e.text \in Texts \cup {NoText}
         /\ e.type = "content_block_stop" => e.index \in Indexes
         /\ e.type \in {"message_start", "message_delta"} => e.in \in Tokens /\ e.out \in Tokens
  BY DEF AnthropicChunk, MessageStart, MessageDelta, BlockStart, BlockDelta, BlockStop, MessageStop

\* What was stopped was started before.
LEMMA StoppedStarted ==
  ASSUME NEW body \in Seq(AnthropicChunk), CompleteMessage(body), NEW p \in 0..Len(body),
         NEW i \in StoppedBlocks(body, p)
  PROVE  \E j \in 1..p : StartsBlock(body[j], i)
<1>1. PICK k \in 1..p : StopsBlock(body[k], i)
  BY DEF StoppedBlocks
<1>2. k \in DOMAIN body /\ k - 1 < p /\ k \in Nat /\ p \in Nat
  OBVIOUS
<1>3. \E j \in 1..(k - 1) : StartsBlock(body[j], i)
  BY <1>1, <1>2 DEF CompleteMessage, InPlace, StopsBlock
<1> QED
  BY <1>2, <1>3

\* A block that starts is new.
LEMMA StartIsNew ==
  ASSUME NEW body \in Seq(AnthropicChunk), CompleteMessage(body), NEW p \in 0..Len(body),
         p < Len(body), body[p + 1].type = "content_block_start"
  PROVE  /\ body[p + 1].index \notin ToolBlocks(body, p)
         /\ body[p + 1].index \notin StoppedBlocks(body, p)
         /\ body[p + 1].kind = "tool_use" => body[p + 1].call # NoCall
<1>1. p + 1 \in DOMAIN body /\ (p + 1) - 1 = p
  OBVIOUS
<1>2. InPlace(body, p + 1)
  BY <1>1 DEF CompleteMessage
<1>3. /\ \A j \in 1..p : ~StartsBlock(body[j], body[p + 1].index)
      /\ body[p + 1].kind = "tool_use" => body[p + 1].call # NoCall
  BY <1>1, <1>2 DEF InPlace
<1> QED
  BY <1>3, StoppedStarted DEF ToolBlocks

\* What stays when event p + 1 neither starts nor stops a block.
LEMMA BlocksStay ==
  ASSUME NEW body, NEW p \in Nat,
         body[p + 1].type \notin {"content_block_start", "content_block_stop"}
  PROVE  /\ ToolBlocks(body, p + 1) = ToolBlocks(body, p)
         /\ StoppedBlocks(body, p + 1) = StoppedBlocks(body, p)
<1> DEFINE started == {i \in Indexes : StartsBlock(body[p + 1], i) /\ body[p + 1].kind = "tool_use"}
           stopped == {i \in Indexes : StopsBlock(body[p + 1], i)}
<1>1. started = {} /\ stopped = {}
  BY DEF StartsBlock, StopsBlock
<1>2. /\ ToolBlocks(body, p + 1) = ToolBlocks(body, p) \cup started
      /\ StoppedBlocks(body, p + 1) = StoppedBlocks(body, p) \cup stopped
  BY BlocksNext
<1> HIDE DEF started, stopped
<1> QED
  BY <1>1, <1>2

\* Event p + 1 of a message in state st, of the types that leave the blocks alone.
LEMMA OtherFollows ==
  ASSUME NEW body \in Seq(AnthropicChunk), CompleteMessage(body), NEW p \in 0..Len(body),
         p < Len(body), NEW st \in AnthropicState, NEW evs, MsgFollows(body, p, evs, st),
         body[p + 1].type \notin {"content_block_start", "content_block_stop"},
         NEW next \in AnthropicState, next = AnthropicAfter(st, body[p + 1])
  PROVE  /\ BlocksKnown(body, p + 1, next) /\ DeltaKnown(body, p + 1, next)
         /\ \A more : Keeps(more, ToolBlocks(body, p) \ StoppedBlocks(body, p),
                                  ToolBlocks(body, p) \cap StoppedBlocks(body, p))
                        => BlocksTold(body, p + 1, more)
<1> DEFINE e == body[p + 1]
<1>1. p \in Nat /\ e \in AnthropicChunk
  OBVIOUS
<1>2. /\ ToolBlocks(body, p + 1) = ToolBlocks(body, p)
      /\ StoppedBlocks(body, p + 1) = StoppedBlocks(body, p)
  BY <1>1, BlocksStay
<1>3. Deltaed(body, p + 1) <=> Deltaed(body, p) \/ e.type = "message_delta"
  BY <1>1, BlocksNext
<1>4. BlocksKnown(body, p, st) /\ DeltaKnown(body, p, st)
  BY DEF MsgFollows
<1> HIDE DEF e
<1>5. CASE e.type = "message_start"
  <2>1. next = [st EXCEPT !.usage = Reported(e.in, e.out, e.in + e.out)]
    BY <1>5, Zenon DEF AnthropicAfter, e
  <2>2. next.blockKinds = st.blockKinds /\ next.finish = st.finish /\ next.usage.source = "reported"
    BY <2>1 DEF AnthropicState, Reported
  <2> QED
    BY <1>2, <1>3, <1>4, <1>5, <2>2 DEF BlocksKnown, DeltaKnown, BlocksTold
<1>6. CASE e.type = "message_delta"
  <2>1. next = [st EXCEPT !.finish = MapAnthropicStopReason(e.stop),
                          !.usage = Reported(e.in, e.out, e.in + e.out)]
    BY <1>6, Zenon DEF AnthropicAfter, e
  <2>2. /\ next.blockKinds = st.blockKinds /\ next.finish = MapAnthropicStopReason(e.stop)
        /\ next.usage.source = "reported"
    BY <2>1 DEF AnthropicState, Reported
  <2>3. MapAnthropicStopReason(e.stop) # NoFinish
    BY DEF MapAnthropicStopReason, NoFinish
  <2> QED
    BY <1>2, <1>3, <1>4, <1>6, <2>2, <2>3 DEF BlocksKnown, DeltaKnown, BlocksTold
<1>7. CASE e.type \notin {"message_start", "message_delta"}
  <2>1. next = st
    BY <1>7, Zenon DEF AnthropicAfter, e
  <2> QED
    BY <1>2, <1>3, <1>4, <1>7, <2>1 DEF BlocksKnown, DeltaKnown, BlocksTold
<1> QED
  BY <1>5, <1>6, <1>7

\* One event after what keeps the rules.
LEMMA OneMore ==
  ASSUME NEW evs \in Seq(K1Event), NEW ev \in Content
  PROVE  <<ev>> \in Seq(Content) /\ evs \o <<ev>> = Append(evs, ev)
  OBVIOUS

LEMMA DeltaFollows ==
  ASSUME NEW body \in Seq(AnthropicChunk), CompleteMessage(body), NEW p \in 0..Len(body),
         p < Len(body), NEW st \in AnthropicState, NEW evs, MsgFollows(body, p, evs, st),
         body[p + 1].type = "content_block_delta", AnthropicAfter(st, body[p + 1]) \in AnthropicState
  PROVE  /\ AnthropicTranslate(st, body[p + 1]) \in Seq(Content)
         /\ MsgFollows(body, p + 1, evs \o AnthropicTranslate(st, body[p + 1]),
                       AnthropicAfter(st, body[p + 1]))
<1> DEFINE e == body[p + 1]
           opened == ToolBlocks(body, p) \ StoppedBlocks(body, p)
           ended == ToolBlocks(body, p) \cap StoppedBlocks(body, p)
           new == AnthropicTranslate(st, e)
<1>1. e \in AnthropicChunk /\ p + 1 \in DOMAIN body /\ (p + 1) - 1 = p /\ p \in Nat
  OBVIOUS
<1>2. e.index \in Indexes /\ e.text \in Texts \cup {NoText}
  BY <1>1, EventFields
<1>3. /\ e.kind \in {"text", "thinking"} => e.text # NoText
      /\ e.kind = "input_json" => e.index \in opened
  BY <1>1 DEF CompleteMessage, InPlace
<1>4. Keeps(evs, opened, ended) /\ evs \in Seq(K1Event)
  BY DEF MsgFollows, BlocksTold, Keeps
<1> HIDE DEF opened, ended, e
<1>5. new \in Seq(Content) /\ Keeps(evs \o new, opened, ended)
  <2>1. CASE e.kind = "text"
    <3>1. new = <<TextDelta(e.text)>>
      BY <2>1, Zenon DEF AnthropicTranslate, e
    <3>2. TextDelta(e.text) \in Content /\ Keeps(Append(evs, TextDelta(e.text)), opened, ended)
      BY <1>2, <1>3, <1>4, <2>1, ContentEvents, TextKeeps
    <3>3. <<TextDelta(e.text)>> \in Seq(Content) /\ evs \o <<TextDelta(e.text)>> = Append(evs, TextDelta(e.text))
      BY <1>4, <3>2, OneMore
    <3> QED
      BY <3>1, <3>2, <3>3, Zenon
  <2>2. CASE e.kind = "thinking"
    <3>1. new = <<ThinkingDelta(e.text)>>
      BY <2>2, Zenon DEF AnthropicTranslate, e
    <3>2. ThinkingDelta(e.text) \in Content /\ Keeps(Append(evs, ThinkingDelta(e.text)), opened, ended)
      BY <1>2, <1>3, <1>4, <2>2, ContentEvents, TextKeeps
    <3>3. <<ThinkingDelta(e.text)>> \in Seq(Content) /\ evs \o <<ThinkingDelta(e.text)>> = Append(evs, ThinkingDelta(e.text))
      BY <1>4, <3>2, OneMore
    <3> QED
      BY <3>1, <3>2, <3>3, Zenon
  <2>3. CASE e.kind = "input_json"
    <3> DEFINE call == st.blockMeta[e.index]
    <3>1. new = <<ToolArgs(e.index, call, e.text)>>
      BY <2>3, Zenon DEF AnthropicTranslate, e
    <3>2. call \in Calls \cup {NoCall}
      BY <1>2 DEF AnthropicState
    <3> HIDE DEF call
    <3>3. ToolArgs(e.index, call, e.text) \in Content
          /\ Keeps(Append(evs, ToolArgs(e.index, call, e.text)), opened, ended)
      BY <1>2, <1>3, <1>4, <2>3, <3>2, ContentEvents, ArgsKeeps
    <3>4. /\ <<ToolArgs(e.index, call, e.text)>> \in Seq(Content)
          /\ evs \o <<ToolArgs(e.index, call, e.text)>> = Append(evs, ToolArgs(e.index, call, e.text))
      BY <1>4, <3>3, OneMore
    <3> QED
      BY <3>1, <3>3, <3>4, Zenon
  <2>4. CASE e.kind \notin {"text", "thinking", "input_json"}
    <3>1. new = <<>>
      BY <2>4, Zenon DEF AnthropicTranslate, e
    <3>2. evs \o <<>> = evs /\ <<>> \in Seq(Content)
      BY <1>4
    <3> QED
      BY <1>4, <3>1, <3>2, Zenon
  <2> QED
    BY <2>1, <2>2, <2>3, <2>4
<1>6. /\ BlocksKnown(body, p + 1, AnthropicAfter(st, e)) /\ DeltaKnown(body, p + 1, AnthropicAfter(st, e))
      /\ Keeps(evs \o new, opened, ended) => BlocksTold(body, p + 1, evs \o new)
  BY OtherFollows DEF opened, ended, e
<1> QED
  BY <1>5, <1>6, Zenon DEF MsgFollows, e

LEMMA BlockStartFollows ==
  ASSUME NEW body \in Seq(AnthropicChunk), CompleteMessage(body), NEW p \in 0..Len(body),
         p < Len(body), NEW st \in AnthropicState, NEW evs, MsgFollows(body, p, evs, st),
         body[p + 1].type = "content_block_start"
  PROVE  /\ AnthropicTranslate(st, body[p + 1]) \in Seq(Content)
         /\ MsgFollows(body, p + 1, evs \o AnthropicTranslate(st, body[p + 1]),
                       AnthropicAfter(st, body[p + 1]))
<1> DEFINE e == body[p + 1]
           i == e.index
           tools == ToolBlocks(body, p)
           stopped == StoppedBlocks(body, p)
           new == AnthropicTranslate(st, e)
           next == AnthropicAfter(st, e)
<1>1. e \in AnthropicChunk /\ p \in Nat
  OBVIOUS
<1>2. i \in Indexes /\ e.call \in Calls \cup {NoCall}
  BY <1>1, EventFields
<1>3. i \notin tools /\ i \notin stopped /\ (e.kind = "tool_use" => e.call # NoCall)
  BY StartIsNew
<1>4. /\ Keeps(evs, tools \ stopped, tools \cap stopped) /\ evs \in Seq(K1Event)
      /\ BlocksKnown(body, p, st) /\ DeltaKnown(body, p, st)
  BY DEF MsgFollows, BlocksTold, Keeps
<1>5. /\ ToolBlocks(body, p + 1) = IF e.kind = "tool_use" THEN tools \cup {i} ELSE tools
      /\ StoppedBlocks(body, p + 1) = stopped
      /\ Deltaed(body, p + 1) <=> Deltaed(body, p)
  <2>1. /\ ToolBlocks(body, p + 1) = tools \cup {j \in Indexes : StartsBlock(e, j) /\ e.kind = "tool_use"}
        /\ StoppedBlocks(body, p + 1) = stopped \cup {j \in Indexes : StopsBlock(e, j)}
        /\ Deltaed(body, p + 1) <=> Deltaed(body, p)
    BY <1>1, BlocksNext
  <2>2. {j \in Indexes : StopsBlock(e, j)} = {}
    BY DEF StopsBlock
  <2>3. {j \in Indexes : StartsBlock(e, j) /\ e.kind = "tool_use"}
          = IF e.kind = "tool_use" THEN {i} ELSE {}
    BY <1>2 DEF StartsBlock
  <2> QED
    BY <2>1, <2>2, <2>3
<1> HIDE DEF e, i, tools, stopped
<1>6. CASE e.kind = "tool_use"
  <2> DEFINE c == e.call
  <2>1. new = <<ToolStart(i, c)>>
    BY <1>6, Zenon DEF AnthropicTranslate, e, i
  <2>2. next = [st EXCEPT !.blockKinds[i] = "tool_use", !.blockMeta[i] = c]
    BY <1>6, Zenon DEF AnthropicAfter, e, i
  <2> HIDE DEF new, next, c
  <2>3. ToolStart(i, c) \in Content /\ Keeps(Append(evs, ToolStart(i, c)), (tools \ stopped) \cup {i}, tools \cap stopped)
    BY <1>2, <1>3, <1>4, <1>6, ContentEvents, StartKeeps DEF c
  <2>4. <<ToolStart(i, c)>> \in Seq(Content) /\ evs \o <<ToolStart(i, c)>> = Append(evs, ToolStart(i, c))
    BY <1>4, <2>3, OneMore
  <2>5. (tools \cup {i}) \ stopped = (tools \ stopped) \cup {i} /\ (tools \cup {i}) \cap stopped = tools \cap stopped
    BY <1>3
  <2>6. new \in Seq(Content) /\ BlocksTold(body, p + 1, evs \o new)
    BY <1>5, <1>6, <2>1, <2>3, <2>4, <2>5, Zenon DEF BlocksTold
  <2>7. /\ next.finish = st.finish /\ next.usage = st.usage
        /\ \A j \in Indexes : next.blockKinds[j] = IF j = i THEN "tool_use" ELSE st.blockKinds[j]
    BY <1>2, <2>2 DEF AnthropicState
  <2>8. BlocksKnown(body, p + 1, next)
    BY <1>4, <1>5, <1>6, <2>7 DEF BlocksKnown, tools
  <2>9. DeltaKnown(body, p + 1, next)
    BY <1>4, <1>5, <2>7, Zenon DEF DeltaKnown
  <2> QED
    BY <2>6, <2>8, <2>9, Zenon DEF MsgFollows, new, next, e
<1>7. CASE e.kind # "tool_use"
  <2>1. new = <<>>
    BY <1>7, Zenon DEF AnthropicTranslate, e
  <2>2. next = IF e.kind \in {"text", "thinking"} THEN [st EXCEPT !.blockKinds[i] = e.kind] ELSE st
    BY <1>7, Zenon DEF AnthropicAfter, e, i
  <2> HIDE DEF new, next
  <2>3. evs \o <<>> = evs /\ <<>> \in Seq(Content)
    BY <1>4
  <2>4. new \in Seq(Content) /\ BlocksTold(body, p + 1, evs \o new)
    BY <1>4, <1>5, <1>7, <2>1, <2>3, Zenon DEF BlocksTold
  <2>5. /\ next.finish = st.finish /\ next.usage = st.usage
        /\ \A j \in Indexes \ {i} : next.blockKinds[j] = st.blockKinds[j]
        /\ next.blockKinds[i] \in {e.kind, st.blockKinds[i]}
    BY <1>2, <2>2 DEF AnthropicState
  <2>6. ASSUME NEW j \in Indexes
        PROVE  next.blockKinds[j] = "tool_use" <=> j \in ToolBlocks(body, p + 1)
    <3>1. st.blockKinds[j] = "tool_use" <=> j \in tools
      BY <1>4 DEF BlocksKnown, tools
    <3> QED
      BY <1>3, <1>5, <1>7, <2>5, <3>1
  <2>7. DeltaKnown(body, p + 1, next)
    BY <1>4, <1>5, <2>5, Zenon DEF DeltaKnown
  <2> QED
    BY <2>4, <2>6, <2>7, Zenon DEF MsgFollows, BlocksKnown, new, next, e
<1> QED
  BY <1>6, <1>7

LEMMA BlockStopFollows ==
  ASSUME NEW body \in Seq(AnthropicChunk), CompleteMessage(body), NEW p \in 0..Len(body),
         p < Len(body), NEW st \in AnthropicState, NEW evs, MsgFollows(body, p, evs, st),
         body[p + 1].type = "content_block_stop"
  PROVE  /\ AnthropicTranslate(st, body[p + 1]) \in Seq(Content)
         /\ MsgFollows(body, p + 1, evs \o AnthropicTranslate(st, body[p + 1]),
                       AnthropicAfter(st, body[p + 1]))
<1> DEFINE e == body[p + 1]
           i == e.index
           tools == ToolBlocks(body, p)
           stopped == StoppedBlocks(body, p)
           new == AnthropicTranslate(st, e)
           next == AnthropicAfter(st, e)
<1>1. e \in AnthropicChunk /\ p + 1 \in DOMAIN body /\ (p + 1) - 1 = p /\ p \in Nat
  OBVIOUS
<1>2. i \in Indexes
  BY <1>1, EventFields
<1>3. i \notin stopped
  BY <1>1 DEF CompleteMessage, InPlace
<1>4. /\ Keeps(evs, tools \ stopped, tools \cap stopped) /\ evs \in Seq(K1Event)
      /\ BlocksKnown(body, p, st) /\ DeltaKnown(body, p, st)
  BY DEF MsgFollows, BlocksTold, Keeps
<1>5. /\ ToolBlocks(body, p + 1) = tools
      /\ StoppedBlocks(body, p + 1) = stopped \cup {i}
      /\ Deltaed(body, p + 1) <=> Deltaed(body, p)
  <2>1. /\ ToolBlocks(body, p + 1) = tools \cup {j \in Indexes : StartsBlock(e, j) /\ e.kind = "tool_use"}
        /\ StoppedBlocks(body, p + 1) = stopped \cup {j \in Indexes : StopsBlock(e, j)}
        /\ Deltaed(body, p + 1) <=> Deltaed(body, p)
    BY <1>1, BlocksNext
  <2>2. {j \in Indexes : StopsBlock(e, j)} = {i}
    BY <1>2 DEF StopsBlock
  <2>3. {j \in Indexes : StartsBlock(e, j) /\ e.kind = "tool_use"} = {}
    BY DEF StartsBlock
  <2> QED
    BY <2>1, <2>2, <2>3
<1>6. next = st
  BY Zenon DEF AnthropicAfter
<1> HIDE DEF e, i, tools, stopped, next
<1>7. st.blockKinds[i] = "tool_use" <=> i \in tools
  BY <1>2, <1>4 DEF BlocksKnown, tools
<1>8. ASSUME i \in tools PROVE new \in Seq(Content) /\ BlocksTold(body, p + 1, evs \o new)
  <2> DEFINE c == st.blockMeta[i]
  <2>1. new = <<ToolEnd(i, c)>>
    BY <1>7, <1>8, Zenon DEF AnthropicTranslate, e, i
  <2>2. c \in Calls \cup {NoCall}
    BY <1>2 DEF AnthropicState
  <2> HIDE DEF new, c
  <2>3. /\ ToolEnd(i, c) \in Content
        /\ Keeps(Append(evs, ToolEnd(i, c)), (tools \ stopped) \ {i}, (tools \cap stopped) \cup {i})
    BY <1>2, <1>3, <1>4, <1>8, <2>2, ContentEvents, EndKeeps
  <2>4. <<ToolEnd(i, c)>> \in Seq(Content) /\ evs \o <<ToolEnd(i, c)>> = Append(evs, ToolEnd(i, c))
    BY <1>4, <2>3, OneMore
  <2>5. tools \ (stopped \cup {i}) = (tools \ stopped) \ {i}
        /\ tools \cap (stopped \cup {i}) = (tools \cap stopped) \cup {i}
    BY <1>8
  <2> QED
    BY <1>5, <2>1, <2>3, <2>4, <2>5, Zenon DEF BlocksTold
<1>9. ASSUME i \notin tools PROVE new \in Seq(Content) /\ BlocksTold(body, p + 1, evs \o new)
  <2>1. new = <<>>
    BY <1>7, <1>9, Zenon DEF AnthropicTranslate, e, i
  <2> HIDE DEF new
  <2>2. evs \o <<>> = evs /\ <<>> \in Seq(Content)
    BY <1>4
  <2>3. tools \ (stopped \cup {i}) = tools \ stopped /\ tools \cap (stopped \cup {i}) = tools \cap stopped
    BY <1>9
  <2> QED
    BY <1>4, <1>5, <2>1, <2>2, <2>3, Zenon DEF BlocksTold
<1>10. BlocksKnown(body, p + 1, next) /\ DeltaKnown(body, p + 1, next)
  BY <1>4, <1>5, <1>6 DEF BlocksKnown, DeltaKnown, tools
<1> QED
  BY <1>8, <1>9, <1>10, Zenon DEF MsgFollows, next, e

LEMMA MessageStopFollows ==
  ASSUME NEW body \in Seq(AnthropicChunk), CompleteMessage(body), NEW p \in 0..Len(body),
         p < Len(body), NEW st \in AnthropicState, NEW evs, MsgFollows(body, p, evs, st),
         body[p + 1].type = "message_stop", AnthropicAfter(st, body[p + 1]) \in AnthropicState
  PROVE  /\ AnthropicTranslate(st, body[p + 1]) = <<Done(st.usage, st.finish)>>
         /\ Done(st.usage, st.finish) \in K1Event
         /\ p + 1 = Len(body)
         /\ MsgFollows(body, p + 1, Append(evs, Done(st.usage, st.finish)),
                       AnthropicAfter(st, body[p + 1]))
<1> DEFINE e == body[p + 1]
           opened == ToolBlocks(body, p) \ StoppedBlocks(body, p)
           ended == ToolBlocks(body, p) \cap StoppedBlocks(body, p)
<1>1. p + 1 \in DOMAIN body /\ (p + 1) - 1 = p
  OBVIOUS
<1>2. p + 1 = Len(body) /\ Deltaed(body, p) /\ opened = {}
  BY <1>1 DEF CompleteMessage, InPlace, Deltaed
<1>3. Keeps(evs, opened, ended) /\ DeltaKnown(body, p, st)
  BY DEF MsgFollows, BlocksTold
<1>4. st.finish # NoFinish /\ st.usage.source # "nil"
  BY <1>2, <1>3, Zenon DEF DeltaKnown
<1>5. st.usage \in Usage /\ st.finish \in FinishReasons \cup {NoFinish}
  BY DEF AnthropicState, Usage, FinishReasons
<1> HIDE DEF opened, ended
<1>6. Keeps(Append(evs, Done(st.usage, st.finish)), opened, ended)
  BY <1>2, <1>3, <1>4, <1>5, DoneKeeps
<1>7. Done(st.usage, st.finish) \in K1Event
  BY <1>5 DEF K1Event, Blank, Done
<1>8. AnthropicTranslate(st, body[p + 1]) = <<Done(st.usage, st.finish)>>
  BY Zenon DEF AnthropicTranslate
<1>9. /\ BlocksKnown(body, p + 1, AnthropicAfter(st, e)) /\ DeltaKnown(body, p + 1, AnthropicAfter(st, e))
      /\ Keeps(Append(evs, Done(st.usage, st.finish)), opened, ended)
           => BlocksTold(body, p + 1, Append(evs, Done(st.usage, st.finish)))
  BY OtherFollows DEF opened, ended, e
<1> QED
  BY <1>2, <1>6, <1>7, <1>8, <1>9, Zenon DEF MsgFollows, e

\* Whatever event p + 1 is: it is told by the rules, and the Done is what
\* message_stop, the last event, becomes.
LEMMA MessageFollows ==
  ASSUME NEW body \in Seq(AnthropicChunk), CompleteMessage(body), NEW p \in 0..Len(body),
         p < Len(body), NEW st \in AnthropicState, NEW evs, MsgFollows(body, p, evs, st),
         AnthropicAfter(st, body[p + 1]) \in AnthropicState
  PROVE  LET e == body[p + 1]
             new == AnthropicTranslate(st, e)
         IN  /\ MsgFollows(body, p + 1, evs \o new, AnthropicAfter(st, e))
             /\ e.type # "message_stop" => new \in Seq(Content)
             /\ e.type = "message_stop" =>
                  p + 1 = Len(body) /\ \E done \in K1Event : done.kind = "done" /\ new = <<done>>
<1> DEFINE e == body[p + 1]
           new == AnthropicTranslate(st, e)
           next == AnthropicAfter(st, e)
<1>1. e \in AnthropicChunk
  OBVIOUS
<1>2. e.type \in {"message_start", "message_delta", "content_block_start",
                  "content_block_delta", "content_block_stop", "message_stop"}
  BY <1>1, EventFields
<1>3. CASE e.type = "content_block_start"
  BY <1>3, BlockStartFollows
<1>4. CASE e.type = "content_block_stop"
  BY <1>4, BlockStopFollows
<1>5. CASE e.type = "content_block_delta"
  BY <1>5, DeltaFollows
<1>6. CASE e.type = "message_stop"
  <2> DEFINE done == Done(st.usage, st.finish)
  <2>1. new = <<done>> /\ done \in K1Event /\ p + 1 = Len(body) /\ MsgFollows(body, p + 1, Append(evs, done), next)
    BY <1>6, MessageStopFollows
  <2>2. done.kind = "done"
    BY DEF Done, Blank
  <2> HIDE DEF done, new, next
  <2>3. evs \in Seq(K1Event)
    BY DEF MsgFollows, BlocksTold, Keeps
  <2>4. evs \o <<done>> = Append(evs, done)
    BY <2>1, <2>3
  <2>5. MsgFollows(body, p + 1, evs \o new, next)
    BY <2>1, <2>4, Zenon
  <2> QED
    BY <1>6, <2>1, <2>2, <2>5, Zenon DEF new, next
<1>7. CASE e.type \in {"message_start", "message_delta"}
  <2>1. new = <<>>
    BY <1>7, Zenon DEF AnthropicTranslate
  <2>2. /\ BlocksKnown(body, p + 1, next) /\ DeltaKnown(body, p + 1, next)
        /\ BlocksTold(body, p, evs) => BlocksTold(body, p + 1, evs)
    BY <1>7, OtherFollows DEF BlocksTold
  <2>3. BlocksTold(body, p, evs) /\ evs \in Seq(K1Event)
    BY DEF MsgFollows, BlocksTold, Keeps
  <2> HIDE DEF new, next
  <2>4. evs \o <<>> = evs /\ <<>> \in Seq(Content)
    BY <2>3
  <2>5. new \in Seq(Content) /\ MsgFollows(body, p + 1, evs \o new, next)
    BY <2>1, <2>2, <2>3, <2>4, Zenon DEF MsgFollows
  <2> QED
    BY <1>7, <2>5, Zenon DEF new, next
<1> QED
  BY <1>2, <1>3, <1>4, <1>5, <1>6, <1>7


-----------------------------------------------------------------------------
(* What the events of an answer in the format of OpenAI add up to.         *)

TextOf == [e \in K1Event |-> e.text]
StartEvents == {e \in K1Event : e.kind = "tool_start"}

SaidIn == [ch \in OAWireChoice |-> ch.text]
Saying == {ch \in OAWireChoice : ch.text # NoText}
ToolsIn == [ch \in OAWireChoice |-> ch.tools]
ArgsIn == [t \in ToolDelta |-> t.args]
ArgsOn(i) == {t \in ToolDelta : t.index = i /\ t.args # NoText}
Naming == {t \in ToolDelta : t.call # NoCall}
StartOf == [t \in ToolDelta |-> ToolStart(t.index, t.call)]
EventsOf == [t \in ToolDelta |-> OAToolEvents(t)]

\* The deltas of calls in some choices.
ToolsOf(chs) == FlattenSeq(Each(ToolsIn, chs))

\* evs have the texts of the choices, the arguments of the deltas, each under its
\* index, and a Start for each delta that names a call; all of them in order.
ArgsAdd(evs, tools) ==
  \A i \in Indexes : Picked(TextOf, evs, ArgsEvents(i)) = Picked(ArgsIn, tools, ArgsOn(i))
Adds(evs, chs, tools) ==
  /\ Picked(TextOf, evs, TextEvents) = Picked(SaidIn, chs, Saying)
  /\ ArgsAdd(evs, tools)
  /\ Kept(evs, StartEvents) = Picked(StartOf, tools, Naming)

LEMMA AddsTypes ==
  /\ ToolsIn \in [OAWireChoice -> Seq(ToolDelta)]
  /\ EventsOf \in [ToolDelta -> Seq(K1Event)]
<1>1. ToolsIn \in [OAWireChoice -> Seq(ToolDelta)]
  BY DEF ToolsIn, OAWireChoice
<1>2. ASSUME NEW t \in ToolDelta PROVE OAToolEvents(t) \in Seq(K1Event)
  <2>1. NoUsage \in Usage
    BY DEF Usage
  <2>2. ToolStart(t.index, t.call) \in K1Event /\ ToolArgs(t.index, t.call, t.args) \in K1Event
    BY <2>1 DEF K1Event, Blank, ToolStart, ToolArgs, ToolDelta
  <2> QED
    BY <2>2 DEF OAToolEvents
<1> QED
  BY <1>1, <1>2 DEF EventsOf

\* The sums of two pieces.
LEMMA AddsBoth ==
  ASSUME NEW evs \in Seq(K1Event), NEW more \in Seq(K1Event),
         NEW chs \in Seq(OAWireChoice), NEW others \in Seq(OAWireChoice),
         NEW tools \in Seq(ToolDelta), NEW rest \in Seq(ToolDelta),
         Adds(evs, chs, tools), Adds(more, others, rest)
  PROVE  Adds(evs \o more, chs \o others, tools \o rest)
<1>1. PickedBoth(TextOf, evs, more, TextEvents) /\ PickedBoth(SaidIn, chs, others, Saying)
      /\ KeptOfBoth(evs, more, StartEvents) /\ PickedBoth(StartOf, tools, rest, Naming)
  BY PickedConcat, KeptConcat
<1>2. \A i \in Indexes : /\ PickedBoth(TextOf, evs, more, ArgsEvents(i))
                         /\ PickedBoth(ArgsIn, tools, rest, ArgsOn(i))
  BY PickedConcat
<1>3. Adds(evs, chs, tools) /\ Adds(more, others, rest)
  OBVIOUS
<1>4. Picked(TextOf, evs \o more, TextEvents) = Picked(SaidIn, chs \o others, Saying)
  BY <1>1, <1>3, Zenon DEF Adds, PickedBoth
<1>5. Kept(evs \o more, StartEvents) = Picked(StartOf, tools \o rest, Naming)
  BY <1>1, <1>3, Zenon DEF Adds, PickedBoth, KeptOfBoth
<1>6. ArgsAdd(evs \o more, tools \o rest)
  <2>1. ArgsAdd(evs, tools) /\ ArgsAdd(more, rest)
    BY <1>3 DEF Adds
  <2> QED
    BY <1>2, <2>1, Zenon DEF ArgsAdd, PickedBoth
<1> QED
  BY <1>4, <1>5, <1>6 DEF Adds

\* Ends and a Done add nothing.
LEMMA AddsNothing ==
  ASSUME NEW evs \in Seq(K1Event),
         \A k \in DOMAIN evs : evs[k].kind \notin {"text", "tool_args", "tool_start"}
  PROVE  Adds(evs, <<>>, <<>>)
<1>1. /\ Kept(evs, TextEvents) = <<>> /\ Kept(evs, StartEvents) = <<>>
      /\ \A i \in Indexes : Kept(evs, ArgsEvents(i)) = <<>>
  <2>1. \A k \in DOMAIN evs : /\ evs[k] \notin TextEvents /\ evs[k] \notin StartEvents
                              /\ \A i \in Indexes : evs[k] \notin ArgsEvents(i)
    BY DEF TextEvents, StartEvents, ArgsEvents
  <2>2. Kept(evs, TextEvents) = <<>>
    BY <2>1, KeptNothing
  <2>3. Kept(evs, StartEvents) = <<>>
    BY <2>1, KeptNothing
  <2>4. ASSUME NEW i \in Indexes PROVE Kept(evs, ArgsEvents(i)) = <<>>
    <3>1. \A k \in DOMAIN evs : evs[k] \notin ArgsEvents(i)
      BY <2>1
    <3> QED
      BY <3>1, KeptNothing
  <2> QED
    BY <2>2, <2>3, <2>4
<1>2. Each(TextOf, <<>>) = <<>>
  BY DEF Each
<1>3. /\ Picked(SaidIn, <<>>, Saying) = <<>> /\ Picked(StartOf, <<>>, Naming) = <<>>
      /\ \A i \in Indexes : Picked(ArgsIn, <<>>, ArgsOn(i)) = <<>>
  BY PickedEmpty
<1>4. \A i \in Indexes : Picked(TextOf, evs, ArgsEvents(i)) = <<>>
  BY <1>1, <1>2, Zenon DEF Picked
<1>5. ArgsAdd(evs, <<>>)
  BY <1>3, <1>4, Zenon DEF ArgsAdd
<1> QED
  BY <1>1, <1>2, <1>3, <1>5, Zenon DEF Adds, Picked

LEMMA AddsEmpty == <<>> \in Seq(K1Event) /\ Adds(<<>>, <<>>, <<>>)
<1> DEFINE s == <<>>
<1>1. s \in Seq(K1Event) /\ DOMAIN s = {}
  OBVIOUS
<1> HIDE DEF s
<1>2. \A k \in DOMAIN s : s[k].kind \notin {"text", "tool_args", "tool_start"}
  BY <1>1
<1>3. Adds(s, <<>>, <<>>)
  BY <1>1, <1>2, AddsNothing
<1> QED
  BY <1>1, <1>3 DEF s

\* The text of a choice.
LEMMA TextAdds ==
  ASSUME NEW ch \in OAWireChoice
  PROVE  TextPart(ch) \in Seq(K1Event) /\ Adds(TextPart(ch), <<ch>>, <<>>)
<1>1. ch.text \in Texts \cup {NoText}
  BY DEF OAWireChoice
<1>2. PickedOnce(SaidIn, ch, Saying) /\ SaidIn[ch] = ch.text /\ (ch \in Saying <=> ch.text # NoText)
  BY PickedOne DEF SaidIn, Saying
<1>3. Picked(SaidIn, <<ch>>, Saying) = IF ch.text # NoText THEN <<ch.text>> ELSE <<>>
  BY <1>2, Zenon DEF PickedOnce
<1>4. CASE ch.text = NoText
  <2>1. TextPart(ch) = <<>> /\ <<>> \in Seq(K1Event)
    BY <1>4 DEF TextPart
  <2>2. Adds(<<>>, <<>>, <<>>)
    BY AddsEmpty
  <2>3. Picked(SaidIn, <<>>, Saying) = <<>>
    BY PickedEmpty
  <2> QED
    BY <1>3, <1>4, <2>1, <2>2, <2>3, Zenon DEF Adds
<1>5. CASE ch.text # NoText
  <2> DEFINE e == TextDelta(ch.text)
  <2>1. e \in K1Event /\ e.kind = "text" /\ e.text = ch.text
    <3>1. NoUsage \in Usage
      BY DEF Usage
    <3> QED
      BY <1>1, <3>1 DEF K1Event, Blank, TextDelta
  <2>2. TextPart(ch) = <<e>>
    BY <1>5 DEF TextPart
  <2> HIDE DEF e
  <2>3. /\ TextOf[e] = ch.text /\ e \in TextEvents /\ e \notin StartEvents
        /\ \A i \in Indexes : e \notin ArgsEvents(i)
    BY <2>1 DEF TextOf, TextEvents, StartEvents, ArgsEvents
  <2>4. PickedOnce(TextOf, e, TextEvents) /\ \A i \in Indexes : PickedOnce(TextOf, e, ArgsEvents(i))
    BY PickedOne
  <2>5. Kept(<<e>>, StartEvents) = <<>>
    BY <2>3, KeptOne
  <2>6. Picked(TextOf, <<e>>, TextEvents) = <<ch.text>>
    BY <2>3, <2>4, Zenon DEF PickedOnce
  <2>7. \A i \in Indexes : Picked(TextOf, <<e>>, ArgsEvents(i)) = <<>>
    BY <2>3, <2>4, Zenon DEF PickedOnce
  <2>8. Picked(StartOf, <<>>, Naming) = <<>> /\ \A i \in Indexes : Picked(ArgsIn, <<>>, ArgsOn(i)) = <<>>
    BY PickedEmpty
  <2>9. ArgsAdd(<<e>>, <<>>)
    BY <2>7, <2>8, Zenon DEF ArgsAdd
  <2>10. Adds(<<e>>, <<ch>>, <<>>)
    BY <1>3, <1>5, <2>5, <2>6, <2>8, <2>9, Zenon DEF Adds
  <2>11. <<e>> \in Seq(K1Event)
    BY <2>1
  <2> QED
    BY <2>2, <2>10, <2>11
<1> QED
  BY <1>4, <1>5

\* One delta of a call.
LEMMA DeltaAdds ==
  ASSUME NEW t \in ToolDelta
  PROVE  OAToolEvents(t) \in Seq(K1Event) /\ Adds(OAToolEvents(t), <<>>, <<t>>)
<1> DEFINE start == ToolStart(t.index, t.call)
           args == ToolArgs(t.index, t.call, t.args)
           a == IF t.call # NoCall THEN <<start>> ELSE <<>>
           b == IF t.args # NoText THEN <<args>> ELSE <<>>
<1>1. t.index \in Indexes /\ t.call \in Calls \cup {NoCall} /\ t.args \in Texts \cup {NoText}
  BY DEF ToolDelta
<1>2. /\ start \in K1Event /\ start.kind = "tool_start"
      /\ args \in K1Event /\ args.kind = "tool_args" /\ args.index = t.index /\ args.text = t.args
  <2>1. NoUsage \in Usage
    BY DEF Usage
  <2> QED
    BY <1>1, <2>1 DEF K1Event, Blank, ToolStart, ToolArgs
<1>3. OAToolEvents(t) = a \o b
  BY Zenon DEF OAToolEvents
<1>4. StartOf[t] = start /\ ArgsIn[t] = t.args
  BY DEF StartOf, ArgsIn
<1> HIDE DEF start, args
<1>5. /\ start \notin TextEvents /\ start \in StartEvents /\ \A i \in Indexes : start \notin ArgsEvents(i)
      /\ args \notin TextEvents /\ args \notin StartEvents
      /\ \A i \in Indexes : args \in ArgsEvents(i) <=> i = t.index
      /\ TextOf[args] = t.args
  BY <1>2 DEF TextEvents, StartEvents, ArgsEvents, TextOf
<1>6. /\ t \in Naming <=> t.call # NoCall
      /\ \A i \in Indexes : t \in ArgsOn(i) <=> t.index = i /\ t.args # NoText
  BY DEF Naming, ArgsOn
<1>7. a \in Seq(K1Event) /\ b \in Seq(K1Event)
  BY <1>2
<1>8. Kept(a, StartEvents) = a
  <2>1. CASE t.call # NoCall
    BY <1>5, <2>1, KeptOne
  <2>2. CASE t.call = NoCall
    BY <2>2, KeptEmpty
  <2> QED
    BY <2>1, <2>2
<1>9. Kept(b, StartEvents) = <<>> /\ Kept(b, TextEvents) = <<>>
  <2>1. CASE t.args # NoText
    BY <1>5, <2>1, KeptOne
  <2>2. CASE t.args = NoText
    BY <2>2, KeptEmpty
  <2> QED
    BY <2>1, <2>2
<1>10. Kept(a, TextEvents) = <<>> /\ \A i \in Indexes : Kept(a, ArgsEvents(i)) = <<>>
  <2>1. CASE t.call # NoCall
    BY <1>5, <2>1, KeptOne
  <2>2. CASE t.call = NoCall
    BY <2>2, KeptEmpty
  <2> QED
    BY <2>1, <2>2
<1>11. \A i \in Indexes : Kept(b, ArgsEvents(i)) = IF i = t.index THEN b ELSE <<>>
  <2>1. CASE t.args # NoText
    BY <1>5, <2>1, KeptOne
  <2>2. CASE t.args = NoText
    BY <2>2, KeptEmpty
  <2> QED
    BY <2>1, <2>2
<1>12. Each(TextOf, b) = IF t.args # NoText THEN <<t.args>> ELSE <<>>
  <2>1. Each(TextOf, <<args>>) = <<TextOf[args]>>
    BY EachOne
  <2>2. Each(TextOf, <<>>) = <<>>
    BY DEF Each
  <2> QED
    BY <1>5, <2>1, <2>2
<1> HIDE DEF a, b
<1>13. /\ KeptOfBoth(a, b, StartEvents) /\ KeptOfBoth(a, b, TextEvents)
       /\ \A i \in Indexes : KeptOfBoth(a, b, ArgsEvents(i))
  BY <1>7, KeptConcat
<1>14. a \o <<>> = a /\ <<>> \o b = b /\ <<>> \o <<>> = <<>>
  BY <1>7
<1>15. Kept(a \o b, StartEvents) = a
  BY <1>8, <1>9, <1>13, <1>14, Zenon DEF KeptOfBoth
<1>16. Kept(a \o b, TextEvents) = <<>>
  BY <1>9, <1>10, <1>13, <1>14, Zenon DEF KeptOfBoth
<1>17. \A i \in Indexes : Kept(a \o b, ArgsEvents(i)) = IF i = t.index THEN b ELSE <<>>
  BY <1>10, <1>11, <1>13, <1>14, Zenon DEF KeptOfBoth
<1>18. Picked(StartOf, <<t>>, Naming) = a
  <2>1. PickedOnce(StartOf, t, Naming)
    BY PickedOne
  <2> QED
    BY <1>4, <1>6, <2>1, Zenon DEF PickedOnce, a
<1>19. Each(TextOf, <<>>) = <<>>
  BY DEF Each
<1>20. ASSUME NEW i \in Indexes
       PROVE  Picked(TextOf, a \o b, ArgsEvents(i)) = Picked(ArgsIn, <<t>>, ArgsOn(i))
  <2>1. PickedOnce(ArgsIn, t, ArgsOn(i))
    BY PickedOne
  <2>2. CASE i = t.index
    <3>1. Picked(TextOf, a \o b, ArgsEvents(i)) = IF t.args # NoText THEN <<t.args>> ELSE <<>>
      BY <1>12, <1>17, <2>2, Zenon DEF Picked
    <3> QED
      BY <1>4, <1>6, <2>1, <2>2, <3>1, Zenon DEF PickedOnce
  <2>3. CASE i # t.index
    <3>1. Picked(TextOf, a \o b, ArgsEvents(i)) = <<>>
      BY <1>17, <1>19, <2>3, Zenon DEF Picked
    <3> QED
      BY <1>6, <2>1, <2>3, <3>1, Zenon DEF PickedOnce
  <2> QED
    BY <2>2, <2>3
<1>21. Picked(TextOf, a \o b, TextEvents) = Picked(SaidIn, <<>>, Saying)
  <2>1. Picked(SaidIn, <<>>, Saying) = <<>>
    BY PickedEmpty
  <2> QED
    BY <1>16, <1>19, <2>1, Zenon DEF Picked
<1>22. Adds(a \o b, <<>>, <<t>>)
  BY <1>15, <1>18, <1>20, <1>21, Zenon DEF Adds, ArgsAdd
<1>23. a \o b \in Seq(K1Event)
  BY <1>7
<1> QED
  BY <1>3, <1>22, <1>23


LEMMA ToolSeqsEach ==
  ASSUME NEW tools \in Seq(ToolDelta)
  PROVE  ToolSeqs(tools) = Each(EventsOf, tools)
<1>1. \A k \in DOMAIN tools : tools[k] \in ToolDelta
  OBVIOUS
<1> QED
  BY <1>1 DEF ToolSeqs, Each, EventsOf

\* Any number of deltas.
LEMMA DeltasAdd ==
  ASSUME NEW tools \in Seq(ToolDelta)
  PROVE  /\ FlattenSeq(ToolSeqs(tools)) \in Seq(K1Event)
         /\ Adds(FlattenSeq(ToolSeqs(tools)), <<>>, tools)
<1> DEFINE all(s) == FlattenSeq(Each(EventsOf, s))
           P == {s \in Seq(ToolDelta) : all(s) \in Seq(K1Event) /\ Adds(all(s), <<>>, s)}
<1>1. <<>> \in P
  <2>1. all(<<>>) = <<>>
    <3>1. Each(EventsOf, <<>>) = <<>>
      BY DEF Each
    <3> QED
      BY <3>1, FlattenEmpty, Zenon
  <2>2. <<>> \in Seq(K1Event) /\ <<>> \in Seq(ToolDelta)
    OBVIOUS
  <2>3. Adds(<<>>, <<>>, <<>>)
    BY AddsEmpty
  <2> QED
    BY <2>1, <2>2, <2>3, Zenon
<1>2. ASSUME NEW s \in Seq(ToolDelta), NEW t \in ToolDelta, s \in P PROVE Append(s, t) \in P
  <2>1. EachLonger(EventsOf, s, t) /\ Each(EventsOf, s) \in Seq(Seq(K1Event))
        /\ EventsOf[t] \in Seq(K1Event)
    BY AddsTypes, EachAppend, EachType
  <2>2. FlattenLonger(Each(EventsOf, s), EventsOf[t])
    BY <2>1, FlattenAppend
  <2>3. EventsOf[t] = OAToolEvents(t)
    BY DEF EventsOf
  <2>4. all(Append(s, t)) = all(s) \o OAToolEvents(t)
    BY <2>1, <2>2, <2>3, Zenon DEF EachLonger, FlattenLonger
  <2>5. all(s) \in Seq(K1Event) /\ Adds(all(s), <<>>, s)
    BY <1>2
  <2>6. OAToolEvents(t) \in Seq(K1Event) /\ Adds(OAToolEvents(t), <<>>, <<t>>)
    BY DeltaAdds
  <2> HIDE DEF all
  <2>7. <<>> \in Seq(OAWireChoice) /\ <<t>> \in Seq(ToolDelta) /\ s \o <<t>> = Append(s, t)
        /\ Append(s, t) \in Seq(ToolDelta)
    OBVIOUS
  <2>8. Adds(all(s) \o OAToolEvents(t), <<>> \o <<>>, s \o <<t>>)
    BY <2>5, <2>6, <2>7, AddsBoth
  <2>9. <<>> \o <<>> = <<>>
    OBVIOUS
  <2>10. all(s) \o OAToolEvents(t) \in Seq(K1Event)
    BY <2>5, <2>6
  <2>11. all(Append(s, t)) \in Seq(K1Event) /\ Adds(all(Append(s, t)), <<>>, Append(s, t))
    BY <2>4, <2>7, <2>8, <2>9, <2>10, Zenon
  <2> QED
    BY <2>7, <2>11
<1>3. tools \in P
  <2> HIDE DEF P
  <2> QED
    BY <1>1, <1>2, BuiltUp
<1>4. all(tools) \in Seq(K1Event) /\ Adds(all(tools), <<>>, tools)
  BY <1>3
<1> QED
  BY <1>4, ToolSeqsEach

\* The Ends of some calls.
LEMMA EndsAdd ==
  ASSUME NEW opened \in SUBSET Indexes, IsFiniteSet(opened)
  PROVE  OAEndEvents(opened) \in Seq(K1Event) /\ Adds(OAEndEvents(opened), <<>>, <<>>)
<1> DEFINE n == Cardinality(opened)
           s == Sorted(opened)
           ends == OAEndEvents(opened)
<1>1. n \in Nat /\ s \in [1..n -> opened]
  <2>1. opened \in SUBSET Nat
    BY IndexAssumption
  <2> QED
    BY <2>1, SortedType, FS_CardinalityType
<1>2. ends = [k \in 1..n |-> ToolEnd(s[k], NoCall)]
  BY <1>1 DEF OAEndEvents
<1>3. \A i \in Indexes : ToolEnd(i, NoCall) \in K1Event /\ ToolEnd(i, NoCall).kind = "tool_end"
  <2>1. NoUsage \in Usage
    BY DEF Usage
  <2> QED
    BY <2>1 DEF K1Event, Blank, ToolEnd
<1> HIDE DEF n, s, ends
<1>4. \A k \in 1..n : ToolEnd(s[k], NoCall) \in K1Event /\ ToolEnd(s[k], NoCall).kind = "tool_end"
  BY <1>1, <1>3
<1>5. ends \in [1..n -> K1Event] /\ \A k \in 1..n : ends[k].kind = "tool_end"
  BY <1>2, <1>4
<1>6. ends \in Seq(K1Event) /\ DOMAIN ends = 1..n
  BY <1>1, <1>5
<1>7. Adds(ends, <<>>, <<>>)
  BY <1>5, <1>6, AddsNothing
<1> QED
  BY <1>6, <1>7 DEF ends

\* One choice: its text, its deltas, and the Ends that it brings.
LEMMA ChoiceAdds ==
  ASSUME NEW st \in OAState, IsFiniteSet(st.toolIndexes), NEW ch \in OAWireChoice
  PROVE  LET next == OAChoice([evs |-> <<>>, st |-> st], ch) IN
         /\ next.evs \in Seq(K1Event) /\ Adds(next.evs, <<ch>>, ch.tools)
         /\ next.st.lastFinish = IF ch.finish = NoFinish THEN st.lastFinish
                                 ELSE OAMapFinishReason(ch.finish)
<1> DEFINE now == st.toolIndexes \cup {t.index : t \in ToSet(ch.tools)}
           seen == [st EXCEPT !.toolIndexes = now]
           a == TextPart(ch)
           b == ToolPart(ch)
           c == IF OAEndsCalls(seen, ch) THEN OAEndEvents(seen.toolIndexes) ELSE <<>>
           acc == [evs |-> <<>>, st |-> st]
           next == OAChoice(acc, ch)
<1>1. ch.tools \in Seq(ToolDelta) /\ st.toolIndexes \in SUBSET Indexes
  BY DEF OAWireChoice, OAState
<1>2. a \in Seq(K1Event) /\ Adds(a, <<ch>>, <<>>)
  BY TextAdds
<1>3. b \in Seq(K1Event) /\ Adds(b, <<>>, ch.tools)
  BY <1>1, DeltasAdd DEF ToolPart
<1>4. now \in SUBSET Indexes /\ IsFiniteSet(now)
  <2>1. IsFiniteSet({t.index : t \in ToSet(ch.tools)}) /\ {t.index : t \in ToSet(ch.tools)} \subseteq Indexes
    BY <1>1, FiniteIndexes
  <2>2. IsFiniteSet(now)
    BY <2>1, FS_Union
  <2> QED
    BY <1>1, <2>1, <2>2
<1>5. seen.toolIndexes = now /\ seen.lastFinish = st.lastFinish
  BY DEF OAState
<1>6. c \in Seq(K1Event) /\ Adds(c, <<>>, <<>>)
  <2>1. <<>> \in Seq(K1Event) /\ Adds(<<>>, <<>>, <<>>)
    BY AddsEmpty
  <2>2. OAEndEvents(now) \in Seq(K1Event) /\ Adds(OAEndEvents(now), <<>>, <<>>)
    BY <1>4, EndsAdd
  <2> HIDE DEF now
  <2> QED
    BY <1>5, <2>1, <2>2
<1>7. next.evs = ((<<>> \o a) \o b) \o c
  <2>1. acc.evs = <<>> /\ acc.st = st
    OBVIOUS
  <2> HIDE DEF acc
  <2>2. OAChoice(acc, ch).evs =
          ((acc.evs \o a) \o b) \o
            (IF OAEndsCalls([acc.st EXCEPT !.toolIndexes =
                               acc.st.toolIndexes \cup {t.index : t \in ToSet(ch.tools)}], ch)
             THEN OAEndEvents([acc.st EXCEPT !.toolIndexes =
                    acc.st.toolIndexes \cup {t.index : t \in ToSet(ch.tools)}].toolIndexes)
             ELSE <<>>)
    BY DEF OAChoice, TextPart, ToolPart, ToolSeqs
  <2> HIDE DEF next, a, b
  <2> QED
    BY <2>1, <2>2, Zenon DEF next
<1>8. next.st.lastFinish = IF ch.finish = NoFinish THEN st.lastFinish ELSE OAMapFinishReason(ch.finish)
  BY <1>5, Zenon DEF OAChoice
<1> HIDE DEF a, b, c, next, now, seen
<1>9. next.evs = (a \o b) \o c /\ a \o b \in Seq(K1Event) /\ next.evs \in Seq(K1Event)
  <2>1. <<>> \o a = a
    BY <1>2
  <2> QED
    BY <1>2, <1>3, <1>6, <1>7, <2>1
<1>10. /\ <<ch>> \o <<>> = <<ch>> /\ <<>> \o ch.tools = ch.tools /\ ch.tools \o <<>> = ch.tools
       /\ <<ch>> \in Seq(OAWireChoice) /\ <<>> \in Seq(OAWireChoice) /\ <<>> \in Seq(ToolDelta)
  BY <1>1
<1>11. Adds(a \o b, <<ch>> \o <<>>, <<>> \o ch.tools)
  BY <1>1, <1>2, <1>3, <1>10, AddsBoth
<1>12. Adds(a \o b, <<ch>>, ch.tools)
  BY <1>10, <1>11, Zenon
<1>13. Adds((a \o b) \o c, <<ch>> \o <<>>, ch.tools \o <<>>)
  BY <1>1, <1>6, <1>9, <1>10, <1>12, AddsBoth
<1>14. Adds(next.evs, <<ch>>, ch.tools)
  BY <1>9, <1>10, <1>13, Zenon
<1> QED
  BY <1>8, <1>9, <1>14 DEF next

\* What was told adds up to some choices.
AddsUp(evs, chs) == Adds(evs, chs, ToolsOf(chs))

LEMMA ToolsOfBoth ==
  ASSUME NEW s \in Seq(OAWireChoice), NEW t \in Seq(OAWireChoice)
  PROVE  ToolsOf(s) \in Seq(ToolDelta) /\ ToolsOf(s \o t) = ToolsOf(s) \o ToolsOf(t)
<1>1. Each(ToolsIn, s) \in Seq(Seq(ToolDelta)) /\ Each(ToolsIn, t) \in Seq(Seq(ToolDelta))
  BY AddsTypes, EachType
<1>2. EachOfBoth(ToolsIn, s, t)
  BY EachConcat
<1>3. FlattenBoth(Each(ToolsIn, s), Each(ToolsIn, t))
  BY <1>1, FlattenConcat
<1>4. ToolsOf(s) \in Seq(ToolDelta)
  BY <1>1, FlattenType DEF ToolsOf
<1>5. ToolsOf(s \o t) = ToolsOf(s) \o ToolsOf(t)
  BY <1>2, <1>3, Zenon DEF ToolsOf, EachOfBoth, FlattenBoth
<1> QED
  BY <1>4, <1>5

LEMMA ToolsOfFew ==
  /\ ToolsOf(<<>>) = <<>>
  /\ \A ch \in OAWireChoice : ToolsOf(<<ch>>) = ch.tools
<1>1. ToolsOf(<<>>) = <<>>
  <2>1. Each(ToolsIn, <<>>) = <<>>
    BY DEF Each
  <2> QED
    BY <2>1, FlattenEmpty, Zenon DEF ToolsOf
<1>2. ASSUME NEW ch \in OAWireChoice PROVE ToolsOf(<<ch>>) = ch.tools
  <2>1. Each(ToolsIn, <<ch>>) = <<ToolsIn[ch]>> /\ ToolsIn[ch] = ch.tools
    BY EachOne DEF ToolsIn
  <2>2. ch.tools \in Seq(ToolDelta) /\ <<>> \in Seq(Seq(ToolDelta)) /\ Append(<<>>, ch.tools) = <<ch.tools>>
    BY DEF OAWireChoice
  <2>3. FlattenLonger(<<>>, ch.tools)
    BY <2>2, FlattenAppend
  <2>4. <<>> \o ch.tools = ch.tools
    BY <2>2
  <2> QED
    BY <2>1, <2>2, <2>3, <2>4, FlattenEmpty, Zenon DEF ToolsOf, FlattenLonger
<1> QED
  BY <1>1, <1>2

LEMMA AddsUpBoth ==
  ASSUME NEW evs \in Seq(K1Event), NEW more \in Seq(K1Event),
         NEW chs \in Seq(OAWireChoice), NEW others \in Seq(OAWireChoice),
         AddsUp(evs, chs), AddsUp(more, others)
  PROVE  evs \o more \in Seq(K1Event) /\ AddsUp(evs \o more, chs \o others)
<1>1. /\ ToolsOf(chs) \in Seq(ToolDelta) /\ ToolsOf(others) \in Seq(ToolDelta)
      /\ ToolsOf(chs \o others) = ToolsOf(chs) \o ToolsOf(others)
  BY ToolsOfBoth
<1>2. Adds(evs, chs, ToolsOf(chs)) /\ Adds(more, others, ToolsOf(others))
  BY DEF AddsUp
<1>3. Adds(evs \o more, chs \o others, ToolsOf(chs) \o ToolsOf(others))
  BY <1>1, <1>2, AddsBoth
<1>4. evs \o more \in Seq(K1Event)
  OBVIOUS
<1> QED
  BY <1>1, <1>3, <1>4 DEF AddsUp

\* The choices of a chunk, in a reader with finitely many open calls.
LEMMA ChoicesAdd ==
  ASSUME NEW st \in OAState, IsFiniteSet(st.toolIndexes), NEW chunk \in OAChunk,
         Len(chunk.choices) <= 1
  PROVE  LET next == ChoicesOf(st, chunk) IN
         /\ next.evs \in Seq(K1Event) /\ AddsUp(next.evs, chunk.choices)
         /\ next.st.lastFinish = IF Finishes(chunk) THEN OAMapFinishReason(chunk.choices[1].finish)
                                 ELSE st.lastFinish
<1>1. chunk.choices \in Seq(OAWireChoice) /\ Len(chunk.choices) \in Nat
  BY DEF OAChunk
<1>2. CASE chunk.choices = <<>>
  <2>1. ChoicesOf(st, chunk).evs = <<>> /\ ChoicesOf(st, chunk).st = st
    BY <1>2, NoChoices
  <2>2. <<>> \in Seq(K1Event) /\ Adds(<<>>, <<>>, <<>>)
    BY AddsEmpty
  <2>3. ~Finishes(chunk)
    BY <1>2 DEF Finishes
  <2> QED
    BY <1>2, <2>1, <2>2, <2>3, ToolsOfFew, Zenon DEF AddsUp
<1>3. CASE chunk.choices # <<>>
  <2> DEFINE ch == chunk.choices[1]
             next == OAChoice([evs |-> <<>>, st |-> st], ch)
  <2>0. ch \in OAWireChoice
    BY <1>1, <1>3
  <2>1. ChoicesOf(st, chunk) = next
    BY <1>1, <1>3, AtMostOneChoice DEF ChoicesOf
  <2>2. chunk.choices = <<ch>>
    BY <1>1, <1>3
  <2>3. Finishes(chunk) <=> ch.finish # NoFinish
    BY <1>3 DEF Finishes
  <2> HIDE DEF ch
  <2>4. /\ next.evs \in Seq(K1Event) /\ Adds(next.evs, <<ch>>, ch.tools)
        /\ next.st.lastFinish = IF ch.finish = NoFinish THEN st.lastFinish
                                ELSE OAMapFinishReason(ch.finish)
    BY <2>0, ChoiceAdds
  <2> HIDE DEF next
  <2>5. AddsUp(next.evs, <<ch>>)
    BY <2>0, <2>4, ToolsOfFew, Zenon DEF AddsUp
  <2>6. next.st.lastFinish = IF Finishes(chunk) THEN OAMapFinishReason(ch.finish) ELSE st.lastFinish
    BY <2>3, <2>4, Zenon
  <2> QED
    BY <2>1, <2>2, <2>4, <2>5, <2>6, Zenon DEF ch
<1> QED
  BY <1>2, <1>3

\* What a chunk of an answer becomes, read after the chunks before it.
LEMMA ChunkAdds ==
  ASSUME NEW body \in Seq(OAChunk), CompleteAnswer(body), NEW p \in Nat, p + 1 \in DOMAIN body,
         NEW st \in OAState, NEW evs, Follows(body, p, evs, st)
  PROVE  LET next == ChoicesOf(st, body[p + 1]) IN
         /\ next.evs \in Seq(K1Event) /\ AddsUp(next.evs, body[p + 1].choices)
         /\ next.st.lastFinish = IF Finishes(body[p + 1])
                                 THEN OAMapFinishReason(body[p + 1].choices[1].finish)
                                 ELSE st.lastFinish
<1> DEFINE chunk == body[p + 1]
           next == ChoicesOf(st, chunk)
<1>1. chunk \in OAChunk /\ DOMAIN body = 1..Len(body) /\ Len(body) \in Nat
  OBVIOUS
<1>2. Len(chunk.choices) <= 1
  BY DEF CompleteAnswer
<1>3. CASE BeforeFinish(evs, st)
  <2>1. IsFiniteSet(st.toolIndexes)
    BY <1>3 DEF BeforeFinish
  <2> HIDE DEF chunk
  <2> QED
    BY <1>1, <1>2, <2>1, ChoicesAdd DEF chunk
<1>4. CASE \E k \in 1..p : Finishes(body[k])
  <2>1. PICK k \in 1..p : Finishes(body[k])
    BY <1>4
  <2>2. PICK f \in DOMAIN body : /\ \A j \in 1..(f - 1) : ~Finishes(body[j])
                                 /\ \A j \in (f + 1)..Len(body) : body[j].choices = <<>>
    BY DEF CompleteAnswer
  <2>3. f <= k
    BY <1>1, <2>1, <2>2
  <2>4. p + 1 \in (f + 1)..Len(body)
    BY <1>1, <2>3
  <2>5. chunk.choices = <<>>
    BY <2>2, <2>4
  <2>6. next.evs = <<>> /\ next.st = st
    BY <1>1, <2>5, NoChoices
  <2>7. <<>> \in Seq(K1Event) /\ AddsUp(<<>>, <<>>)
    BY AddsEmpty, ToolsOfFew, Zenon DEF AddsUp
  <2>8. ~Finishes(chunk)
    BY <2>5 DEF Finishes
  <2> HIDE DEF next, chunk
  <2> QED
    BY <2>5, <2>6, <2>7, <2>8, Zenon DEF next, chunk
<1> QED
  BY <1>3, <1>4 DEF Follows

\* What is told chunk by chunk adds up to the choices of all chunks.
LEMMA SumsAdd ==
  ASSUME NEW body \in Seq(OAChunk), NEW evs, evs[0] = <<>>,
         \A k \in 1..Len(body) :
           \E x \in Seq(K1Event) : evs[k] = evs[k - 1] \o x /\ AddsUp(x, body[k].choices)
  PROVE  AddsUp(evs[Len(body)], Deltas(body)) /\ Deltas(body) \in Seq(OAWireChoice)
<1> DEFINE n == Len(body)
           seqs == [k \in DOMAIN body |-> body[k].choices]
<1>1. n \in Nat /\ DOMAIN body = 1..n /\ \A k \in 1..n : body[k] \in OAChunk
  OBVIOUS
<1>2. \A k \in 1..n : body[k].choices \in Seq(OAWireChoice)
  BY <1>1 DEF OAChunk
<1>3. seqs \in Seq(Seq(OAWireChoice)) /\ Len(seqs) = n /\ \A k \in 1..n : seqs[k] = body[k].choices
  <2>1. seqs \in [1..n -> Seq(OAWireChoice)]
    BY <1>1, <1>2
  <2> QED
    BY <1>1, <2>1
<1>4. Deltas(body) = FlattenSeq(seqs)
  BY DEF Deltas
<1> HIDE DEF seqs, n
<1>5. PICK f \in [0..Len(seqs) -> Seq(OAWireChoice)] :
        /\ f[0] = <<>>
        /\ \A k \in 1..Len(seqs) : f[k] = f[k - 1] \o seqs[k]
        /\ FlattenSeq(seqs) = f[Len(seqs)]
  BY <1>3, Flattened
<1> DEFINE P == {k \in 0..n : evs[k] \in Seq(K1Event) /\ AddsUp(evs[k], f[k])}
<1>6. 0 \in P
  <2>1. <<>> \in Seq(K1Event) /\ AddsUp(<<>>, <<>>)
    BY AddsEmpty, ToolsOfFew, Zenon DEF AddsUp
  <2>2. 0 \in 0..n
    BY <1>1
  <2> QED
    BY <1>5, <2>1, <2>2, Zenon
<1>7. ASSUME NEW k \in 0..n, k # n, k \in P PROVE k + 1 \in P
  <2>1. k + 1 \in 1..n /\ k + 1 \in 0..n /\ (k + 1) - 1 = k
    BY <1>1, <1>7
  <2>2. PICK x \in Seq(K1Event) : evs[k + 1] = evs[k] \o x /\ AddsUp(x, body[k + 1].choices)
    BY <2>1 DEF n
  <2>3. f[k + 1] = f[k] \o body[k + 1].choices /\ f[k] \in Seq(OAWireChoice)
        /\ body[k + 1].choices \in Seq(OAWireChoice)
    BY <1>2, <1>3, <1>5, <2>1
  <2>4. evs[k] \in Seq(K1Event) /\ AddsUp(evs[k], f[k])
    BY <1>7
  <2>5. evs[k] \o x \in Seq(K1Event) /\ AddsUp(evs[k] \o x, f[k] \o body[k + 1].choices)
    BY <2>2, <2>3, <2>4, AddsUpBoth
  <2>6. evs[k + 1] \in Seq(K1Event) /\ AddsUp(evs[k + 1], f[k + 1])
    BY <2>2, <2>3, <2>5, Zenon
  <2> QED
    BY <2>1, <2>6
<1>8. \A k \in 0..n : k \in P
  <2> HIDE DEF P
  <2> QED
    BY <1>1, <1>6, <1>7, UpTo
<1>9. n \in P /\ f[n] \in Seq(OAWireChoice)
  <2>1. n \in 0..n
    BY <1>1
  <2> HIDE DEF P
  <2> QED
    BY <1>3, <1>5, <1>8, <2>1
<1> QED
  BY <1>3, <1>4, <1>5, <1>9 DEF n

\* A done after the last chunk adds nothing.
LEMMA DoneAdds ==
  ASSUME NEW evs \in Seq(K1Event), NEW chs \in Seq(OAWireChoice), AddsUp(evs, chs),
         NEW done \in K1Event, done.kind = "done"
  PROVE  AddsUp(Append(evs, done), chs)
<1> DEFINE s == <<done>>
<1>1. s \in Seq(K1Event) /\ DOMAIN s = {1} /\ s[1] = done /\ evs \o s = Append(evs, done)
  OBVIOUS
<1> HIDE DEF s
<1>2. \A k \in DOMAIN s : s[k].kind \notin {"text", "tool_args", "tool_start"}
  BY <1>1
<1>3. Adds(s, <<>>, <<>>)
  BY <1>1, <1>2, AddsNothing
<1>4. AddsUp(s, <<>>)
  BY <1>3, ToolsOfFew, Zenon DEF AddsUp
<1>5. <<>> \in Seq(OAWireChoice) /\ chs \o <<>> = chs
  OBVIOUS
<1>6. AddsUp(evs \o s, chs \o <<>>)
  BY <1>1, <1>4, <1>5, AddsUpBoth
<1> QED
  BY <1>1, <1>5, <1>6, Zenon

\* What a field of some deltas holds, empty values left out.
Fills(f, S, T, empty) == \A x \in S : x \in T <=> f[x] # empty

LEMMA FieldPicked ==
  ASSUME NEW S, NEW s \in Seq(S), NEW f, NEW empty, NEW T, Fills(f, S, T, empty)
  PROVE  NotEmpty(Each(f, s), empty) = Picked(f, s, T)
<1> DEFINE U == {f[x] : x \in S}
           e == Each(f, s)
           A == {x \in ToSet(e) : x # empty}
           B == {x \in U : x # empty}
<1>1. e \in Seq(U)
  BY EachRange
<1>2. Passes(f, S, T, B)
  BY DEF Passes, Fills
<1>3. \A x \in U : x \in ToSet(e) => (x \in A <=> x \in B)
  OBVIOUS
<1>4. Kept(e, B) = Each(f, Kept(s, T))
  <2> HIDE DEF B
  <2> QED
    BY <1>2, KeptEach
<1> HIDE DEF A, B, U, e
<1>5. Kept(e, A) = Kept(e, B)
  BY <1>1, <1>3, KeptRange
<1>6. NotEmpty(e, empty) = Kept(e, A)
  BY DEF NotEmpty, Where, A
<1> QED
  BY <1>4, <1>5, <1>6 DEF Picked, e

FinishIn == [ch \in OAWireChoice |-> ch.finish]
Finishing == {ch \in OAWireChoice : ch.finish # NoFinish}

LEMMA FinishOf ==
  ASSUME NEW chunk \in OAChunk, Len(chunk.choices) <= 1
  PROVE  Picked(FinishIn, chunk.choices, Finishing)
           = IF Finishes(chunk) THEN <<chunk.choices[1].finish>> ELSE <<>>
<1>1. chunk.choices \in Seq(OAWireChoice) /\ Len(chunk.choices) \in Nat
  BY DEF OAChunk
<1>2. CASE chunk.choices = <<>>
  <2>1. ~Finishes(chunk)
    BY <1>2 DEF Finishes
  <2> QED
    BY <1>2, <2>1, PickedEmpty, Zenon
<1>3. CASE chunk.choices # <<>>
  <2> DEFINE ch == chunk.choices[1]
  <2>1. ch \in OAWireChoice /\ chunk.choices = <<ch>>
    BY <1>1, <1>3
  <2>2. Finishes(chunk) <=> ch.finish # NoFinish
    BY <1>3 DEF Finishes
  <2> HIDE DEF ch
  <2>3. FinishIn[ch] = ch.finish /\ (ch \in Finishing <=> ch.finish # NoFinish)
    BY <2>1 DEF FinishIn, Finishing
  <2>4. PickedOnce(FinishIn, ch, Finishing)
    BY PickedOne
  <2>5. Picked(FinishIn, <<ch>>, Finishing) = IF Finishes(chunk) THEN <<ch.finish>> ELSE <<>>
    BY <2>2, <2>3, <2>4, Zenon DEF PickedOnce
  <2> QED
    BY <2>1, <2>5, Zenon DEF ch
<1> QED
  BY <1>2, <1>3

\* A reader that keeps the finish reason of each chunk with one has that of the
\* whole answer at the end.
LEMMA FinishAdds ==
  ASSUME NEW body \in Seq(OAChunk), CompleteAnswer(body), NEW v,
         \A k \in 1..Len(body) : v[k] = IF Finishes(body[k])
                                        THEN OAMapFinishReason(body[k].choices[1].finish)
                                        ELSE v[k - 1]
  PROVE  v[Len(body)] = OAMapFinishReason(ChatCompletion(body).finish)
<1> DEFINE n == Len(body)
           seqs == [k \in DOMAIN body |-> body[k].choices]
<1>1. n \in Nat /\ DOMAIN body = 1..n /\ \A k \in 1..n : body[k] \in OAChunk
  OBVIOUS
<1>2. \A k \in 1..n : body[k].choices \in Seq(OAWireChoice)
  <2>1. \A c \in OAChunk : c.choices \in Seq(OAWireChoice)
    BY DEF OAChunk
  <2> QED
    BY <1>1, <2>1, Zenon
<1>3. seqs \in Seq(Seq(OAWireChoice)) /\ Len(seqs) = n /\ \A k \in 1..n : seqs[k] = body[k].choices
  <2>1. seqs \in [1..n -> Seq(OAWireChoice)]
    BY <1>1, <1>2
  <2> QED
    BY <1>1, <2>1
<1>4. Deltas(body) = FlattenSeq(seqs)
  BY DEF Deltas
<1> HIDE DEF seqs
<1>5. PICK f \in [0..Len(seqs) -> Seq(OAWireChoice)] :
        /\ f[0] = <<>>
        /\ \A k \in 1..Len(seqs) : f[k] = f[k - 1] \o seqs[k]
        /\ FlattenSeq(seqs) = f[Len(seqs)]
  BY <1>3, Flattened
<1>6. PICK j \in DOMAIN body : /\ Finishes(body[j])
                               /\ \A k \in 1..(j - 1) : ~Finishes(body[k])
                               /\ \A k \in (j + 1)..n : body[k].choices = <<>>
  BY DEF CompleteAnswer
<1>7. \A k \in (j + 1)..n : ~Finishes(body[k])
  BY <1>6 DEF Finishes
<1>8. j \in 1..n /\ j \in 0..n /\ j - 1 \in 0..n /\ 0 \in 0..n /\ n \in 0..n /\ j - 1 \in Nat
      /\ 0 \in 0..(j - 1)
      /\ (\A k \in (0 + 1)..(j - 1) : k \in 1..n /\ k \in 1..(j - 1))
      /\ (\A k \in (j + 1)..n : k \in 1..n)
      /\ \A k \in 1..n : k \in 0..n /\ k - 1 \in 0..n
  BY <1>1
<1> DEFINE x == body[j].choices[1].finish
           w == [k \in 0..n |-> Picked(FinishIn, f[k], Finishing)]
<1> HIDE DEF n
<1>9. \A k \in 1..n : w[k] = w[k - 1] \o (IF Finishes(body[k]) THEN <<body[k].choices[1].finish>> ELSE <<>>)
  <2> SUFFICES ASSUME NEW k \in 1..n
               PROVE  w[k] = w[k - 1] \o (IF Finishes(body[k]) THEN <<body[k].choices[1].finish>> ELSE <<>>)
    OBVIOUS
  <2>1. w[k] = Picked(FinishIn, f[k], Finishing) /\ w[k - 1] = Picked(FinishIn, f[k - 1], Finishing)
    BY <1>8
  <2>2. /\ f[k] = f[k - 1] \o body[k].choices /\ f[k - 1] \in Seq(OAWireChoice)
        /\ body[k].choices \in Seq(OAWireChoice)
    BY <1>2, <1>3, <1>5, <1>8
  <2>3. PickedBoth(FinishIn, f[k - 1], body[k].choices, Finishing)
    BY <2>2, PickedConcat
  <2>4. Len(body[k].choices) <= 1 /\ body[k] \in OAChunk
    BY <1>1 DEF CompleteAnswer
  <2>5. Picked(FinishIn, body[k].choices, Finishing)
          = IF Finishes(body[k]) THEN <<body[k].choices[1].finish>> ELSE <<>>
    BY <2>4, FinishOf
  <2> HIDE DEF w
  <2> QED
    BY <2>1, <2>2, <2>3, <2>5, Zenon DEF PickedBoth
<1>10. \A k \in 0..n : w[k] \in Seq(OAWireFinish)
  <2>1. FinishIn \in [OAWireChoice -> OAWireFinish]
    BY DEF FinishIn, OAWireChoice
  <2>2. \A k \in 0..n : f[k] \in Seq(OAWireChoice)
    BY <1>3, <1>5
  <2>3. \A k \in 0..n : Picked(FinishIn, f[k], Finishing) \in Seq(OAWireFinish)
    BY <2>1, <2>2, PickedType
  <2> QED
    BY <2>3
<1>11. w[0] = <<>> /\ w[n] = Picked(FinishIn, Deltas(body), Finishing)
  <2>1. w[0] = Picked(FinishIn, f[0], Finishing) /\ w[n] = Picked(FinishIn, f[n], Finishing)
    BY <1>8
  <2>2. f[0] = <<>> /\ f[n] = Deltas(body)
    BY <1>3, <1>4, <1>5
  <2> HIDE DEF w
  <2> QED
    BY <2>1, <2>2, PickedEmpty, Zenon
<1> HIDE DEF w
<1>12. \A k \in 1..n : ~Finishes(body[k]) => w[k] = w[k - 1]
  <2>1. \A k \in 1..n : w[k - 1] \o <<>> = w[k - 1]
    BY <1>8, <1>10
  <2> QED
    BY <1>9, <2>1, Zenon
<1>13. w[j - 1] = w[0]
  <2>1. \A k \in (0 + 1)..(j - 1) : w[k] = w[k - 1]
    BY <1>6, <1>8, <1>12
  <2> QED
    BY <1>8, <2>1, Stays
<1>14. w[n] = w[j]
  <2>1. \A k \in (j + 1)..n : w[k] = w[k - 1]
    BY <1>7, <1>8, <1>12
  <2> QED
    BY <1>1, <1>8, <2>1, Stays
<1>15. v[n] = v[j] /\ v[j] = OAMapFinishReason(x)
  <2>1. \A k \in (j + 1)..n : v[k] = v[k - 1]
    BY <1>7, <1>8 DEF n
  <2>2. v[n] = v[j]
    BY <1>1, <1>8, <2>1, Stays
  <2>3. v[j] = OAMapFinishReason(x)
    BY <1>6, <1>8, Zenon DEF n
  <2> QED
    BY <2>2, <2>3
<1> HIDE DEF x
<1>16. Picked(FinishIn, Deltas(body), Finishing) = <<x>>
  <2>1. w[j] = w[j - 1] \o <<x>>
    BY <1>6, <1>8, <1>9, Zenon DEF x
  <2>2. <<>> \o <<x>> = <<x>>
    OBVIOUS
  <2> QED
    BY <1>11, <1>13, <1>14, <2>1, <2>2, Zenon
<1>17. ChatCompletion(body).finish = x
  <2> DEFINE d == Deltas(body)
             fs == [k \in DOMAIN d |-> d[k].finish]
  <2>1. d \in Seq(OAWireChoice)
    BY <1>3, <1>4, FlattenType
  <2>2. ChatCompletion(body).finish = LastOr(NotEmpty(fs, NoFinish), NoFinish)
    BY DEF ChatCompletion, FieldOf, Mapped
  <2> HIDE DEF d
  <2>3. fs = Each(FinishIn, d)
    <3>1. \A k \in DOMAIN d : d[k] \in OAWireChoice
      BY <2>1
    <3> QED
      BY <3>1 DEF Each, FinishIn
  <2>4. Fills(FinishIn, OAWireChoice, Finishing, NoFinish)
    BY Zenon DEF Finishing, FinishIn, Fills
  <2>5. NotEmpty(Each(FinishIn, d), NoFinish) = Picked(FinishIn, d, Finishing)
    BY <2>1, <2>4, FieldPicked
  <2>6. ChatCompletion(body).finish = LastOr(<<x>>, NoFinish)
    BY <1>16, <2>2, <2>3, <2>5, Zenon DEF d
  <2>7. LastOr(<<x>>, NoFinish) = x
    BY DEF LastOr, Last
  <2> QED
    BY <2>6, <2>7
<1> QED
  BY <1>15, <1>17 DEF n

CallIn == [t \in ToolDelta |-> t.call]
OnIndex(i) == {t \in ToolDelta : t.index = i}

LEMMA ToolDeltasAre ==
  ASSUME NEW body, Deltas(body) \in Seq(OAWireChoice)
  PROVE  ToolDeltas(body) = ToolsOf(Deltas(body)) /\ ToolDeltas(body) \in Seq(ToolDelta)
<1> DEFINE d == Deltas(body)
<1>1. d \in Seq(OAWireChoice)
  OBVIOUS
<1>2. ToolDeltas(body) = FlattenSeq([k \in DOMAIN d |-> d[k].tools])
  BY DEF ToolDeltas
<1> HIDE DEF d
<1>3. [k \in DOMAIN d |-> d[k].tools] = Each(ToolsIn, d)
  <2>1. \A k \in DOMAIN d : d[k] \in OAWireChoice
    BY <1>1
  <2> QED
    BY <2>1 DEF Each, ToolsIn
<1>4. ToolsOf(d) \in Seq(ToolDelta)
  BY <1>1, ToolsOfBoth
<1> QED
  BY <1>2, <1>3, <1>4 DEF ToolsOf, d

\* The deltas of calls in a chunk are those of its choices.
ToolsFromChoices(chunk) ==
  \A t : t \in ToSet(Tools(chunk)) <=> \E ch \in ToSet(chunk.choices) : t \in ToSet(ch.tools)

LEMMA ChunkTools ==
  ASSUME NEW chunk \in OAChunk, Len(chunk.choices) <= 1
  PROVE  ToolsFromChoices(chunk)
<1>1. chunk.choices \in Seq(OAWireChoice)
  BY DEF OAChunk
<1>2. CASE chunk.choices = <<>>
  <2>1. Tools(chunk) = <<>>
    BY <1>2 DEF Tools
  <2>2. ToSet(<<>>) = {}
    BY DEF ToSet
  <2> QED
    BY <1>2, <2>1, <2>2 DEF ToolsFromChoices
<1>3. CASE chunk.choices # <<>>
  <2> DEFINE ch == chunk.choices[1]
  <2>1. Tools(chunk) = ch.tools
    BY <1>3 DEF Tools
  <2>2. chunk.choices = <<ch>>
    BY <1>1, <1>3
  <2> HIDE DEF ch
  <2>3. ToSet(<<ch>>) = {ch}
    BY DEF ToSet
  <2> QED
    BY <2>1, <2>2, <2>3 DEF ToolsFromChoices
<1> QED
  BY <1>2, <1>3

\* Every index that is used is given its call.
LEMMA EveryIndexNamed ==
  ASSUME NEW body \in Seq(OAChunk), CompleteAnswer(body), Deltas(body) \in Seq(OAWireChoice)
  PROVE  \A t \in ToSet(ToolDeltas(body)) :
           \E u \in ToSet(ToolDeltas(body)) : u.index = t.index /\ u.call # NoCall
<1> DEFINE n == Len(body)
           all == ToSet(ToolDeltas(body))
           d == Deltas(body)
           seqs == [k \in DOMAIN body |-> body[k].choices]
<1>1. n \in Nat /\ DOMAIN body = 1..n /\ \A k \in 1..n : body[k] \in OAChunk
  OBVIOUS
<1>2. \A k \in 1..n : body[k].choices \in Seq(OAWireChoice) /\ Len(body[k].choices) <= 1
  <2>1. \A c \in OAChunk : c.choices \in Seq(OAWireChoice)
    BY DEF OAChunk
  <2>2. \A k \in 1..n : Len(body[k].choices) <= 1
    BY <1>1 DEF CompleteAnswer
  <2> QED
    BY <1>1, <2>1, <2>2, Zenon
<1>3. seqs \in Seq(Seq(OAWireChoice)) /\ DOMAIN seqs = 1..n /\ \A k \in 1..n : seqs[k] = body[k].choices
  <2>1. seqs \in [1..n -> Seq(OAWireChoice)]
    BY <1>1, <1>2
  <2> QED
    BY <1>1, <2>1
<1>4. d = FlattenSeq(seqs) /\ d \in Seq(OAWireChoice)
  BY DEF Deltas
<1> HIDE DEF seqs, n, d
<1>5. \A ch : ch \in ToSet(d) <=> \E k \in 1..n : ch \in ToSet(body[k].choices)
  <2>1. \A ch : ch \in ToSet(FlattenSeq(seqs)) <=> \E k \in DOMAIN seqs : ch \in ToSet(seqs[k])
    BY <1>3, FlatElements
  <2> QED
    BY <1>3, <1>4, <2>1
<1>6. \A t : t \in all <=> \E ch \in ToSet(d) : t \in ToSet(ch.tools)
  <2>1. Each(ToolsIn, d) \in Seq(Seq(ToolDelta))
    BY <1>4, AddsTypes, EachType
  <2>2. \A t : t \in ToSet(FlattenSeq(Each(ToolsIn, d)))
                 <=> \E k \in DOMAIN Each(ToolsIn, d) : t \in ToSet(Each(ToolsIn, d)[k])
    BY <2>1, FlatElements
  <2>3. ToolDeltas(body) = FlattenSeq(Each(ToolsIn, d))
    BY ToolDeltasAre DEF ToolsOf, d
  <2>4. DOMAIN Each(ToolsIn, d) = DOMAIN d /\ \A k \in DOMAIN d : Each(ToolsIn, d)[k] = d[k].tools
    <3>1. \A k \in DOMAIN d : d[k] \in OAWireChoice
      BY <1>4
    <3> QED
      BY <3>1 DEF Each, ToolsIn
  <2>5. ToSet(d) = {d[k] : k \in DOMAIN d}
    BY DEF ToSet
  <2> QED
    BY <2>2, <2>3, <2>4, <2>5
<1>7. \A k \in 1..n : ToolsFromChoices(body[k])
  BY <1>1, <1>2, ChunkTools
<1>8. \A t : t \in all <=> \E k \in 1..n : t \in ToSet(Tools(body[k]))
  BY <1>5, <1>6, <1>7 DEF ToolsFromChoices
<1> HIDE DEF all
<1> SUFFICES ASSUME NEW t \in all PROVE \E u \in all : u.index = t.index /\ u.call # NoCall
  BY DEF all
<1>9. PICK k \in 1..n : t \in ToSet(Tools(body[k]))
  BY <1>8
<1>10. PICK m \in DOMAIN Tools(body[k]) : t = Tools(body[k])[m]
  BY <1>9 DEF ToSet
<1>11. NamedBy(body, k, m)
  BY <1>1 DEF CompleteAnswer
<1>12. \/ \E j \in 1..(k - 1) : \E l \in DOMAIN Tools(body[j]) : Names(Tools(body[j])[l], t.index)
       \/ \E l \in 1..m : Names(Tools(body[k])[l], t.index)
  BY <1>10, <1>11, Zenon DEF NamedBy
<1>13. \E j \in 1..n : \E l \in DOMAIN Tools(body[j]) : Names(Tools(body[j])[l], t.index)
  <2>1. \A j \in 1..(k - 1) : j \in 1..n
    BY <1>1
  <2>2. \A l \in 1..m : l \in DOMAIN Tools(body[k])
    <3> DEFINE tools == Tools(body[k])
    <3>1. tools \in Seq(ToolDelta)
      BY <1>1, ToolsType
    <3>2. m \in DOMAIN tools
      BY <1>10
    <3> HIDE DEF tools
    <3>3. \A l \in 1..m : l \in DOMAIN tools
      BY <3>1, <3>2
    <3> QED
      BY <3>3 DEF tools
  <2> QED
    BY <1>12, <2>1, <2>2
<1>14. PICK j \in 1..n : \E l \in DOMAIN Tools(body[j]) : Names(Tools(body[j])[l], t.index)
  BY <1>13
<1>15. PICK l \in DOMAIN Tools(body[j]) : Names(Tools(body[j])[l], t.index)
  BY <1>14
<1>16. Tools(body[j])[l] \in ToSet(Tools(body[j]))
  BY DEF ToSet
<1> QED
  BY <1>8, <1>15, <1>16 DEF Names

LEMMA JoinedPicked ==
  ASSUME NEW evs \in Seq(K1Event), NEW T
  PROVE  Joined(evs, T) = Picked(TextOf, evs, T)
<1> DEFINE kept == Kept(evs, T)
<1>1. kept \in Seq(K1Event)
  BY KeptType
<1>2. Joined(evs, T) = [k \in DOMAIN kept |-> kept[k].text]
  BY DEF Joined, Mapped
<1>3. Picked(TextOf, evs, T) = Each(TextOf, kept)
  BY DEF Picked
<1> HIDE DEF kept
<1>4. \A k \in DOMAIN kept : kept[k] \in K1Event
  BY <1>1
<1>5. [k \in DOMAIN kept |-> kept[k].text] = Each(TextOf, kept)
  BY <1>4 DEF Each, TextOf
<1> QED
  BY <1>2, <1>3, <1>5

\* What adds up to the choices of an answer has its text,
LEMMA TextAgrees ==
  ASSUME NEW body, NEW evs \in Seq(K1Event), Deltas(body) \in Seq(OAWireChoice),
         AddsUp(evs, Deltas(body))
  PROVE  Joined(evs, TextEvents) = ChatCompletion(body).text
<1> DEFINE d == Deltas(body)
           ts == [k \in DOMAIN d |-> d[k].text]
<1>1. d \in Seq(OAWireChoice) /\ Adds(evs, d, ToolsOf(d))
  BY DEF AddsUp
<1>2. ChatCompletion(body).text = NotEmpty(ts, NoText)
  BY DEF ChatCompletion, FieldOf, Mapped
<1> HIDE DEF d
<1>3. ts = Each(SaidIn, d)
  <2>1. \A k \in DOMAIN d : d[k] \in OAWireChoice
    BY <1>1
  <2> QED
    BY <2>1 DEF Each, SaidIn
<1>4. Fills(SaidIn, OAWireChoice, Saying, NoText)
  BY DEF Saying, SaidIn, Fills
<1>5. NotEmpty(Each(SaidIn, d), NoText) = Picked(SaidIn, d, Saying)
  BY <1>1, <1>4, FieldPicked
<1>6. Joined(evs, TextEvents) = Picked(TextOf, evs, TextEvents)
  BY JoinedPicked
<1> QED
  BY <1>1, <1>2, <1>3, <1>5, <1>6, Zenon DEF Adds

\* the arguments of each of its calls, given the deltas on one index,
LEMMA ArgsOnIndex ==
  ASSUME NEW tools \in Seq(ToolDelta), NEW i
  PROVE  FieldOf(Where(tools, LAMBDA t : t.index = i), LAMBDA t : t.args, NoText)
           = Picked(ArgsIn, tools, ArgsOn(i))
<1> DEFINE A == {t \in ToSet(tools) : t.index = i}
           on == Where(tools, LAMBDA t : t.index = i)
           as == [k \in DOMAIN on |-> on[k].args]
           Given == {t \in ToolDelta : t.args # NoText}
<1>1. on = Kept(tools, A)
  BY DEF Where
<1>2. FieldOf(on, LAMBDA t : t.args, NoText) = NotEmpty(as, NoText)
  BY DEF FieldOf, Mapped
<1>3. \A t \in ToolDelta : t \in ToSet(tools) => (t \in A <=> t \in OnIndex(i))
  BY DEF OnIndex
<1>4. FieldOf(Where(tools, LAMBDA t : t.index = i), LAMBDA t : t.args, NoText) = NotEmpty(as, NoText)
  BY <1>2
<1> HIDE DEF A
<1>5. Kept(tools, A) = Kept(tools, OnIndex(i))
  BY <1>3, KeptRange
<1> HIDE DEF on
<1>6. on \in Seq(ToolDelta)
  BY <1>1, KeptType
<1>7. as = Each(ArgsIn, on)
  <2>1. \A k \in DOMAIN on : on[k] \in ToolDelta
    BY <1>6
  <2> QED
    BY <2>1 DEF Each, ArgsIn
<1>8. Fills(ArgsIn, ToolDelta, Given, NoText)
  BY DEF ArgsIn, Fills
<1> HIDE DEF Given, as
<1>9. NotEmpty(Each(ArgsIn, on), NoText) = Picked(ArgsIn, on, Given)
  BY <1>6, <1>8, FieldPicked
<1>10. Kept(Kept(tools, OnIndex(i)), Given) = Kept(tools, OnIndex(i) \cap Given)
  BY KeptTwice
<1>11. OnIndex(i) \cap Given = ArgsOn(i)
  BY DEF OnIndex, Given, ArgsOn
<1>12. Picked(ArgsIn, on, Given) = Picked(ArgsIn, tools, ArgsOn(i))
  BY <1>1, <1>5, <1>10, <1>11, Zenon DEF Picked
<1> QED
  BY <1>4, <1>7, <1>9, <1>12

\* its id and name,
LEMMA CallOnIndex ==
  ASSUME NEW tools \in Seq(ToolDelta), NEW t \in ToSet(tools), t.call # NoCall,
         \A u \in ToSet(tools) : u.index = t.index /\ u.call # NoCall => u.call = t.call
  PROVE  LastOr(FieldOf(Where(tools, LAMBDA u : u.index = t.index), LAMBDA u : u.call, NoCall), NoCall)
           = t.call
<1> DEFINE i == t.index
           A == {u \in ToSet(tools) : u.index = i}
           on == Kept(tools, A)
           cs == [k \in DOMAIN on |-> on[k].call]
           both == OnIndex(i) \cap Naming
           kept == Kept(tools, both)
<1>1. FieldOf(Where(tools, LAMBDA u : u.index = t.index), LAMBDA u : u.call, NoCall)
        = NotEmpty(cs, NoCall)
  BY DEF FieldOf, Mapped, Where
<1>2. \A u \in ToolDelta : u \in ToSet(tools) => (u \in A <=> u \in OnIndex(i))
  BY DEF OnIndex
<1>3. t \in ToolDelta /\ t \in both
  <2>1. t \in ToolDelta
    BY DEF ToSet
  <2> QED
    BY <2>1 DEF OnIndex, Naming
<1>4. \A u \in both : u.index = i /\ u.call # NoCall
  BY DEF OnIndex, Naming
<1> HIDE DEF A, i
<1>5. on = Kept(tools, OnIndex(i))
  BY <1>2, KeptRange
<1> HIDE DEF on
<1>6. on \in Seq(ToolDelta)
  BY <1>5, KeptType
<1>7. cs = Each(CallIn, on)
  <2>1. \A k \in DOMAIN on : on[k] \in ToolDelta
    BY <1>6
  <2> QED
    BY <2>1 DEF Each, CallIn
<1>8. Fills(CallIn, ToolDelta, Naming, NoCall)
  BY Zenon DEF CallIn, Fills, Naming
<1> HIDE DEF cs
<1>9. NotEmpty(Each(CallIn, on), NoCall) = Picked(CallIn, on, Naming)
  BY <1>6, <1>8, FieldPicked
<1>10. Kept(Kept(tools, OnIndex(i)), Naming) = kept
  BY KeptTwice
<1>11. NotEmpty(cs, NoCall) = Each(CallIn, kept)
  BY <1>5, <1>7, <1>9, <1>10, Zenon DEF Picked
<1>12. kept \in Seq(ToolDelta) /\ ToSet(kept) = {u \in ToSet(tools) : u \in both}
  BY KeptType, KeptElements
<1> HIDE DEF kept, both
<1>13. t \in ToSet(kept)
  BY <1>3, <1>12
<1>14. kept # <<>> /\ Len(kept) \in Nat \ {0} /\ DOMAIN kept = 1..Len(kept) /\ Len(kept) \in DOMAIN kept
  <2>1. PICK k \in DOMAIN kept : t = kept[k]
    BY <1>13 DEF ToSet
  <2> QED
    BY <1>12, <2>1
<1>15. kept[Len(kept)] \in ToSet(kept)
  BY <1>14 DEF ToSet
<1>16. kept[Len(kept)].call = t.call
  BY <1>4, <1>12, <1>15 DEF i
<1>17. Each(CallIn, kept) \in Seq({CallIn[x] : x \in ToolDelta}) /\ Len(Each(CallIn, kept)) = Len(kept)
       /\ Each(CallIn, kept)[Len(kept)] = CallIn[kept[Len(kept)]]
  <2>1. kept \in Seq(ToolDelta) /\ Len(kept) \in 1..Len(kept)
    BY <1>12, <1>14
  <2>2. Each(CallIn, kept) \in Seq({CallIn[x] : x \in ToolDelta}) /\ IsEach(Each(CallIn, kept), CallIn, kept)
    BY <2>1, EachRange
  <2> QED
    BY <2>1, <2>2, Zenon DEF IsEach
<1>18. CallIn[kept[Len(kept)]] = kept[Len(kept)].call
  BY <1>12, <1>14 DEF CallIn
<1> DEFINE e == Each(CallIn, kept)
<1> HIDE DEF e
<1>19. e # <<>> /\ Last(e) = e[Len(e)]
  BY <1>14, <1>17 DEF e, Last
<1>20. LastOr(e, NoCall) = t.call
  BY <1>16, <1>17, <1>18, <1>19, Zenon DEF LastOr, e
<1> QED
  BY <1>1, <1>11, <1>20, Zenon DEF e

\* a Start for each delta that has an id and name,
LEMMA StartsAgree ==
  ASSUME NEW evs \in Seq(K1Event), NEW tools \in Seq(ToolDelta),
         Kept(evs, StartEvents) = Picked(StartOf, tools, Naming)
  PROVE  StartsOf(evs) = {ToolStart(t.index, t.call) : t \in {u \in ToSet(tools) : u.call # NoCall}}
<1>1. ToSet(evs) \subseteq K1Event /\ ToSet(tools) \subseteq ToolDelta
  BY DEF ToSet
<1>2. StartsOf(evs) = {e \in ToSet(evs) : e \in StartEvents}
  BY <1>1 DEF StartsOf, StartEvents
<1>3. StartsOf(evs) = ToSet(Kept(evs, StartEvents))
  BY <1>2, KeptElements
<1> DEFINE kept == Kept(tools, Naming)
           named == {u \in ToSet(tools) : u.call # NoCall}
<1>4. ToSet(kept) = {u \in ToSet(tools) : u \in Naming}
  BY KeptElements
<1>5. {u \in ToSet(tools) : u \in Naming} = named
  BY <1>1, Zenon DEF Naming
<1>6. ToSet(Each(StartOf, kept)) = {StartOf[t] : t \in ToSet(kept)}
  BY EachElements
<1>7. \A t \in named : StartOf[t] = ToolStart(t.index, t.call)
  BY <1>1 DEF StartOf
<1> HIDE DEF named, kept
<1>8. {StartOf[t] : t \in named} = {ToolStart(t.index, t.call) : t \in named}
  BY <1>7
<1>9. StartsOf(evs) = {StartOf[t] : t \in named}
  BY <1>3, <1>4, <1>5, <1>6, Zenon DEF Picked, kept
<1> QED
  BY <1>8, <1>9 DEF named

\* and so all of its calls, those that Generate returns and those of other types.
LEMMA CallsAgree ==
  ASSUME NEW body \in Seq(OAChunk), CompleteAnswer(body), OneCallEach(body),
         NEW evs \in Seq(K1Event), Deltas(body) \in Seq(OAWireChoice), AddsUp(evs, Deltas(body))
  PROVE  {ToolCall(e.call, ArgsByIndex(evs, e.index)) : e \in StartsOf(evs)}
           = OAToolCalls(ChatCompletion(body)) \cup OtherCalls(ChatCompletion(body))
<1> DEFINE tools == ToolDeltas(body)
           all == ToSet(tools)
           named == {u \in all : u.call # NoCall}
           Args(i) == ArgsByIndex(evs, i)
           On(i) == Where(tools, LAMBDA t : t.index = i)
           Made(i) == CompletionCall(On(i))
           indexes == {t.index : t \in all}
<1>1. tools \in Seq(ToolDelta) /\ Adds(evs, Deltas(body), tools)
  BY ToolDeltasAre, Zenon DEF AddsUp
<1>2. all \subseteq ToolDelta
  BY <1>1 DEF ToSet
<1>3. StartsOf(evs) = {ToolStart(t.index, t.call) : t \in named}
  <2>1. Kept(evs, StartEvents) = Picked(StartOf, tools, Naming)
    BY <1>1 DEF Adds
  <2> HIDE DEF tools
  <2> QED
    BY <1>1, <2>1, StartsAgree
<1>4. OAToolCalls(ChatCompletion(body)) \cup OtherCalls(ChatCompletion(body))
        = {Made(i) : i \in indexes}
  <2> DEFINE c == ChatCompletion(body)
  <2>1. c.calls = [i \in indexes |-> Made(i)]
    BY DEF ChatCompletion
  <2> HIDE DEF Made, indexes, c
  <2>2. DOMAIN c.calls = indexes /\ \A i \in indexes : c.calls[i] = Made(i)
    BY <2>1
  <2>3. OAToolCalls(c) \cup OtherCalls(c) = {c.calls[i] : i \in DOMAIN c.calls}
    BY DEF OAToolCalls, OtherCalls
  <2>4. {c.calls[i] : i \in DOMAIN c.calls} = {Made(i) : i \in indexes}
    BY <2>2
  <2> QED
    BY <2>3, <2>4 DEF c
<1>5. \A t \in all : \E u \in named : u.index = t.index
  <2>1. \A t \in all : \E u \in all : u.index = t.index /\ u.call # NoCall
    BY EveryIndexNamed
  <2> QED
    BY <2>1
<1>6. \A t \in named : t \in all /\ t.call # NoCall
      /\ \A u \in all : u.index = t.index /\ u.call # NoCall => u.call = t.call
  BY Zenon DEF OneCallEach
<1>7. ASSUME NEW t \in named PROVE Made(t.index) = ToolCall(t.call, Args(t.index))
  <2> DEFINE i == t.index
  <2>1. LastOr(FieldOf(On(i), LAMBDA u : u.call, NoCall), NoCall) = t.call
    <3>1. t \in ToSet(tools) /\ t.call # NoCall
          /\ \A u \in ToSet(tools) : u.index = t.index /\ u.call # NoCall => u.call = t.call
      BY <1>6
    <3> HIDE DEF tools
    <3> QED
      BY <1>1, <3>1, CallOnIndex
  <2>2. FieldOf(On(i), LAMBDA u : u.args, NoText) = Picked(ArgsIn, tools, ArgsOn(i))
    <3> HIDE DEF tools, i
    <3> QED
      BY <1>1, ArgsOnIndex
  <2>3. Args(i) = Picked(TextOf, evs, ArgsEvents(i))
    <3> HIDE DEF i
    <3> QED
      BY JoinedPicked DEF ArgsByIndex
  <2>4. i \in Indexes
    BY <1>2 DEF ToolDelta
  <2>5. Picked(TextOf, evs, ArgsEvents(i)) = Picked(ArgsIn, tools, ArgsOn(i))
    BY <1>1, <2>4, Zenon DEF Adds, ArgsAdd
  <2>6. Made(i) = ToolCall(LastOr(FieldOf(On(i), LAMBDA u : u.call, NoCall), NoCall),
                           FieldOf(On(i), LAMBDA u : u.args, NoText))
    BY DEF CompletionCall
  <2> HIDE DEF Made, Args, On, i, tools
  <2>7. Made(i) = ToolCall(t.call, Args(i))
    BY <2>1, <2>2, <2>3, <2>5, <2>6, Zenon
  <2> QED
    BY <2>7 DEF i
<1>8. {Made(i) : i \in indexes} = {ToolCall(t.call, Args(t.index)) : t \in named}
  <2>1. \A i \in indexes : \E t \in named : t.index = i
    BY <1>5
  <2>2. \A t \in named : t.index \in indexes
    BY <1>6
  <2> HIDE DEF named, indexes, Made, Args
  <2>3. \A i \in indexes : \E t \in named : Made(i) = ToolCall(t.call, Args(t.index))
    BY <1>7, <2>1
  <2> QED
    BY <1>7, <2>2, <2>3
<1>9. {ToolCall(e.call, Args(e.index)) : e \in StartsOf(evs)}
        = {ToolCall(t.call, Args(t.index)) : t \in named}
  <2>1. \A t \in named : ToolStart(t.index, t.call).call = t.call /\ ToolStart(t.index, t.call).index = t.index
    BY DEF ToolStart, Blank
  <2> HIDE DEF named, Args
  <2> QED
    BY <1>3, <2>1
<1> QED
  BY <1>4, <1>8, <1>9



-----------------------------------------------------------------------------
(* What the events of a message add up to.                                 *)

\* The pieces of text and of arguments in a message, and the blocks of both.
DeltaText == [e \in AnthropicChunk |-> e.text]
TextDeltas == {e \in AnthropicChunk : e.type = "content_block_delta" /\ e.kind = "text"}
InputOn(i) ==
  {e \in AnthropicChunk : e.type = "content_block_delta" /\ e.kind = "input_json" /\ e.index = i}
TextStarts == {e \in AnthropicChunk : e.type = "content_block_start" /\ e.kind = "text"}
ToolStarts == {e \in AnthropicChunk : e.type = "content_block_start" /\ e.kind = "tool_use"}
StartTold == [e \in AnthropicChunk |-> ToolStart(e.index, e.call)]

\* What one element adds to what is picked of all.
PicksOf(f, x, T) == IF x \in T THEN <<f[x]>> ELSE <<>>

\* A sum that grows by what each element adds.
LEMMA PickedAlong ==
  ASSUME NEW S, NEW s \in Seq(S), NEW f, NEW T, NEW a, a[0] = <<>>,
         \A k \in 1..Len(s) : a[k] = a[k - 1] \o PicksOf(f, s[k], T)
  PROVE  a[Len(s)] = Picked(f, s, T)
<1> DEFINE n == Len(s)
           kept == KeptUpTo(s, T)
           U == {f[x] : x \in S}
           b == [k \in 0..n |-> Each(f, kept[k])]
<1>1. n \in Nat /\ \A k \in 1..n : s[k] \in S
  OBVIOUS
<1>2. /\ \A k \in 0..n : kept[k] \in Seq(S)
      /\ kept[0] = <<>>
      /\ \A k \in 1..n : kept[k] = IF s[k] \in T THEN Append(kept[k - 1], s[k]) ELSE kept[k - 1]
  <2>1. kept \in [0..n -> Seq(S \cap T)] /\ Goes(kept, s, T)
    BY KeptSteps
  <2>2. \A t \in Seq(S \cap T) : t \in Seq(S)
    OBVIOUS
  <2> HIDE DEF kept
  <2> QED
    BY <2>1, <2>2 DEF Goes
<1>3. Picked(f, s, T) = Each(f, kept[n])
  BY DEF Picked, Kept
<1> HIDE DEF n, kept
<1>4. b[0] = <<>>
  <2>1. Each(f, <<>>) = <<>>
    BY DEF Each
  <2>2. b[0] = Each(f, kept[0])
    BY <1>1
  <2> QED
    BY <1>2, <2>1, <2>2, Zenon
<1>5. ASSUME NEW k \in 1..n PROVE b[k] = b[k - 1] \o PicksOf(f, s[k], T)
  <2> DEFINE before == kept[k - 1]
             e == Each(f, before)
  <2>1. k \in 0..n /\ k - 1 \in 0..n
    BY <1>1
  <2>2. before \in Seq(S) /\ s[k] \in S /\ b[k - 1] = e /\ b[k] = Each(f, kept[k])
        /\ kept[k] = IF s[k] \in T THEN Append(before, s[k]) ELSE before
    BY <1>1, <1>2, <2>1
  <2> HIDE DEF before, b
  <2>3. e \in Seq(U) /\ EachLonger(f, before, s[k])
    BY <2>2, EachRange, EachAppend
  <2> HIDE DEF e, U
  <2>4. CASE s[k] \in T
    <3>1. b[k] = Append(e, f[s[k]])
      BY <2>2, <2>3, <2>4, Zenon DEF EachLonger, e
    <3>2. f[s[k]] \in U
      BY <2>2 DEF U
    <3>3. Append(e, f[s[k]]) = e \o <<f[s[k]]>>
      BY <2>3, <3>2
    <3> QED
      BY <2>2, <2>4, <3>1, <3>3, Zenon DEF PicksOf
  <2>5. CASE s[k] \notin T
    <3>1. e \o <<>> = e
      BY <2>3
    <3> QED
      BY <2>2, <2>5, <3>1, Zenon DEF PicksOf, e
  <2> QED
    BY <2>4, <2>5
<1>6. \A k \in 1..n : \E x : a[k] = a[k - 1] \o x /\ b[k] = b[k - 1] \o x
  <2>1. \A k \in 1..n : a[k] = a[k - 1] \o PicksOf(f, s[k], T)
    BY DEF n
  <2> HIDE DEF b
  <2> QED
    BY <1>5, <2>1
<1>7. a[n] = b[n]
  <2>1. a[0] = b[0]
    BY <1>4
  <2> HIDE DEF b
  <2> QED
    BY <1>1, <1>6, <2>1, SameSums, Zenon
<1>8. b[n] = Each(f, kept[n])
  BY <1>1
<1> QED
  BY <1>3, <1>7, <1>8 DEF n

\* An event adds a piece of text, a piece of arguments on its index, or a Start;
\* and all of them what the message has of each.
MsgAdds(evs, e) ==
  /\ Picked(TextOf, evs, TextEvents) = PicksOf(DeltaText, e, TextDeltas)
  /\ \A i \in Indexes : Picked(TextOf, evs, ArgsEvents(i)) = PicksOf(DeltaText, e, InputOn(i))
  /\ Kept(evs, StartEvents) = PicksOf(StartTold, e, ToolStarts)
MsgAddsUp(evs, body) ==
  /\ Picked(TextOf, evs, TextEvents) = Picked(DeltaText, body, TextDeltas)
  /\ \A i \in Indexes : Picked(TextOf, evs, ArgsEvents(i)) = Picked(DeltaText, body, InputOn(i))
  /\ Kept(evs, StartEvents) = Picked(StartTold, body, ToolStarts)

\* One event of the reader.
OneAdds(ev, e) ==
  /\ ev \in TextEvents <=> e \in TextDeltas
  /\ \A i \in Indexes : ev \in ArgsEvents(i) <=> e \in InputOn(i)
  /\ ev \in StartEvents <=> e \in ToolStarts
  /\ e \in ToolStarts => ev = StartTold[e]
  /\ (e \in TextDeltas \/ \E i \in Indexes : e \in InputOn(i)) => TextOf[ev] = DeltaText[e]

LEMMA OneEventAdds ==
  ASSUME NEW ev \in K1Event, NEW e, OneAdds(ev, e)
  PROVE  MsgAdds(<<ev>>, e)
<1>1. PickedOnce(TextOf, ev, TextEvents) /\ \A i : PickedOnce(TextOf, ev, ArgsEvents(i))
  BY PickedOne
<1>2. Kept(<<ev>>, StartEvents) = IF ev \in StartEvents THEN <<ev>> ELSE <<>>
  BY KeptOne
<1>3. Picked(TextOf, <<ev>>, TextEvents) = PicksOf(DeltaText, e, TextDeltas)
  BY <1>1, Zenon DEF OneAdds, PickedOnce, PicksOf
<1>4. \A i \in Indexes : Picked(TextOf, <<ev>>, ArgsEvents(i)) = PicksOf(DeltaText, e, InputOn(i))
  BY <1>1, Zenon DEF OneAdds, PickedOnce, PicksOf
<1>5. Kept(<<ev>>, StartEvents) = PicksOf(StartTold, e, ToolStarts)
  BY <1>2, Zenon DEF OneAdds, PicksOf
<1> QED
  BY <1>3, <1>4, <1>5 DEF MsgAdds

LEMMA EventAdds ==
  ASSUME NEW e \in AnthropicChunk, NEW st, AnthropicTranslate(st, e) \in Seq(K1Event)
  PROVE  MsgAdds(AnthropicTranslate(st, e), e)
<1> DEFINE new == AnthropicTranslate(st, e)
<1>1. ASSUME NEW ev, new = <<ev>> PROVE ev \in K1Event
  <2>1. 1 \in DOMAIN <<ev>> /\ <<ev>>[1] = ev
    OBVIOUS
  <2> QED
    BY <1>1, <2>1
<1>2. ASSUME NEW ev, new = <<ev>>, OneAdds(ev, e) PROVE MsgAdds(new, e)
  BY <1>1, <1>2, OneEventAdds
<1>3. ASSUME new = <<>>, e \notin TextDeltas, e \notin ToolStarts, \A i \in Indexes : e \notin InputOn(i)
      PROVE  MsgAdds(new, e)
  <2>1. Picked(TextOf, <<>>, TextEvents) = <<>> /\ \A i : Picked(TextOf, <<>>, ArgsEvents(i)) = <<>>
        /\ Kept(<<>>, StartEvents) = <<>>
    BY PickedEmpty, KeptEmpty
  <2> QED
    BY <1>3, <2>1, Zenon DEF MsgAdds, PicksOf
<1> SUFFICES MsgAdds(new, e)
  OBVIOUS
<1> HIDE DEF new
<1>4. CASE e.type = "content_block_start" /\ e.kind = "tool_use"
  <2> DEFINE ev == ToolStart(e.index, e.call)
  <2>1. new = <<ev>>
    BY <1>4, Zenon DEF AnthropicTranslate, new
  <2>2. OneAdds(ev, e)
    <3>1. ev \in K1Event /\ ev.kind = "tool_start" /\ StartTold[e] = ev /\ e \in ToolStarts
      BY <1>1, <1>4, <2>1 DEF ToolStart, Blank, StartTold, ToolStarts
    <3> QED
      BY <1>4, <3>1 DEF OneAdds, TextEvents, ArgsEvents, StartEvents, TextDeltas, InputOn
  <2> QED
    BY <1>2, <2>1, <2>2
<1>5. CASE e.type = "content_block_delta" /\ e.kind = "text"
  <2> DEFINE ev == TextDelta(e.text)
  <2>1. new = <<ev>>
    BY <1>5, Zenon DEF AnthropicTranslate, new
  <2>2. OneAdds(ev, e)
    <3>1. ev \in K1Event /\ ev.kind = "text" /\ ev.text = e.text /\ e \in TextDeltas
          /\ TextOf[ev] = e.text /\ DeltaText[e] = e.text
      BY <1>1, <1>5, <2>1 DEF TextDelta, Blank, TextOf, DeltaText, TextDeltas
    <3> QED
      BY <1>5, <3>1 DEF OneAdds, TextEvents, ArgsEvents, StartEvents, ToolStarts, InputOn
  <2> QED
    BY <1>2, <2>1, <2>2
<1>6. CASE e.type = "content_block_delta" /\ e.kind = "input_json"
  <2> DEFINE ev == ToolArgs(e.index, st.blockMeta[e.index], e.text)
  <2>1. new = <<ev>>
    BY <1>6, Zenon DEF AnthropicTranslate, new
  <2>2. OneAdds(ev, e)
    <3>1. ev \in K1Event /\ ev.kind = "tool_args" /\ ev.text = e.text /\ ev.index = e.index
          /\ TextOf[ev] = e.text /\ DeltaText[e] = e.text
      BY <1>1, <1>6, <2>1 DEF ToolArgs, Blank, TextOf, DeltaText
    <3> QED
      BY <1>6, <3>1 DEF OneAdds, TextEvents, ArgsEvents, StartEvents, ToolStarts, InputOn, TextDeltas
  <2> QED
    BY <1>2, <2>1, <2>2
<1>7. CASE e \notin TextDeltas /\ e \notin ToolStarts /\ \A i \in Indexes : e \notin InputOn(i)
  <2>1. ASSUME NEW ev \in K1Event, ev.kind \in {"thinking", "tool_end", "done"}, new = <<ev>>
        PROVE  MsgAdds(new, e)
    <3>1. OneAdds(ev, e)
      BY <1>7, <2>1 DEF OneAdds, TextEvents, ArgsEvents, StartEvents
    <3> QED
      BY <1>2, <2>1, <3>1
  <2>2. \/ new = <<>>
        \/ \E ev : new = <<ev>> /\ ev.kind \in {"thinking", "tool_end", "done"}
    <3>1. /\ ~(e.type = "content_block_start" /\ e.kind = "tool_use")
          /\ ~(e.type = "content_block_delta" /\ e.kind = "text")
          /\ ~(e.type = "content_block_delta" /\ e.kind = "input_json")
      <4>1. e.type = "content_block_delta" => e.index \in Indexes
        BY EventFields
      <4> QED
        BY <1>7, <4>1 DEF TextDeltas, ToolStarts, InputOn
    <3>2. /\ ThinkingDelta(e.text).kind = "thinking"
          /\ ToolEnd(e.index, st.blockMeta[e.index]).kind = "tool_end"
          /\ Done(st.usage, st.finish).kind = "done"
      BY DEF ThinkingDelta, ToolEnd, Done, Blank
    <3>3. \/ new = <<ThinkingDelta(e.text)>>
          \/ new = <<ToolEnd(e.index, st.blockMeta[e.index])>>
          \/ new = <<Done(st.usage, st.finish)>>
          \/ new = <<>>
      BY <3>1, Zenon DEF AnthropicTranslate, new
    <3> QED
      BY <3>2, <3>3
  <2> QED
    BY <1>1, <1>3, <1>7, <2>1, <2>2
<1>8. \/ e \notin TextDeltas /\ e \notin ToolStarts /\ \A i \in Indexes : e \notin InputOn(i)
      \/ e.type = "content_block_start" /\ e.kind = "tool_use"
      \/ e.type = "content_block_delta" /\ e.kind = "text"
      \/ e.type = "content_block_delta" /\ e.kind = "input_json"
  BY DEF TextDeltas, ToolStarts, InputOn
<1> QED
  BY <1>4, <1>5, <1>6, <1>7, <1>8

\* So the events of a whole message add up to its pieces.
LEMMA MessageAdds ==
  ASSUME NEW body \in Seq(AnthropicChunk), NEW evs, evs[0] = <<>>,
         \A k \in 1..Len(body) :
           /\ evs[k - 1] \in Seq(K1Event)
           /\ \E x \in Seq(K1Event) : evs[k] = evs[k - 1] \o x /\ MsgAdds(x, body[k])
  PROVE  MsgAddsUp(evs[Len(body)], body)
<1> DEFINE n == Len(body)
           text == [k \in 0..n |-> Picked(TextOf, evs[k], TextEvents)]
           args(i) == [k \in 0..n |-> Picked(TextOf, evs[k], ArgsEvents(i))]
           starts == [k \in 0..n |-> Kept(evs[k], StartEvents)]
<1>1. n \in Nat /\ 0 \in 0..n /\ n \in 0..n /\ \A k \in 1..n : k \in 0..n /\ k - 1 \in 0..n
  OBVIOUS
<1>2. text[0] = <<>> /\ starts[0] = <<>> /\ \A i : args(i)[0] = <<>>
  BY <1>1, PickedEmpty, KeptEmpty
<1>3. ASSUME NEW k \in 1..n
      PROVE  /\ text[k] = text[k - 1] \o PicksOf(DeltaText, body[k], TextDeltas)
             /\ \A i \in Indexes : args(i)[k] = args(i)[k - 1] \o PicksOf(DeltaText, body[k], InputOn(i))
             /\ starts[k] = starts[k - 1] \o PicksOf(StartTold, body[k], ToolStarts)
  <2>1. PICK x \in Seq(K1Event) : evs[k] = evs[k - 1] \o x /\ MsgAdds(x, body[k])
    BY <1>3
  <2>2. evs[k - 1] \in Seq(K1Event)
    BY <1>3
  <2> DEFINE before == evs[k - 1]
             after == evs[k]
  <2>3. /\ text[k] = Picked(TextOf, after, TextEvents) /\ text[k - 1] = Picked(TextOf, before, TextEvents)
        /\ \A i : /\ args(i)[k] = Picked(TextOf, after, ArgsEvents(i))
                  /\ args(i)[k - 1] = Picked(TextOf, before, ArgsEvents(i))
        /\ starts[k] = Kept(after, StartEvents) /\ starts[k - 1] = Kept(before, StartEvents)
    BY <1>1
  <2> HIDE DEF before, after, text, args, starts, n
  <2>4. before \in Seq(K1Event) /\ after = before \o x
    BY <2>1, <2>2 DEF before, after
  <2>5. /\ PickedBoth(TextOf, before, x, TextEvents) /\ KeptOfBoth(before, x, StartEvents)
        /\ \A i : PickedBoth(TextOf, before, x, ArgsEvents(i))
    BY <2>4, PickedConcat, KeptConcat
  <2>6. text[k] = text[k - 1] \o PicksOf(DeltaText, body[k], TextDeltas)
    BY <2>1, <2>3, <2>4, <2>5, Zenon DEF PickedBoth, MsgAdds
  <2>7. \A i \in Indexes : args(i)[k] = args(i)[k - 1] \o PicksOf(DeltaText, body[k], InputOn(i))
    BY <2>1, <2>3, <2>4, <2>5, Zenon DEF PickedBoth, MsgAdds
  <2>8. starts[k] = starts[k - 1] \o PicksOf(StartTold, body[k], ToolStarts)
    BY <2>1, <2>3, <2>4, <2>5, Zenon DEF KeptOfBoth, MsgAdds
  <2> QED
    BY <2>6, <2>7, <2>8
<1>4. /\ text[n] = Picked(TextOf, evs[n], TextEvents) /\ starts[n] = Kept(evs[n], StartEvents)
      /\ \A i : args(i)[n] = Picked(TextOf, evs[n], ArgsEvents(i))
  BY <1>1
<1> HIDE DEF text, args, starts
<1>5. text[n] = Picked(DeltaText, body, TextDeltas)
  <2>1. text[0] = <<>> /\ \A k \in 1..n : text[k] = text[k - 1] \o PicksOf(DeltaText, body[k], TextDeltas)
    BY <1>2, <1>3
  <2> QED
    BY <2>1, PickedAlong
<1>6. ASSUME NEW i \in Indexes PROVE args(i)[n] = Picked(DeltaText, body, InputOn(i))
  <2> DEFINE a == args(i)
             T == InputOn(i)
  <2>1. a[0] = <<>> /\ \A k \in 1..n : a[k] = a[k - 1] \o PicksOf(DeltaText, body[k], T)
    BY <1>2, <1>3
  <2> HIDE DEF a, T
  <2>2. a[n] = Picked(DeltaText, body, T)
    BY <2>1, PickedAlong
  <2> QED
    BY <2>2 DEF a, T
<1>7. starts[n] = Picked(StartTold, body, ToolStarts)
  <2>1. starts[0] = <<>> /\ \A k \in 1..n : starts[k] = starts[k - 1] \o PicksOf(StartTold, body[k], ToolStarts)
    BY <1>2, <1>3
  <2> QED
    BY <2>1, PickedAlong
<1> HIDE DEF n
<1> QED
  BY <1>4, <1>5, <1>6, <1>7, Zenon DEF MsgAddsUp, n

\* What Generate has in a block: the text of the deltas on it,
TextOn(i) ==
  {e \in AnthropicChunk : e.type = "content_block_delta" /\ e.kind = "text" /\ e.index = i}
Fitting(s, T) ==
  \A e \in AnthropicChunk :
    e \in T <=> /\ e.type = "content_block_delta"
                /\ e.index = s.index /\ e.kind = DeltaKind(s.kind)

LEMMA BlockFilled ==
  ASSUME NEW body \in Seq(AnthropicChunk), NEW s, NEW T, Fitting(s, T)
  PROVE  BlockOf(body, s).text = Picked(DeltaText, body, T)
<1> DEFINE A == {e \in ToSet(body) : /\ e.type = "content_block_delta"
                                     /\ e.index = s.index /\ e.kind = DeltaKind(s.kind)}
           on == Kept(body, T)
<1>1. BlockOf(body, s).text = [k \in DOMAIN Kept(body, A) |-> Kept(body, A)[k].text]
  BY DEF BlockOf, DeltasOf, Where, Mapped
<1>2. \A e \in AnthropicChunk : e \in ToSet(body) => (e \in A <=> e \in T)
  BY DEF Fitting
<1> HIDE DEF A
<1>3. Kept(body, A) = on
  BY <1>2, KeptRange
<1>4. on \in Seq(AnthropicChunk)
  BY KeptType
<1>5. Picked(DeltaText, body, T) = Each(DeltaText, on)
  BY DEF Picked
<1> HIDE DEF on
<1>6. \A k \in DOMAIN on : on[k] \in AnthropicChunk
  BY <1>4
<1>7. [k \in DOMAIN on |-> on[k].text] = Each(DeltaText, on)
  BY <1>6 DEF Each, DeltaText
<1> QED
  BY <1>1, <1>3, <1>5, <1>7

LEMMA TextFits ==
  ASSUME NEW s \in TextStarts
  PROVE  Fitting(s, TextOn(s.index))
  BY DEF TextStarts, Fitting, TextOn, DeltaKind

LEMMA InputFits ==
  ASSUME NEW s \in ToolStarts
  PROVE  Fitting(s, InputOn(s.index))
  BY DEF ToolStarts, Fitting, InputOn, DeltaKind

\* its blocks of text, and the calls it makes of the others.
BlockStarts == {e \in AnthropicChunk : e.type = "content_block_start"}
BlockIn(body) == [s \in AnthropicChunk |-> BlockOf(body, s)]
FilledIn(body) == [s \in AnthropicChunk |-> Picked(DeltaText, body, TextOn(s.index))]

LEMMA BlocksAre ==
  ASSUME NEW body \in Seq(AnthropicChunk)
  PROVE  BlocksOf(body) = Each(BlockIn(body), Kept(body, BlockStarts))
<1> DEFINE A == {e \in ToSet(body) : e.type = "content_block_start"}
           on == Kept(body, BlockStarts)
<1>1. BlocksOf(body) = [k \in DOMAIN Kept(body, A) |-> BlockOf(body, Kept(body, A)[k])]
  BY DEF BlocksOf, Where, Mapped
<1>2. \A e \in AnthropicChunk : e \in ToSet(body) => (e \in A <=> e \in BlockStarts)
  BY DEF BlockStarts
<1> HIDE DEF A
<1>3. Kept(body, A) = on
  BY <1>2, KeptRange
<1>4. on \in Seq(AnthropicChunk)
  BY KeptType
<1> HIDE DEF on
<1>5. \A k \in DOMAIN on : on[k] \in AnthropicChunk
  BY <1>4
<1>6. [k \in DOMAIN on |-> BlockOf(body, on[k])] = Each(BlockIn(body), on)
  BY <1>5 DEF Each, BlockIn
<1> QED
  BY <1>1, <1>3, <1>6 DEF on

LEMMA TextsOfBlocks ==
  ASSUME NEW body \in Seq(AnthropicChunk)
  PROVE  BlockTexts(Message(body)) = FlattenSeq(Each(FilledIn(body), Kept(body, TextStarts)))
<1> DEFINE starts == Kept(body, BlockStarts)
           F == BlockIn(body)
           U == {F[s] : s \in AnthropicChunk}
           content == Each(F, starts)
           A == {b \in ToSet(content) : b.kind = "text"}
           B == {b \in U : b.kind = "text"}
           texts == Kept(body, TextStarts)
           blocks == Each(F, texts)
<1>1. Message(body).content = content
  BY BlocksAre DEF Message
<1>2. TextBlocks(Message(body)) = Kept(content, A)
  BY <1>1 DEF TextBlocks, Where
<1>3. starts \in Seq(AnthropicChunk) /\ starts \in Seq(AnthropicChunk \cap BlockStarts)
      /\ texts \in Seq(AnthropicChunk) /\ texts \in Seq(AnthropicChunk \cap TextStarts)
  BY KeptType
<1>4. content \in Seq(U)
  <2> HIDE DEF F, starts
  <2> QED
    BY <1>3, EachRange
<1>5. \A s \in AnthropicChunk : F[s].kind = s.kind
  BY DEF BlockIn, BlockOf
<1>6. \A b \in U : b \in ToSet(content) => (b \in A <=> b \in B)
  BY DEF A, B
<1>7. Passes(F, AnthropicChunk \cap BlockStarts, TextStarts, B)
  <2> HIDE DEF F
  <2> QED
    BY <1>5 DEF Passes, TextStarts, BlockStarts
<1> HIDE DEF F, U, A, content, starts
<1>8. Kept(content, A) = Kept(content, B)
  BY <1>4, <1>6, KeptRange
<1> HIDE DEF B
<1>9. Kept(content, B) = Each(F, Kept(starts, TextStarts))
  BY <1>3, <1>7, KeptEach DEF content
<1>10. Kept(starts, TextStarts) = texts
  <2>1. Kept(starts, TextStarts) = Kept(body, BlockStarts \cap TextStarts)
    BY KeptTwice DEF starts
  <2>2. BlockStarts \cap TextStarts = TextStarts
    BY DEF BlockStarts, TextStarts
  <2> QED
    BY <2>1, <2>2
<1>11. TextBlocks(Message(body)) = blocks
  BY <1>2, <1>8, <1>9, <1>10
<1>12. BlockTexts(Message(body)) = FlattenSeq([k \in DOMAIN blocks |-> blocks[k].text])
  BY <1>11 DEF BlockTexts, Mapped
<1>13. [k \in DOMAIN blocks |-> blocks[k].text] = Each(FilledIn(body), texts)
  <2>1. DOMAIN blocks = DOMAIN texts /\ \A k \in DOMAIN texts : blocks[k] = F[texts[k]]
    BY DEF Each
  <2>2. \A k \in DOMAIN texts : texts[k] \in AnthropicChunk /\ texts[k] \in TextStarts
    BY <1>3
  <2> HIDE DEF blocks, texts
  <2>3. \A s \in TextStarts : BlockOf(body, s).text = Picked(DeltaText, body, TextOn(s.index))
    BY TextFits, BlockFilled
  <2>4. \A s \in AnthropicChunk : s \in TextStarts => F[s].text = FilledIn(body)[s]
    BY <2>3 DEF F, BlockIn, FilledIn
  <2>5. \A k \in DOMAIN texts : blocks[k].text = FilledIn(body)[texts[k]]
    BY <2>1, <2>2, <2>4
  <2> QED
    BY <2>1, <2>5 DEF Each
<1> QED
  BY <1>12, <1>13 DEF texts

LEMMA CallsOfBlocks ==
  ASSUME NEW body \in Seq(AnthropicChunk)
  PROVE  {ToolCall(b.call, b.text) : b \in {c \in ToSet(Message(body).content) : c.kind = "tool_use"}}
           = {ToolCall(s.call, Picked(DeltaText, body, InputOn(s.index))) :
                s \in {e \in ToSet(body) : e \in ToolStarts}}
<1> DEFINE F == BlockIn(body)
           starts == Kept(body, BlockStarts)
           all == {e \in ToSet(body) : e \in BlockStarts}
           tools == {e \in ToSet(body) : e \in ToolStarts}
           P(s) == Picked(DeltaText, body, InputOn(s.index))
<1>1. ToSet(Message(body).content) = {F[s] : s \in all}
  <2>1. ToSet(starts) = all
    BY KeptElements
  <2>2. ToSet(Each(F, starts)) = {F[s] : s \in ToSet(starts)}
    BY EachElements
  <2>3. Message(body).content = Each(F, starts)
    BY BlocksAre DEF Message
  <2> HIDE DEF F, starts, all
  <2> QED
    BY <2>1, <2>2, <2>3
<1>2. ToSet(body) \subseteq AnthropicChunk
  BY DEF ToSet
<1>3. \A s \in all : F[s].kind = s.kind /\ F[s].call = s.call
  BY <1>2 DEF BlockIn, BlockOf
<1>4. \A s \in tools : s \in all
  BY DEF ToolStarts, BlockStarts
<1>5. \A s \in all : s.kind = "tool_use" <=> s \in tools
  BY DEF ToolStarts, BlockStarts
<1>6. \A s \in tools : F[s].text = P(s)
  <2>1. \A s \in ToolStarts : BlockOf(body, s).text = P(s)
    BY InputFits, BlockFilled
  <2> QED
    BY <1>2, <2>1 DEF BlockIn
<1> DEFINE used == {c \in ToSet(Message(body).content) : c.kind = "tool_use"}
<1>7. used = {F[s] : s \in tools}
  <2> HIDE DEF F, all, tools
  <2> QED
    BY <1>1, <1>3, <1>4, <1>5
<1>8. \A s \in tools : F[s].call = s.call /\ F[s].text = P(s)
  BY <1>3, <1>4, <1>6
<1> HIDE DEF F, all, tools, used, P
<1>9. {ToolCall(b.call, b.text) : b \in used} = {ToolCall(s.call, P(s)) : s \in tools}
  <2>1. \A s \in tools : ToolCall(F[s].call, F[s].text) = ToolCall(s.call, P(s))
    BY <1>8
  <2>2. \A b \in used : \E s \in tools : ToolCall(b.call, b.text) = ToolCall(s.call, P(s))
    BY <1>7, <2>1
  <2>3. \A s \in tools : \E b \in used : ToolCall(b.call, b.text) = ToolCall(s.call, P(s))
    BY <1>7, <2>1
  <2> QED
    BY <2>2, <2>3
<1> QED
  BY <1>9 DEF used, tools, P

\* Blocks of text that come one after the other hold, joined, the deltas as sent.
UniqueStarts(t) ==
  \A j, k \in 1..Len(t) :
    t[j] \in TextStarts /\ t[k] \in TextStarts /\ j < k => t[j].index # t[k].index
InLastBlock(t, k) ==
  \E j \in 1..(k - 1) : /\ t[j] \in TextStarts /\ t[j].index = t[k].index
                        /\ \A l \in (j + 1)..(k - 1) : t[l] \notin TextStarts
Tidy(t) == UniqueStarts(t) /\ \A k \in 1..Len(t) : t[k] \in TextDeltas => InLastBlock(t, k)
Distinct(starts) == \A a, b \in 1..Len(starts) : starts[a].index = starts[b].index => a = b
Joins(t) ==
  FlattenSeq(Each(FilledIn(t), Kept(t, TextStarts))) = Picked(DeltaText, t, TextDeltas)

LEMMA TidyBefore ==
  ASSUME NEW t \in Seq(AnthropicChunk), NEW x \in AnthropicChunk, Tidy(Append(t, x))
  PROVE  Tidy(t)
<1> DEFINE u == Append(t, x)
<1>1. Len(u) = Len(t) + 1 /\ Len(t) \in Nat /\ \A k \in 1..Len(t) : k \in 1..Len(u) /\ u[k] = t[k]
  OBVIOUS
<1>2. UniqueStarts(t)
  <2>1. UniqueStarts(u)
    BY DEF Tidy
  <2> HIDE DEF u
  <2> QED
    BY <1>1, <2>1 DEF UniqueStarts
<1>3. ASSUME NEW k \in 1..Len(t), t[k] \in TextDeltas PROVE InLastBlock(t, k)
  <2>1. \A j \in 1..Len(u) : u[j] \in TextDeltas => InLastBlock(u, j)
    BY DEF Tidy
  <2> HIDE DEF u
  <2>2. InLastBlock(u, k)
    BY <1>1, <1>3, <2>1
  <2>3. PICK j \in 1..(k - 1) : /\ u[j] \in TextStarts /\ u[j].index = u[k].index
                                /\ \A l \in (j + 1)..(k - 1) : u[l] \notin TextStarts
    BY <2>2 DEF InLastBlock
  <2>4. j \in 1..Len(t) /\ \A l \in (j + 1)..(k - 1) : l \in 1..Len(t)
    BY <1>1
  <2>5. t[j] \in TextStarts /\ t[j].index = t[k].index /\ \A l \in (j + 1)..(k - 1) : t[l] \notin TextStarts
    BY <1>1, <2>3, <2>4
  <2> QED
    BY <2>5 DEF InLastBlock
<1> QED
  BY <1>2, <1>3 DEF Tidy

LEMMA FilledLonger ==
  ASSUME NEW t \in Seq(AnthropicChunk), NEW x \in AnthropicChunk, NEW s \in AnthropicChunk
  PROVE  FilledIn(Append(t, x))[s]
           = IF x \in TextOn(s.index) THEN Append(FilledIn(t)[s], DeltaText[x]) ELSE FilledIn(t)[s]
<1> DEFINE T == TextOn(s.index)
<1>1. FilledIn(Append(t, x))[s] = Picked(DeltaText, Append(t, x), T) /\ FilledIn(t)[s] = Picked(DeltaText, t, T)
  BY DEF FilledIn
<1> HIDE DEF T
<1>2. PickedLonger(DeltaText, t, x, T)
  BY PickedAppend
<1> QED
  BY <1>1, <1>2, Zenon DEF PickedLonger, T

DeltaTexts == {DeltaText[x] : x \in AnthropicChunk}

LEMMA FilledType ==
  ASSUME NEW t \in Seq(AnthropicChunk)
  PROVE  FilledIn(t) \in [AnthropicChunk -> Seq(DeltaTexts)]
<1>1. ASSUME NEW s \in AnthropicChunk PROVE Picked(DeltaText, t, TextOn(s.index)) \in Seq(DeltaTexts)
  <2> DEFINE on == Kept(t, TextOn(s.index))
  <2>1. on \in Seq(AnthropicChunk)
    BY KeptType
  <2>2. Each(DeltaText, on) \in Seq(DeltaTexts)
    BY <2>1, EachRange DEF DeltaTexts
  <2> QED
    BY <2>2 DEF Picked
<1> QED
  BY <1>1 DEF FilledIn

LEMMA SameEach ==
  ASSUME NEW f, NEW g, NEW s, \A k \in DOMAIN s : f[s[k]] = g[s[k]]
  PROVE  Each(f, s) = Each(g, s)
  BY DEF Each

LEMMA DeltaInBlock == \A x \in AnthropicChunk : \A i : x \in TextOn(i) <=> x \in TextDeltas /\ x.index = i
  BY DEF TextOn, TextDeltas

\* One more event starts a block of text, adds to the last one, or to none.
LEMMA TextStartJoins ==
  ASSUME NEW t \in Seq(AnthropicChunk), NEW x \in AnthropicChunk, Tidy(Append(t, x)),
         Distinct(Kept(t, TextStarts)), Joins(t), x \in TextStarts
  PROVE  Distinct(Kept(Append(t, x), TextStarts)) /\ Joins(Append(t, x))
<1> DEFINE u == Append(t, x)
           K == Kept(t, TextStarts)
           n == Len(t)
           U == DeltaTexts
           d == Picked(DeltaText, t, TextDeltas)
<1>1. n \in Nat /\ Len(u) = n + 1 /\ u[n + 1] = x /\ \A k \in 1..n : u[k] = t[k] /\ t[k] \in AnthropicChunk
  OBVIOUS
<1>0. u \in Seq(AnthropicChunk)
  OBVIOUS
<1>2. K \in Seq(AnthropicChunk) /\ ToSet(K) = {e \in ToSet(t) : e \in TextStarts}
      /\ Kept(u, TextStarts) = Append(K, x)
  <2>1. KeptLonger(t, x, TextStarts)
    BY KeptAppend
  <2> QED
    BY <2>1, KeptType, KeptElements, Zenon DEF KeptLonger
<1>3. x \notin TextDeltas
  BY DEF TextStarts, TextDeltas
<1>4. \A k \in 1..n : t[k] \in TextStarts => t[k].index # x.index
  <2>1. UniqueStarts(u)
    BY DEF Tidy
  <2> HIDE DEF u
  <2> QED
    BY <1>1, <2>1 DEF UniqueStarts
<1>5. \A k \in 1..n : t[k] \notin TextOn(x.index)
  <2> SUFFICES ASSUME NEW k \in 1..n, t[k] \in TextDeltas PROVE t[k].index # x.index
    BY <1>1, DeltaInBlock
  <2>1. InLastBlock(t, k)
    BY TidyBefore DEF Tidy
  <2>2. PICK j \in 1..(k - 1) : t[j] \in TextStarts /\ t[j].index = t[k].index
    BY <2>1 DEF InLastBlock
  <2> QED
    BY <1>1, <1>4, <2>2
<1>6. \A k \in 1..Len(K) : K[k] \in AnthropicChunk /\ K[k].index # x.index
  <2>1. \A e \in ToSet(t) : e \in TextStarts => e.index # x.index
    BY <1>4 DEF ToSet
  <2>2. \A e \in ToSet(K) : e.index # x.index
    BY <1>2, <2>1
  <2> HIDE DEF K
  <2> QED
    BY <1>2, <2>2 DEF ToSet
<1> DEFINE f == FilledIn(t)
           g == FilledIn(u)
<1>7. f \in [AnthropicChunk -> Seq(U)] /\ g \in [AnthropicChunk -> Seq(U)]
  BY <1>0, FilledType
<1>8. g[x] = <<>>
  <2> DEFINE T == TextOn(x.index)
  <2>1. g[x] = IF x \in T THEN Append(f[x], DeltaText[x]) ELSE f[x]
    BY FilledLonger
  <2>2. f[x] = Picked(DeltaText, t, T)
    BY DEF FilledIn
  <2>3. \A k \in DOMAIN t : t[k] \notin T
    BY <1>5
  <2>4. x \notin T
    BY <1>3, DeltaInBlock
  <2> HIDE DEF T, f, g, U
  <2>5. Kept(t, T) = <<>>
    BY <2>3, KeptNothing
  <2>6. Picked(DeltaText, t, T) = <<>>
    BY <2>5 DEF Picked, Each
  <2> QED
    BY <2>1, <2>2, <2>4, <2>6
<1>9. Each(g, K) = Each(f, K)
  <2>1. \A s \in AnthropicChunk : x \notin TextOn(s.index)
    BY <1>3, DeltaInBlock
  <2>2. \A s \in AnthropicChunk : g[s] = f[s]
    BY <2>1, FilledLonger, Zenon
  <2> HIDE DEF f, g, K
  <2> QED
    BY <1>2, <2>2, SameEach
<1>10. Picked(DeltaText, u, TextDeltas) = d
  <2>1. PickedLonger(DeltaText, t, x, TextDeltas)
    BY PickedAppend
  <2> QED
    BY <1>3, <2>1, Zenon DEF PickedLonger
<1>11. Distinct(Append(K, x))
  <2> DEFINE L == Append(K, x)
  <2>1. Len(K) \in Nat /\ Len(L) = Len(K) + 1 /\ L[Len(K) + 1] = x /\ \A k \in 1..Len(K) : L[k] = K[k]
    BY <1>2
  <2>2. Distinct(K)
    OBVIOUS
  <2> HIDE DEF K, L
  <2> QED
    BY <1>6, <2>1, <2>2 DEF Distinct, L
<1>12. FlattenSeq(Each(g, Append(K, x))) = FlattenSeq(Each(f, K))
  <2> DEFINE e == Each(f, K)
  <2> HIDE DEF K, f, g, U
  <2>1. EachLonger(g, K, x)
    BY <1>2, EachAppend
  <2>2. e \in Seq(Seq(U))
    BY <1>2, <1>7, EachType
  <2>3. Each(g, Append(K, x)) = Append(e, <<>>)
    BY <1>8, <1>9, <2>1, Zenon DEF EachLonger
  <2> HIDE DEF e
  <2>4. <<>> \in Seq(U)
    OBVIOUS
  <2>5. FlattenLonger(e, <<>>) /\ FlattenSeq(e) \in Seq(U)
    BY <2>2, <2>4, FlattenAppend, FlattenType
  <2>6. FlattenSeq(e) \o <<>> = FlattenSeq(e)
    BY <2>5
  <2> QED
    BY <2>3, <2>5, <2>6, Zenon DEF FlattenLonger, e
<1> QED
  BY <1>2, <1>10, <1>11, <1>12, Zenon DEF Joins

LEMMA TextDeltaJoins ==
  ASSUME NEW t \in Seq(AnthropicChunk), NEW x \in AnthropicChunk, Tidy(Append(t, x)),
         Distinct(Kept(t, TextStarts)), Joins(t), x \in TextDeltas
  PROVE  Distinct(Kept(Append(t, x), TextStarts)) /\ Joins(Append(t, x))
<1> DEFINE u == Append(t, x)
           K == Kept(t, TextStarts)
           n == Len(t)
           U == DeltaTexts
           d == Picked(DeltaText, t, TextDeltas)
           f == FilledIn(t)
           g == FilledIn(u)
<1>1. n \in Nat /\ Len(u) = n + 1 /\ u[n + 1] = x /\ \A k \in 1..n : u[k] = t[k] /\ t[k] \in AnthropicChunk
  OBVIOUS
<1>2. K \in Seq(AnthropicChunk) /\ Kept(u, TextStarts) = K
  <2>1. KeptLonger(t, x, TextStarts)
    BY KeptAppend
  <2>2. x \notin TextStarts
    BY DEF TextStarts, TextDeltas
  <2> QED
    BY <2>1, <2>2, KeptType, Zenon DEF KeptLonger
<1>3. K # <<>> /\ Last(K).index = x.index
  <2>1. \A k \in 1..Len(u) : u[k] \in TextDeltas => InLastBlock(u, k)
    BY DEF Tidy
  <2>2. InLastBlock(u, n + 1)
    <3> HIDE DEF u
    <3> QED
      BY <1>1, <2>1
  <2>3. PICK j \in 1..n : /\ u[j] \in TextStarts /\ u[j].index = u[n + 1].index
                          /\ \A l \in (j + 1)..n : u[l] \notin TextStarts
    BY <1>1, <2>2 DEF InLastBlock
  <2>4. j \in DOMAIN t /\ t[j] \in TextStarts /\ t[j].index = x.index
    BY <1>1, <2>3
  <2>5. \A l \in (j + 1)..n : t[l] \notin TextStarts
    <3>1. \A l \in (j + 1)..n : l \in 1..n
      BY <1>1
    <3> HIDE DEF u
    <3> QED
      BY <1>1, <2>3, <3>1
  <2>6. K # <<>> /\ Last(K) = t[j]
    BY <2>4, <2>5, LastKept
  <2> QED
    BY <2>4, <2>6
<1>4. Distinct(K)
  OBVIOUS
<1>0. u \in Seq(AnthropicChunk)
  OBVIOUS
<1>5. f \in [AnthropicChunk -> Seq(U)] /\ g \in [AnthropicChunk -> Seq(U)]
  BY <1>0, FilledType
<1>6. \A s \in AnthropicChunk : g[s] = IF s.index = x.index THEN Append(f[s], DeltaText[x]) ELSE f[s]
  <2>1. \A s \in AnthropicChunk : x \in TextOn(s.index) <=> s.index = x.index
    BY DeltaInBlock
  <2> QED
    BY <2>1, FilledLonger, Zenon
<1>7. PickedLonger(DeltaText, t, x, TextDeltas)
  BY PickedAppend
<1>8. DeltaText[x] \in U
  BY DEF DeltaTexts
<1> HIDE DEF f, g, U, u, K
<1> DEFINE m == Len(K) - 1
           K0 == SubSeq(K, 1, m)
           s == K[Len(K)]
<1>9. /\ m \in Nat /\ Len(K) = m + 1 /\ K0 \in Seq(AnthropicChunk) /\ s \in AnthropicChunk
      /\ K = Append(K0, s) /\ s.index = x.index
      /\ Len(K0) = m /\ \A k \in 1..m : K0[k] = K[k] /\ K[k] \in AnthropicChunk
  <2>1. Len(K) \in Nat \ {0} /\ Last(K) = s
    BY <1>2, <1>3 DEF Last
  <2>2. K0 \in Seq(AnthropicChunk) /\ s \in AnthropicChunk /\ K = Append(K0, s)
    BY <1>2, <2>1
  <2> QED
    BY <1>2, <1>3, <2>1, <2>2
<1>10. \A k \in 1..m : K0[k].index # x.index
  BY <1>4, <1>9 DEF Distinct
<1> HIDE DEF m, K0, s
<1>11. Each(g, K0) = Each(f, K0)
  <2>1. \A k \in DOMAIN K0 : g[K0[k]] = f[K0[k]]
    BY <1>6, <1>9, <1>10
  <2> QED
    BY <2>1, SameEach
<1> DEFINE e == Each(f, K0)
           y == DeltaText[x]
<1>12. e \in Seq(Seq(U)) /\ f[s] \in Seq(U) /\ y \in U
  BY <1>5, <1>8, <1>9, EachType
<1>13. g[s] = Append(f[s], y)
  BY <1>6, <1>9
<1>14. Each(f, K) = Append(e, f[s]) /\ Each(g, K) = Append(e, Append(f[s], y))
  <2>1. EachLonger(f, K0, s) /\ EachLonger(g, K0, s)
    BY <1>9, EachAppend
  <2> QED
    BY <1>9, <1>11, <1>13, <2>1, Zenon DEF EachLonger
<1> HIDE DEF e, y
<1>15. FlattenLonger(e, f[s]) /\ FlattenLonger(e, Append(f[s], y)) /\ FlattenSeq(e) \in Seq(U)
  <2>1. Append(f[s], y) \in Seq(U)
    BY <1>12
  <2> QED
    BY <1>12, <2>1, FlattenAppend, FlattenType
<1>16. FlattenSeq(e) \o Append(f[s], y) = Append(FlattenSeq(e) \o f[s], y)
  BY <1>12, <1>15
<1>17. FlattenSeq(Each(g, K)) = Append(FlattenSeq(Each(f, K)), y)
  BY <1>14, <1>15, <1>16, Zenon DEF FlattenLonger
<1>18. FlattenSeq(Each(f, K)) = d
  BY DEF Joins, f, K
<1>19. Picked(DeltaText, u, TextDeltas) = Append(d, y)
  BY <1>7, Zenon DEF PickedLonger, y, u
<1>20. Joins(u)
  BY <1>2, <1>17, <1>18, <1>19, Zenon DEF Joins, g
<1> QED
  BY <1>2, <1>4, <1>20 DEF u

LEMMA OtherJoins ==
  ASSUME NEW t \in Seq(AnthropicChunk), NEW x \in AnthropicChunk,
         Distinct(Kept(t, TextStarts)), Joins(t), x \notin TextStarts, x \notin TextDeltas
  PROVE  Distinct(Kept(Append(t, x), TextStarts)) /\ Joins(Append(t, x))
<1> DEFINE u == Append(t, x)
           K == Kept(t, TextStarts)
           f == FilledIn(t)
           g == FilledIn(u)
<1>1. K \in Seq(AnthropicChunk) /\ Kept(u, TextStarts) = K
  <2>1. KeptLonger(t, x, TextStarts)
    BY KeptAppend
  <2> QED
    BY <2>1, KeptType, Zenon DEF KeptLonger
<1>2. Each(g, K) = Each(f, K)
  <2>1. \A s \in AnthropicChunk : x \notin TextOn(s.index)
    BY DeltaInBlock
  <2>2. \A s \in AnthropicChunk : g[s] = f[s]
    BY <2>1, FilledLonger, Zenon
  <2> HIDE DEF f, g, K
  <2> QED
    BY <1>1, <2>2, SameEach
<1>3. Picked(DeltaText, u, TextDeltas) = Picked(DeltaText, t, TextDeltas)
  <2>1. PickedLonger(DeltaText, t, x, TextDeltas)
    BY PickedAppend
  <2> QED
    BY <2>1, Zenon DEF PickedLonger
<1> QED
  BY <1>1, <1>2, <1>3, Zenon DEF Joins

LEMMA TextsJoin ==
  ASSUME NEW body \in Seq(AnthropicChunk), Tidy(body)
  PROVE  Joins(body)
<1> DEFINE P == {t \in Seq(AnthropicChunk) : Tidy(t) => Distinct(Kept(t, TextStarts)) /\ Joins(t)}
<1>1. <<>> \in P
  <2>1. Kept(<<>>, TextStarts) = <<>> /\ Each(FilledIn(<<>>), <<>>) = <<>>
        /\ Picked(DeltaText, <<>>, TextDeltas) = <<>> /\ FlattenSeq(<<>>) = <<>>
    BY KeptEmpty, PickedEmpty, FlattenEmpty DEF Each
  <2>2. Distinct(<<>>)
    BY DEF Distinct
  <2>3. <<>> \in Seq(AnthropicChunk)
    OBVIOUS
  <2>4. Joins(<<>>)
    BY <2>1, Zenon DEF Joins
  <2> QED
    BY <2>1, <2>2, <2>3, <2>4, Zenon
<1>2. ASSUME NEW t \in Seq(AnthropicChunk), NEW x \in AnthropicChunk, t \in P PROVE Append(t, x) \in P
  <2> SUFFICES ASSUME Tidy(Append(t, x))
               PROVE  Distinct(Kept(Append(t, x), TextStarts)) /\ Joins(Append(t, x))
    BY <1>2
  <2>1. Distinct(Kept(t, TextStarts)) /\ Joins(t)
    BY <1>2, TidyBefore
  <2> QED
    BY <2>1, TextStartJoins, TextDeltaJoins, OtherJoins
<1>3. body \in P
  <2> HIDE DEF P
  <2> QED
    BY <1>1, <1>2, BuiltUp
<1> QED
  BY <1>3

\* Messages as servers stream them are tidy.
LEMMA MessageIsTidy ==
  ASSUME NEW body \in Seq(AnthropicChunk), CompleteMessage(body), BlockByBlock(body)
  PROVE  Tidy(body)
<1>1. DOMAIN body = 1..Len(body) /\ Len(body) \in Nat /\ \A k \in 1..Len(body) : body[k] \in AnthropicChunk
  OBVIOUS
<1>2. ASSUME NEW j \in 1..Len(body), NEW k \in 1..Len(body),
             body[j] \in TextStarts, body[k] \in TextStarts, j < k
      PROVE  body[j].index # body[k].index
  <2>1. InPlace(body, k)
    BY <1>1 DEF CompleteMessage
  <2>2. ~StartsBlock(body[j], body[k].index)
    BY <1>2, <2>1 DEF InPlace, TextStarts
  <2> QED
    BY <1>2, <2>2 DEF StartsBlock, TextStarts
<1>3. ASSUME NEW k \in 1..Len(body), body[k] \in TextDeltas PROVE InLastBlock(body, k)
  <2>1. PICK j \in 1..(k - 1) : /\ StartsBlock(body[j], body[k].index) /\ body[j].kind = "text"
                                /\ \A l \in (j + 1)..(k - 1) : body[l].type # "content_block_start"
    BY <1>1, <1>3 DEF BlockByBlock, TextDeltas
  <2>2. j \in 1..Len(body)
    BY <1>1
  <2>3. body[j] \in TextStarts /\ body[j].index = body[k].index
    BY <1>1, <2>1, <2>2 DEF StartsBlock, TextStarts
  <2>4. \A l \in (j + 1)..(k - 1) : body[l] \notin TextStarts
    BY <2>1 DEF TextStarts
  <2> QED
    BY <2>3, <2>4 DEF InLastBlock
<1> QED
  BY <1>2, <1>3 DEF Tidy, UniqueStarts

\* So a reader's events have the text and the calls of the message.
LEMMA MessageAgrees ==
  ASSUME NEW body \in Seq(AnthropicChunk), Tidy(body), NEW evs \in Seq(K1Event), MsgAddsUp(evs, body)
  PROVE  /\ Joined(evs, TextEvents) = AnthropicResponse(Message(body)).text
         /\ {ToolCall(e.call, ArgsByIndex(evs, e.index)) : e \in StartsOf(evs)}
              = AnthropicResponse(Message(body)).calls
<1> DEFINE m == Message(body)
           tools == {e \in ToSet(body) : e \in ToolStarts}
           P(s) == Picked(DeltaText, body, InputOn(s.index))
           Args(i) == ArgsByIndex(evs, i)
           calls == {ToolCall(b.call, b.text) : b \in {c \in ToSet(m.content) : c.kind = "tool_use"}}
<1>1. AnthropicResponse(m).text = BlockTexts(m) /\ AnthropicResponse(m).calls = calls
  BY DEF AnthropicResponse, Response
<1>2. Joined(evs, TextEvents) = BlockTexts(m)
  <2>1. Joined(evs, TextEvents) = Picked(TextOf, evs, TextEvents)
    BY JoinedPicked
  <2>2. BlockTexts(m) = FlattenSeq(Each(FilledIn(body), Kept(body, TextStarts)))
    BY TextsOfBlocks
  <2>3. Joins(body)
    BY TextsJoin
  <2> HIDE DEF m
  <2> QED
    BY <2>1, <2>2, <2>3, Zenon DEF Joins, MsgAddsUp
<1>3. calls = {ToolCall(s.call, P(s)) : s \in tools}
  BY CallsOfBlocks
<1>4. ToSet(body) \subseteq AnthropicChunk /\ ToSet(evs) \subseteq K1Event
  BY DEF ToSet
<1>5. StartsOf(evs) = {StartTold[s] : s \in tools}
  <2> DEFINE kept == Kept(body, ToolStarts)
  <2>1. StartsOf(evs) = {e \in ToSet(evs) : e \in StartEvents}
    BY <1>4 DEF StartsOf, StartEvents
  <2>2. StartsOf(evs) = ToSet(Kept(evs, StartEvents))
    BY <2>1, KeptElements
  <2>3. ToSet(kept) = tools
    BY KeptElements
  <2>4. ToSet(Each(StartTold, kept)) = {StartTold[s] : s \in ToSet(kept)}
    BY EachElements
  <2>5. Kept(evs, StartEvents) = Each(StartTold, kept)
    BY Zenon DEF MsgAddsUp, Picked
  <2> HIDE DEF kept, tools
  <2> QED
    BY <2>2, <2>3, <2>4, <2>5
<1>6. ASSUME NEW s \in tools
      PROVE  StartTold[s].call = s.call /\ StartTold[s].index = s.index /\ Args(s.index) = P(s)
  <2>1. s \in AnthropicChunk /\ s \in ToolStarts
    BY <1>4
  <2>2. StartTold[s] = ToolStart(s.index, s.call)
    BY <2>1 DEF StartTold
  <2>3. s.index \in Indexes
    BY <2>1, EventFields DEF ToolStarts
  <2>4. StartTold[s].call = s.call /\ StartTold[s].index = s.index
    BY <2>2 DEF ToolStart, Blank
  <2>5. Args(s.index) = Picked(TextOf, evs, ArgsEvents(s.index))
    BY JoinedPicked DEF ArgsByIndex
  <2> QED
    BY <2>3, <2>4, <2>5, Zenon DEF MsgAddsUp
<1> HIDE DEF tools, P, Args, calls
<1>7. {ToolCall(e.call, Args(e.index)) : e \in StartsOf(evs)} = {ToolCall(s.call, P(s)) : s \in tools}
  <2>1. \A s \in tools : ToolCall(StartTold[s].call, Args(StartTold[s].index)) = ToolCall(s.call, P(s))
    BY <1>6
  <2>2. \A e \in StartsOf(evs) : \E s \in tools : ToolCall(e.call, Args(e.index)) = ToolCall(s.call, P(s))
    BY <1>5, <2>1
  <2>3. \A s \in tools : \E e \in StartsOf(evs) : ToolCall(e.call, Args(e.index)) = ToolCall(s.call, P(s))
    BY <1>5, <2>1
  <2> QED
    BY <2>2, <2>3
<1> QED
  BY <1>1, <1>2, <1>3, <1>7 DEF Args

\* What the reader's fields hold of the end of a message.
LEMMA EndStays ==
  ASSUME NEW st \in AnthropicState, NEW e \in AnthropicChunk
  PROVE  /\ e.type \notin {"message_start", "message_delta"} =>
              AnthropicAfter(st, e).finish = st.finish /\ AnthropicAfter(st, e).usage = st.usage
         /\ e.type = "message_delta" =>
              /\ AnthropicAfter(st, e).finish = MapAnthropicStopReason(e.stop)
              /\ AnthropicAfter(st, e).usage = Reported(e.in, e.out, e.in + e.out)
<1>1. CASE e.type = "message_delta"
  <2>1. AnthropicAfter(st, e) = [st EXCEPT !.finish = MapAnthropicStopReason(e.stop),
                                           !.usage = Reported(e.in, e.out, e.in + e.out)]
    BY <1>1, Zenon DEF AnthropicAfter
  <2> QED
    BY <1>1, <2>1 DEF AnthropicState
<1>2. CASE e.type = "content_block_start" /\ e.kind = "tool_use"
  <2>1. AnthropicAfter(st, e) = [st EXCEPT !.blockKinds[e.index] = "tool_use",
                                           !.blockMeta[e.index] = e.call]
    BY <1>2 DEF AnthropicAfter
  <2> QED
    BY <1>2, <2>1 DEF AnthropicState
<1>3. CASE e.type = "content_block_start" /\ e.kind \in {"text", "thinking"}
  <2>1. AnthropicAfter(st, e) = [st EXCEPT !.blockKinds[e.index] = e.kind]
    BY <1>3 DEF AnthropicAfter
  <2> QED
    BY <1>3, <2>1 DEF AnthropicState
<1>4. CASE /\ e.type \notin {"message_start", "message_delta"}
           /\ ~(e.type = "content_block_start" /\ e.kind \in {"tool_use", "text", "thinking"})
  <2>1. AnthropicAfter(st, e) = st
    BY <1>4 DEF AnthropicAfter
  <2> QED
    BY <1>4, <2>1
<1>5. CASE e.type = "message_start"
  BY <1>5
<1> QED
  BY <1>1, <1>2, <1>3, <1>4, <1>5

\* The last message_delta of a message says how it ended.
LEMMA MessageEndKnown ==
  ASSUME NEW body \in Seq(AnthropicChunk), CompleteMessage(body), BlockByBlock(body),
         NEW n, n = Len(body), n # 0, body[n].type = "message_stop",
         NEW st, \A k \in 0..n : st[k] \in AnthropicState,
         \A k \in 1..n : st[k] = AnthropicAfter(st[k - 1], body[k])
  PROVE  /\ st[n - 1].finish = AnthropicResponse(Message(body)).finish
         /\ st[n - 1].usage = Reported(LastDelta(body).in, LastDelta(body).out,
                                       LastDelta(body).in + LastDelta(body).out)
<1> DEFINE m == n - 1
           D == {k \in 1..n : body[k].type = "message_delta"}
           T == {x \in ToSet(body) : x.type = "message_delta"}
           finish == [k \in 0..m |-> st[k].finish]
           usage == [k \in 0..m |-> st[k].usage]
<1>1. /\ n \in Nat /\ m \in Nat /\ DOMAIN body = 1..n /\ n \in 1..n /\ m \in 0..n /\ n = m + 1
      /\ \A k \in 1..n : body[k] \in AnthropicChunk
  OBVIOUS
<1>2. \E k \in 1..m : k \in D
  <2>1. InPlace(body, n)
    BY <1>1 DEF CompleteMessage
  <2>2. \E k \in 1..m : body[k].type = "message_delta"
    BY <2>1 DEF InPlace
  <2> QED
    BY <1>1, <2>2
<1>3. PICK j \in 1..m : j \in D /\ \A k \in (j + 1)..m : k \notin D
  <2> DEFINE before == {k \in 1..m : k \in D}
  <2>1. before \in SUBSET (1..m) /\ before # {} /\ m \in Nat
    BY <1>1, <1>2
  <2> HIDE DEF D, m
  <2>2. PICK j \in before : \A k \in before : j >= k
    <3> HIDE DEF before
    <3> QED
      BY <2>1, LastPlace
  <2>3. j \in 1..m /\ j \in D
    OBVIOUS
  <2>4. \A k \in (j + 1)..m : k \in 1..m /\ ~(j >= k)
    BY <2>1, <2>3
  <2>5. \A k \in (j + 1)..m : k \notin D
    BY <2>2, <2>4
  <2> QED
    BY <2>3, <2>5
<1>4. j \in 1..n /\ j \in 0..n /\ j \in 0..m /\ body[j] \in AnthropicChunk /\ body[j].type = "message_delta"
      /\ j - 1 \in 0..n /\ j \in Nat
  BY <1>1, <1>3
<1>5. ASSUME NEW k \in (j + 1)..m
      PROVE  k \in 1..n /\ k - 1 \in 0..n /\ k \in 0..m /\ k - 1 \in 0..m
             /\ body[k].type \notin {"message_start", "message_delta"}
  <2>1. k \in 1..n /\ k - 1 \in 0..n /\ k # 1 /\ k \in 0..m /\ k - 1 \in 0..m
    BY <1>1, <1>4
  <2>2. body[k].type # "message_delta"
    BY <1>3, <2>1
  <2>3. body[k].type # "message_start"
    BY <1>1, <2>1 DEF BlockByBlock
  <2> QED
    BY <2>1, <2>2, <2>3
<1>6. LastDelta(body) = body[j]
  <2>1. body[j] \in T
    BY <1>1, <1>4 DEF ToSet
  <2>2. \A k \in (j + 1)..n : body[k].type # "message_delta"
    <3>1. \A k \in (j + 1)..n : k \in (j + 1)..m \/ k = n
      BY <1>1, <1>4
    <3> QED
      BY <1>5, <3>1
  <2>3. \A k \in (j + 1)..Len(body) : body[k] \notin T
    BY <2>2
  <2>4. LastDelta(body) = Last(Kept(body, T))
    BY DEF LastDelta, Where
  <2>5. j \in DOMAIN body
    BY <1>1, <1>4
  <2> HIDE DEF T
  <2> QED
    BY <2>1, <2>3, <2>4, <2>5, LastKept
<1>7. \A k \in (j + 1)..m : finish[k] = finish[k - 1] /\ usage[k] = usage[k - 1]
  <2> SUFFICES ASSUME NEW k \in (j + 1)..m
               PROVE  finish[k] = finish[k - 1] /\ usage[k] = usage[k - 1]
    OBVIOUS
  <2>1. st[k] = AnthropicAfter(st[k - 1], body[k]) /\ st[k - 1] \in AnthropicState
        /\ body[k] \in AnthropicChunk
    BY <1>1, <1>5
  <2>2. st[k].finish = st[k - 1].finish /\ st[k].usage = st[k - 1].usage
    <3> DEFINE before == st[k - 1]
               e == body[k]
    <3>1. before \in AnthropicState /\ e \in AnthropicChunk /\ e.type \notin {"message_start", "message_delta"}
          /\ st[k] = AnthropicAfter(before, e)
      BY <1>5, <2>1
    <3> HIDE DEF before, e
    <3>2. AnthropicAfter(before, e).finish = before.finish /\ AnthropicAfter(before, e).usage = before.usage
      BY <3>1, EndStays, Zenon
    <3> QED
      BY <3>1, <3>2, Zenon DEF before
  <2>3. \A l \in 0..m : finish[l] = st[l].finish /\ usage[l] = st[l].usage
    OBVIOUS
  <2> HIDE DEF finish, usage
  <2> QED
    BY <1>5, <2>2, <2>3, Zenon
<1>8. finish[m] = finish[j] /\ usage[m] = usage[j]
  <2> HIDE DEF finish, usage, m
  <2>1. finish[m] = finish[j]
    BY <1>1, <1>4, <1>7, Stays
  <2>2. usage[m] = usage[j]
    BY <1>1, <1>4, <1>7, Stays
  <2> QED
    BY <2>1, <2>2
<1>9. st[j].finish = MapAnthropicStopReason(body[j].stop)
      /\ st[j].usage = Reported(body[j].in, body[j].out, body[j].in + body[j].out)
  <2>1. st[j] = AnthropicAfter(st[j - 1], body[j]) /\ st[j - 1] \in AnthropicState
    BY <1>4
  <2> QED
    BY <1>4, <2>1, EndStays
<1>10. finish[m] = st[m].finish /\ finish[j] = st[j].finish /\ usage[m] = st[m].usage
       /\ usage[j] = st[j].usage
  BY <1>1, <1>4
<1>11. AnthropicResponse(Message(body)).finish = MapAnthropicStopReason(LastDelta(body).stop)
  BY DEF AnthropicResponse, Response, Message
<1> HIDE DEF finish, usage
<1> QED
  BY <1>6, <1>8, <1>9, <1>10, <1>11, Zenon

-----------------------------------------------------------------------------
(* Whole answers, read chunk by chunk.                                     *)

\* A chunk that reports usage is the last of its answer, so that it is the
\* usage of the whole.
LEMMA UsageKnown ==
  ASSUME NEW body \in Seq(OAChunk), CompleteAnswer(body), NEW k \in DOMAIN body,
         body[k].usage # NoUsage
  PROVE  ChatCompletion(body).usage = body[k].usage
<1> DEFINE us == [j \in DOMAIN body |-> body[j].usage]
           U == {c.usage : c \in OAChunk}
           T == {u \in ToSet(us) : u # NoUsage}
<1>1. k = Len(body)
  BY Zenon DEF CompleteAnswer
<1>2. Len(body) \in Nat /\ DOMAIN body = 1..Len(body) /\ \A j \in DOMAIN body : body[j] \in OAChunk
  OBVIOUS
<1>3. us \in [1..Len(body) -> U]
  BY <1>2
<1>4. us \in Seq(U) /\ Len(us) = Len(body) /\ k \in DOMAIN us /\ us[k] = body[k].usage
      /\ us[k] \in T
  <2> HIDE DEF U
  <2>1. us \in Seq(U) /\ Len(us) = Len(body) /\ k \in DOMAIN us
    BY <1>2, <1>3
  <2>2. us[k] = body[k].usage
    OBVIOUS
  <2> QED
    BY <2>1, <2>2 DEF ToSet
<1>5. ChatCompletion(body).usage = LastOr(NotEmpty(us, NoUsage), Reported(0, 0, 0))
  BY DEF ChatCompletion, FieldOf, Mapped
<1>6. NotEmpty(us, NoUsage) = Kept(us, T)
  BY DEF NotEmpty, Where
<1> HIDE DEF us, T, U
<1>7. \A j \in (k + 1)..Len(us) : us[j] \notin T
  BY <1>1, <1>2, <1>4
<1>8. Kept(us, T) # <<>> /\ Last(Kept(us, T)) = us[k]
  BY <1>4, <1>7, LastKept
<1> QED
  BY <1>4, <1>5, <1>6, <1>8, Zenon DEF LastOr

\* What one chunk adds, be it the one with the usage, which has no choices, or
\* any other.
LEMMA TranslateAdds ==
  ASSUME NEW body \in Seq(OAChunk), CompleteAnswer(body),
         \A k \in DOMAIN body : body[k].usage # NoUsage => body[k].choices = <<>>,
         NEW p \in Nat, p + 1 \in DOMAIN body, NEW st \in OAState, NEW evs, Follows(body, p, evs, st)
  PROVE  LET next == OATranslate(st, body[p + 1]) IN
         /\ next.evs \in Seq(K1Event) /\ AddsUp(next.evs, body[p + 1].choices)
         /\ next.st.lastFinish = IF Finishes(body[p + 1])
                                 THEN OAMapFinishReason(body[p + 1].choices[1].finish)
                                 ELSE st.lastFinish
<1> DEFINE chunk == body[p + 1]
           next == OATranslate(st, chunk)
<1>1. chunk \in OAChunk
  OBVIOUS
<1>2. CASE chunk.usage.source = "reported"
  <2> DEFINE done == Done(chunk.usage, st.lastFinish)
             s == <<done>>
  <2>1. next = [evs |-> s, st |-> st]
    BY <1>2 DEF OATranslate
  <2>2. chunk.usage \in Usage /\ chunk.usage # NoUsage
    BY <1>1, <1>2 DEF OAChunk, Usage, NoUsage
  <2>3. chunk.choices = <<>> /\ ~Finishes(chunk)
    BY <2>2 DEF Finishes
  <2>4. done \in K1Event /\ done.kind = "done"
    <3>1. st.lastFinish \in FinishReasons \cup {NoFinish}
      BY DEF OAState
    <3> QED
      BY <2>2, <3>1 DEF Done, Blank, K1Event
  <2> HIDE DEF done, chunk
  <2>5. s \in Seq(K1Event) /\ DOMAIN s = {1} /\ s[1] = done
    BY <2>4
  <2> HIDE DEF s
  <2>6. \A k \in DOMAIN s : s[k].kind \notin {"text", "tool_args", "tool_start"}
    BY <2>4, <2>5
  <2>7. Adds(s, <<>>, <<>>)
    BY <2>5, <2>6, AddsNothing
  <2>8. AddsUp(s, <<>>)
    BY <2>7, ToolsOfFew, Zenon DEF AddsUp
  <2>9. next.evs = s /\ next.st = st
    BY <2>1
  <2> HIDE DEF next
  <2> QED
    BY <2>3, <2>5, <2>8, <2>9, Zenon DEF chunk, next
<1>3. CASE chunk.usage.source # "reported"
  <2>1. next = ChoicesOf(st, chunk)
    BY <1>3, Zenon DEF OATranslate, ChoicesOf
  <2> QED
    BY <2>1, ChunkAdds, Zenon
<1> QED
  BY <1>2, <1>3

\* What a reader tells of an answer in the format of OpenAI, chunk by chunk.
ReadsAnswer(body, run) ==
  /\ run[0].evs = <<>> /\ run[Len(body)].evs \in Seq(K1Event)
  /\ \A k \in 1..Len(body) :
       /\ run[k - 1].st \in OAState
       /\ Follows(body, k - 1, run[k - 1].evs, run[k - 1].st)
       /\ run[k].evs = run[k - 1].evs \o OATranslate(run[k - 1].st, body[k]).evs
       /\ run[k].st = OATranslate(run[k - 1].st, body[k]).st

\* Text, calls and end of what was told are those of the response.
AddsUpTo(evs, response) ==
  /\ Joined(evs, TextEvents) = response.text
  /\ {ToolCall(e.call, ArgsByIndex(evs, e.index)) : e \in StartsOf(evs)} = response.calls

LEMMA AnswerReadAgrees ==
  ASSUME NEW body \in Seq(OAChunk), CompleteAnswer(body), OneCallEach(body),
         \A k \in DOMAIN body : body[k].usage # NoUsage => body[k].choices = <<>>,
         NEW run, ReadsAnswer(body, run)
  PROVE  LET response == WithOtherCalls(body, OAResponse(ChatCompletion(body))) IN
         /\ AddsUpTo(run[Len(body)].evs, response)
         /\ \A k \in 1..Len(body) : body[k].usage.source = "reported" =>
              OATranslate(run[k - 1].st, body[k]).evs = <<Done(response.usage, response.finish)>>
<1> DEFINE n == Len(body)
           whole == ChatCompletion(body)
           response == WithOtherCalls(body, OAResponse(whole))
           evs == [k \in 0..n |-> run[k].evs]
           finish == [k \in 0..n |-> run[k].st.lastFinish]
<1>1. n \in Nat /\ DOMAIN body = 1..n
  OBVIOUS
<1>2. ASSUME NEW k \in 1..n
      PROVE  /\ \E x \in Seq(K1Event) : evs[k] = evs[k - 1] \o x /\ AddsUp(x, body[k].choices)
             /\ finish[k] = IF Finishes(body[k]) THEN OAMapFinishReason(body[k].choices[1].finish)
                            ELSE finish[k - 1]
  <2> DEFINE before == run[k - 1]
             next == OATranslate(before.st, body[k])
             p == k - 1
  <2>1. p \in 0..n /\ k \in 0..n /\ p \in Nat /\ p + 1 = k /\ k \in DOMAIN body /\ k - 1 \in 0..n
    BY <1>1, <1>2
  <2>2. before.st \in OAState /\ Follows(body, p, before.evs, before.st)
        /\ run[k].evs = before.evs \o next.evs /\ run[k].st = next.st
    BY <1>2, Zenon DEF ReadsAnswer
  <2>3. /\ evs[k] = run[k].evs /\ evs[k - 1] = before.evs
        /\ finish[k] = run[k].st.lastFinish /\ finish[k - 1] = before.st.lastFinish
    BY <2>1
  <2> HIDE DEF before, evs, finish, p, next
  <2>4. LET made == OATranslate(before.st, body[p + 1]) IN
        /\ made.evs \in Seq(K1Event) /\ AddsUp(made.evs, body[p + 1].choices)
        /\ made.st.lastFinish = IF Finishes(body[p + 1])
                                THEN OAMapFinishReason(body[p + 1].choices[1].finish)
                                ELSE before.st.lastFinish
    <3>1. p + 1 \in DOMAIN body
      BY <2>1
    <3> QED
      BY <2>1, <2>2, <3>1, TranslateAdds
  <2>5. /\ next.evs \in Seq(K1Event) /\ AddsUp(next.evs, body[k].choices)
        /\ next.st.lastFinish = IF Finishes(body[k])
                                THEN OAMapFinishReason(body[k].choices[1].finish)
                                ELSE before.st.lastFinish
    BY <2>1, <2>4, Zenon DEF next
  <2> QED
    BY <2>2, <2>3, <2>5, Zenon
<1>3. evs[0] = <<>> /\ evs[n] = run[n].evs /\ finish[n] = run[n].st.lastFinish
      /\ run[n].evs \in Seq(K1Event)
  <2>1. 0 \in 0..n /\ n \in 0..n
    BY <1>1
  <2>2. run[0].evs = <<>> /\ run[n].evs \in Seq(K1Event)
    BY DEF ReadsAnswer
  <2> QED
    BY <2>1, <2>2
<1> HIDE DEF evs, finish
<1>4. AddsUp(evs[n], Deltas(body)) /\ Deltas(body) \in Seq(OAWireChoice)
  <2>1. \A k \in 1..Len(body) :
          \E x \in Seq(K1Event) : evs[k] = evs[k - 1] \o x /\ AddsUp(x, body[k].choices)
    BY <1>2
  <2> QED
    BY <1>3, <2>1, SumsAdd
<1>5. finish[n] = OAMapFinishReason(whole.finish)
  <2>1. \A k \in 1..Len(body) :
          finish[k] = IF Finishes(body[k]) THEN OAMapFinishReason(body[k].choices[1].finish)
                      ELSE finish[k - 1]
    BY <1>2
  <2> QED
    BY <2>1, FinishAdds
<1>6. /\ response.text = whole.text
      /\ response.calls = OAToolCalls(whole) \cup OtherCalls(whole)
      /\ response.finish = OAMapFinishReason(whole.finish) /\ response.usage = whole.usage
  BY DEF WithOtherCalls, OAResponse, Response
<1> HIDE DEF response
<1>7. AddsUpTo(run[n].evs, response)
  <2> DEFINE all == run[n].evs
  <2>1. all \in Seq(K1Event) /\ AddsUp(all, Deltas(body))
    BY <1>3, <1>4
  <2> HIDE DEF all
  <2>2. Joined(all, TextEvents) = whole.text
    BY <1>4, <2>1, TextAgrees
  <2>3. {ToolCall(e.call, ArgsByIndex(all, e.index)) : e \in StartsOf(all)}
          = OAToolCalls(whole) \cup OtherCalls(whole)
    BY <1>4, <2>1, CallsAgree
  <2> QED
    BY <1>6, <2>2, <2>3, Zenon DEF AddsUpTo, all
<1>8. ASSUME NEW k \in 1..n, body[k].usage.source = "reported"
      PROVE  OATranslate(run[k - 1].st, body[k]).evs = <<Done(response.usage, response.finish)>>
  <2> DEFINE st == run[k - 1].st
  <2>1. body[k].usage # NoUsage
    BY <1>8 DEF NoUsage
  <2>2. whole.usage = body[k].usage
    BY <1>1, <1>8, <2>1, UsageKnown
  <2>3. k = n
    BY <1>1, <2>1 DEF CompleteAnswer
  <2>4. OATranslate(st, body[k]) = [evs |-> <<Done(body[k].usage, st.lastFinish)>>, st |-> st]
    BY <1>8 DEF OATranslate
  <2>5. run[k].st = st
    <3>1. run[k].st = OATranslate(st, body[k]).st
      BY <1>8, Zenon DEF ReadsAnswer
    <3> QED
      BY <2>4, <3>1
  <2>6. st.lastFinish = response.finish
    BY <1>3, <1>5, <1>6, <2>3, <2>5
  <2>7. OATranslate(st, body[k]).evs = <<Done(body[k].usage, st.lastFinish)>>
    BY <2>4
  <2> QED
    BY <1>6, <2>2, <2>6, <2>7, Zenon
<1> QED
  BY <1>7, <1>8 DEF response

\* What a reader tells of a message, event by event.
ReadsMessage(body, run) ==
  /\ run[0].evs = <<>>
  /\ \A k \in 0..Len(body) : run[k].st \in AnthropicState /\ run[k].evs \in Seq(K1Event)
  /\ \A k \in 1..Len(body) :
       /\ AnthropicTranslate(run[k - 1].st, body[k]) \in Seq(K1Event)
       /\ run[k].evs = run[k - 1].evs \o AnthropicTranslate(run[k - 1].st, body[k])
       /\ run[k].st = AnthropicAfter(run[k - 1].st, body[k])

LastUsage(body) ==
  Reported(LastDelta(body).in, LastDelta(body).out, LastDelta(body).in + LastDelta(body).out)

LEMMA MessageReadAgrees ==
  ASSUME NEW body \in Seq(AnthropicChunk), CompleteMessage(body), BlockByBlock(body),
         NEW run, ReadsMessage(body, run)
  PROVE  LET response == AnthropicResponse(Message(body)) IN
         /\ AddsUpTo(run[Len(body)].evs, response)
         /\ \A k \in 1..Len(body) : body[k].type = "message_stop" =>
              AnthropicTranslate(run[k - 1].st, body[k]) = <<Done(LastUsage(body), response.finish)>>
<1> DEFINE n == Len(body)
           response == AnthropicResponse(Message(body))
           evs == [k \in 0..n |-> run[k].evs]
           st == [k \in 0..n |-> run[k].st]
<1>1. /\ n \in Nat /\ DOMAIN body = 1..n /\ \A k \in 1..n : body[k] \in AnthropicChunk
      /\ 0 \in 0..n /\ n \in 0..n /\ \A k \in 1..n : k \in 0..n /\ k - 1 \in 0..n
  OBVIOUS
<1>2. \A k \in 0..n : evs[k] = run[k].evs /\ st[k] = run[k].st
  OBVIOUS
<1>3. /\ evs[0] = <<>>
      /\ \A k \in 0..n : st[k] \in AnthropicState /\ evs[k] \in Seq(K1Event)
  <2> HIDE DEF evs, st
  <2> QED
    BY <1>1, <1>2 DEF ReadsMessage
<1>4. \A k \in 1..n : /\ AnthropicTranslate(st[k - 1], body[k]) \in Seq(K1Event)
                      /\ evs[k] = evs[k - 1] \o AnthropicTranslate(st[k - 1], body[k])
                      /\ st[k] = AnthropicAfter(st[k - 1], body[k])
  <2> HIDE DEF evs, st
  <2> SUFFICES ASSUME NEW k \in 1..n
               PROVE  /\ AnthropicTranslate(st[k - 1], body[k]) \in Seq(K1Event)
                      /\ evs[k] = evs[k - 1] \o AnthropicTranslate(st[k - 1], body[k])
                      /\ st[k] = AnthropicAfter(st[k - 1], body[k])
    OBVIOUS
  <2>1. /\ AnthropicTranslate(run[k - 1].st, body[k]) \in Seq(K1Event)
        /\ run[k].evs = run[k - 1].evs \o AnthropicTranslate(run[k - 1].st, body[k])
        /\ run[k].st = AnthropicAfter(run[k - 1].st, body[k])
    BY DEF ReadsMessage
  <2> QED
    BY <1>1, <1>2, <2>1, Zenon
<1> HIDE DEF evs, st
<1>5. MsgAddsUp(evs[n], body)
  <2>1. ASSUME NEW k \in 1..n
        PROVE  /\ evs[k - 1] \in Seq(K1Event)
               /\ \E x \in Seq(K1Event) : evs[k] = evs[k - 1] \o x /\ MsgAdds(x, body[k])
    <3> DEFINE before == st[k - 1]
               x == AnthropicTranslate(before, body[k])
    <3>1. evs[k - 1] \in Seq(K1Event) /\ x \in Seq(K1Event) /\ evs[k] = evs[k - 1] \o x
          /\ body[k] \in AnthropicChunk
      BY <1>1, <1>3, <1>4
    <3> HIDE DEF before
    <3>2. MsgAdds(x, body[k])
      BY <3>1, EventAdds
    <3> HIDE DEF x
    <3> QED
      BY <3>1, <3>2
  <2> QED
    BY <1>3, <2>1, MessageAdds
<1>6. AddsUpTo(evs[n], response)
  <2> DEFINE all == evs[n]
  <2>1. all \in Seq(K1Event) /\ MsgAddsUp(all, body) /\ Tidy(body)
    BY <1>1, <1>3, <1>5, MessageIsTidy
  <2> HIDE DEF all
  <2> QED
    BY <2>1, MessageAgrees DEF AddsUpTo, all
<1>7. ASSUME NEW k \in 1..n, body[k].type = "message_stop"
      PROVE  AnthropicTranslate(st[k - 1], body[k]) = <<Done(LastUsage(body), response.finish)>>
  <2>1. InPlace(body, k)
    BY <1>1 DEF CompleteMessage
  <2>2. k = n /\ n # 0
    BY <1>1, <1>7, <2>1 DEF InPlace
  <2>3. st[n - 1].finish = response.finish /\ st[n - 1].usage = LastUsage(body)
    BY <1>3, <1>4, <1>7, <2>2, MessageEndKnown DEF LastUsage
  <2>4. AnthropicTranslate(st[k - 1], body[k]) = <<Done(st[k - 1].usage, st[k - 1].finish)>>
    BY <1>7, Zenon DEF AnthropicTranslate
  <2> HIDE DEF response
  <2> QED
    BY <2>2, <2>3, <2>4, Zenon
<1>8. evs[n] = run[n].evs /\ \A k \in 1..n : st[k - 1] = run[k - 1].st
  BY <1>1, <1>2
<1> HIDE DEF response
<1> QED
  BY <1>6, <1>7, <1>8 DEF response
=============================================================================
