----------------------------- MODULE Selections ----------------------------
(***************************************************************************)
(* Parts of sequences, defined so that proofs can use it: what SelectSeq   *)
(* is, with a set in the place of the test.                                *)
(***************************************************************************)
EXTENDS Naturals, SequencesExt

Mapped(f(_), s) == [k \in DOMAIN s |-> f(s[k])]

\* The elements of s that are in T, of the first k elements and of all.
KeptUpTo(s, T) ==
  LET kept[k \in 0..Len(s)] ==
        IF k = 0 THEN <<>>
        ELSE IF s[k] \in T THEN Append(kept[k - 1], s[k]) ELSE kept[k - 1]
  IN  kept
Kept(s, T) == KeptUpTo(s, T)[Len(s)]
Where(s, Test(_)) == Kept(s, {x \in ToSet(s) : Test(x)})
=============================================================================
