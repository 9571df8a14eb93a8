--------------------------- MODULE StreamContract ---------------------------
(***************************************************************************)
(* What a consumer may rely on, whatever the adapter: the events it is     *)
(* given are, in order and without gap, those of one completion; the end   *)
(* is only reported once the completion is whole; a failure, a cancelled   *)
(* context or a Close may cut it anywhere; afterwards nothing more comes.  *)
(***************************************************************************)
EXTENDS Naturals, Sequences

CONSTANT Completions  \* event sequences, each one whole completion

VARIABLES
  log,    \* events delivered
  src,    \* the completion they are taken from, <<>> while none was delivered
  status  \* "running", "ended" (io.EOF) or "cut" (an error, or closed)

Init == log = <<>> /\ src = <<>> /\ status = "running"

Deliver ==
  /\ status = "running"
  /\ \E s \in Completions :
       /\ log = <<>> \/ s = src
       /\ Len(log) < Len(s)
       /\ log' = Append(log, s[Len(log) + 1])
       /\ src' = s
  /\ UNCHANGED status

\* io.EOF: the completion was delivered whole.
End ==
  /\ status = "running"
  /\ log = src
  /\ log = <<>> => <<>> \in Completions
  /\ status' = "ended"
  /\ UNCHANGED <<log, src>>

Cut ==
  /\ status = "running"
  /\ status' = "cut"
  /\ UNCHANGED <<log, src>>

Next == Deliver \/ End \/ Cut

Spec == Init /\ [][Next]_<<log, src, status>>
=============================================================================
