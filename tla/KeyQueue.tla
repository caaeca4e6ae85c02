------------------------------ MODULE KeyQueue ------------------------------
(***************************************************************************)
(* What the keyboard driver's ring buffer promises to the code that reads  *)
(* characters: a bounded queue that keeps order, loses no character it     *)
(* accepted, and refuses one only when Capacity characters are waiting.    *)
(***************************************************************************)
EXTENDS Integers, Sequences

CONSTANTS Char, Capacity

VARIABLES
  queue,        \* characters accepted and not read yet
  taken,        \* characters the readers have received
  dropped       \* number of characters refused

queueVars == <<queue, taken, dropped>>

Init == queue = << >> /\ taken = << >> /\ dropped = 0

Put(ch) ==
  /\ Len(queue) < Capacity
  /\ queue' = Append(queue, ch)
  /\ UNCHANGED <<taken, dropped>>

Drop ==
  /\ Len(queue) >= Capacity
  /\ dropped' = dropped + 1
  /\ UNCHANGED <<queue, taken>>

Take ==
  /\ queue # << >>
  /\ taken' = Append(taken, Head(queue))
  /\ queue' = Tail(queue)
  /\ UNCHANGED dropped

Next == (\E ch \in Char : Put(ch)) \/ Drop \/ Take

Spec == Init /\ [][Next]_queueVars

=============================================================================
