----------------------------- MODULE StateFeed -----------------------------
(***************************************************************************)
(* What a snapshot channel promises its observers, without its locks,      *)
(* flags and wakers: a value that only grows, and observers that each jump *)
(* to the value of the moment, never backwards and never again once they   *)
(* were told the feed has ended.                                           *)
(*                                                                         *)
(* An observer may be told so with values unseen: the implementation does  *)
(* not look at the cell after it has found the publisher gone.             *)
(***************************************************************************)
EXTENDS Integers

CONSTANTS Observer, MaxValue

VARIABLES
  value,    \* the latest value put
  closed,   \* nothing more will be put
  seen,     \* the last value each observer took, -1 before the first
  ended     \* the observers that were told the feed has ended

vars == <<value, closed, seen, ended>>

Init ==
  /\ value = 0
  /\ closed = FALSE
  /\ seen = [o \in Observer |-> -1]
  /\ ended = [o \in Observer |-> FALSE]

Put(v) ==
  /\ ~closed
  /\ v > value
  /\ value' = v
  /\ UNCHANGED <<closed, seen, ended>>

Close ==
  /\ ~closed
  /\ closed' = TRUE
  /\ UNCHANGED <<value, seen, ended>>

Take(o) ==
  /\ ~ended[o]
  /\ value > seen[o]
  /\ seen' = [seen EXCEPT ![o] = value]
  /\ UNCHANGED <<value, closed, ended>>

End(o) ==
  /\ closed
  /\ ~ended[o]
  /\ ended' = [ended EXCEPT ![o] = TRUE]
  /\ UNCHANGED <<value, closed, seen>>

Next ==
  \/ \E v \in 1..MaxValue : Put(v)
  \/ Close
  \/ \E o \in Observer : Take(o) \/ End(o)

Spec == Init /\ [][Next]_vars

=============================================================================
