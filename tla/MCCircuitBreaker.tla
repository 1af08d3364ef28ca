-------------------------- MODULE MCCircuitBreaker --------------------------
(* Finite instances of CircuitBreaker.  Callers are interchangeable; the   *)
(* symmetry is used where no liveness property is checked.                 *)
EXTENDS CircuitBreaker, TLC

Symmetry == Permutations(Caller)

=============================================================================
