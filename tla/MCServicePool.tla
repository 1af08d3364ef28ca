-------------------------- MODULE MCServicePool ----------------------------
(* Finite instances of ServicePool: every member is there from the start,  *)
(* in some order.                                                          *)
EXTENDS ServicePool

InitialMembers ==
  CHOOSE s \in [1..Cardinality(Key) -> Key] : {s[i] : i \in DOMAIN s} = Key

=============================================================================
