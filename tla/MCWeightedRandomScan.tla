------------------------ MODULE MCWeightedRandomScan ------------------------
(* Two candidates of different weight.                                     *)
EXTENDS WeightedRandomScan

C(id, weight) ==
  [id |-> id, weight |-> weight, load |-> 0, status |-> "ready",
   healthy |-> TRUE, priority |-> 0, allow_in_panic |-> TRUE,
   locality |-> 0, locality_weight |-> 1]

TwoCandidates == <<C("a", 1), C("b", 2)>>

Ids == {"a", "b"}

=============================================================================
