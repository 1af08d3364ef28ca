---------------------------- MODULE Candidates ----------------------------
(***************************************************************************)
(* What a selection policy of poise-core is given: a slice of candidates,  *)
(* here a sequence.  A candidate stands for Backend in its wrappers:       *)
(* HealthChecked adds `healthy`, Prioritized `priority` and                *)
(* `allow_in_panic`, Localized `locality` and `locality_weight`.           *)
(* A result has the index of the selection, 0 when there is none.          *)
(***************************************************************************)
EXTENDS Integers, Sequences, FiniteSetsExt

CONSTANTS
  Id,         \* the identities of candidates
  MaxU64      \* u64::MAX (bounds the model)

ASSUME MaxU64Assumption == MaxU64 \in Nat \ {0}

Statuses == {"ready", "draining", "unavailable"}

IsSelectable(status) == status = "ready"

\* HealthChecked hides the status of its backend only to say "unavailable".
Status(c) ==
  IF IsSelectable(c.status) /\ ~c.healthy THEN "unavailable" ELSE c.status

IsEligible(c) == IsSelectable(c.status) /\ c.healthy

IsPriorityMember(c) == Status(c) # "draining"

IsPanicEligible(c) == c.allow_in_panic /\ IsPriorityMember(c)

IsBackend(c) ==
  /\ c.id \in Id
  /\ c.weight \in 1..MaxU64 /\ c.load \in 0..MaxU64
  /\ c.status \in Statuses

IsHealthChecked(c) == c.healthy \in BOOLEAN

IsPrioritized(c) == c.priority \in Nat /\ c.allow_in_panic \in BOOLEAN

IsLocalized(c) == c.locality \in Nat /\ c.locality_weight \in 1..MaxU64

IsCandidate(c) ==
  IsBackend(c) /\ IsHealthChecked(c) /\ IsPrioritized(c) /\ IsLocalized(c)

Eligible(slice) == {i \in DOMAIN slice : IsEligible(slice[i])}

PickErrors ==
  {"Empty", "NoEligibleCandidates", "WeightOverflow", "DuplicateIdentity",
   "StateCapacityExceeded", "LoadOverflow", "PanicRejected",
   "InconsistentTopology"}

Selected(i) == [index |-> i, error |-> "none"]

Failed(error) == [index |-> 0, error |-> error]

NoCandidateError(slice) ==
  IF slice = <<>> THEN "Empty" ELSE "NoEligibleCandidates"

TotalWeight(slice, S) == MapThenSumSet(LAMBDA i : slice[i].weight, S)

TotalLoad(slice, S) == MapThenSumSet(LAMBDA i : slice[i].load, S)

\* Two of the candidates at S have one identity.
Repeats(slice, S) == \E i, j \in S : i # j /\ slice[i].id = slice[j].id

=============================================================================
