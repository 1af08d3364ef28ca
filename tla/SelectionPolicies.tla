------------------------- MODULE SelectionPolicies -------------------------
(***************************************************************************)
(* The policies of poise-core that no request key enters: each operator    *)
(* gives what one pick from a slice returns, and the state it leaves.      *)
(* A random draw is the set of the indexes it may return.  Cursors count   *)
(* from 0 as in the code, indexes of a sequence from 1.                    *)
(***************************************************************************)
EXTENDS Candidates

CONSTANT MaxEpoch     \* the last epoch of smooth weighted round robin (u64::MAX)

ASSUME MaxEpochAssumption == MaxEpoch \in Nat \ {0, 1}

\* Mutant of Distance: a scan always starts with the first candidate.
DistanceFromFirst(slice, cursor, i) == i - 1

\* How far a scan of the slice from the cursor goes before it meets index i.
Distance(slice, cursor, i) == (i - 1 - cursor) % Len(slice)

FirstFrom(slice, cursor, S) ==
  CHOOSE i \in S : \A j \in S :
    Distance(slice, cursor, i) <= Distance(slice, cursor, j)

\* The cursor goes past the selection, and stays when there is none.
Advance(slice, cursor, S) ==
  IF S = {}
  THEN [result |-> Failed(NoCandidateError(slice)), cursor |-> cursor]
  ELSE LET i == FirstFrom(slice, cursor, S)
       IN  [result |-> Selected(i), cursor |-> i]

RoundRobin(slice, cursor) == Advance(slice, cursor, Eligible(slice))

LeastLoadedOf(slice) ==
  {i \in Eligible(slice) :
     \A j \in Eligible(slice) : slice[i].load <= slice[j].load}

LeastLoaded(slice, cursor) == Advance(slice, cursor, LeastLoadedOf(slice))

\* What a draw of one index of S may return.
Draw(slice, S) ==
  IF S = {} THEN {Failed(NoCandidateError(slice))} ELSE {Selected(i) : i \in S}

Random(slice) == Draw(slice, Eligible(slice))

WeightedRandom(slice) ==
  IF TotalWeight(slice, Eligible(slice)) > MaxU64
  THEN {Failed("WeightOverflow")}
  ELSE Draw(slice, Eligible(slice))

\* Two distinct eligible candidates are drawn; the less loaded one is taken.
PowerOfTwoChoices(slice) ==
  LET E == Eligible(slice)
  IN  Draw(slice, {i \in E : \/ E = {i}
                             \/ \E j \in E \ {i} : slice[i].load <= slice[j].load})

-----------------------------------------------------------------------------
(* Smooth weighted round robin: a credit for each identity that was        *)
(* eligible in the last decision, stamped with the decision's epoch.       *)

NoStates == [id \in {} |-> [current |-> 0, seen_in |-> 0]]

\* Mutant of NextEpoch: the epoch wraps to that of identities not seen yet.
NextEpochUnreserved(smooth) ==
  [smooth EXCEPT !.epoch = (@ + 1) % (MaxEpoch + 1)]

\* Epoch 0 is never a decision's: the clock that comes to it starts again.
NextEpoch(smooth) ==
  IF smooth.epoch = MaxEpoch
  THEN [states |-> NoStates, epoch |-> 1]
  ELSE [smooth EXCEPT !.epoch = @ + 1]

\* The credit of the candidate at i, in the middle of a decision.
Credit(slice, states, i) ==
  slice[i].weight + IF slice[i].id \in DOMAIN states
                    THEN states[slice[i].id].current ELSE 0

Winner(slice, states) ==
  CHOOSE i \in Eligible(slice) : \A j \in Eligible(slice) :
    \/ Credit(slice, states, i) > Credit(slice, states, j)
    \/ Credit(slice, states, i) = Credit(slice, states, j) /\ i <= j

SeenTwice(slice, smooth) ==
  \/ Repeats(slice, Eligible(slice))
  \/ \E i \in Eligible(slice) :
       smooth.epoch = IF slice[i].id \in DOMAIN smooth.states
                      THEN smooth.states[slice[i].id].seen_in ELSE 0

\* The states an unrepeated decision retains: those of eligible identities.
Decided(slice, smooth, winner) ==
  LET E == Eligible(slice)
      At(id) == CHOOSE i \in E : slice[i].id = id
  IN  [id \in {slice[i].id : i \in E} |->
         [current |-> Credit(slice, smooth.states, At(id))
                        - IF At(id) = winner THEN TotalWeight(slice, E) ELSE 0,
          seen_in |-> smooth.epoch]]

SmoothWeightedRoundRobin(slice, smooth) ==
  LET next == NextEpoch(smooth)
  IN  CASE slice = <<>> ->
             [result |-> Failed("Empty"),
              smooth |-> [smooth EXCEPT !.states = NoStates]]
        [] slice # <<>> /\ SeenTwice(slice, next) ->
             [result |-> Failed("DuplicateIdentity"),
              smooth |-> [states |-> NoStates, epoch |-> 0]]
        [] slice # <<>> /\ Eligible(slice) = {} ->
             [result |-> Failed("NoEligibleCandidates"),
              smooth |-> [next EXCEPT !.states = NoStates]]
        [] OTHER ->
             LET winner == Winner(slice, next.states)
             IN  [result |-> Selected(winner),
                  smooth |-> [next EXCEPT !.states = Decided(slice, next, winner)]]

=============================================================================
