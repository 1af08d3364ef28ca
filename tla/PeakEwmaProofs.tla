--------------------------- MODULE PeakEwmaProofs ---------------------------
(***************************************************************************)
(* Proofs about PeakEwma, for any finite set of threads, any limit and any *)
(* decay that obeys the laws of one: the counter counts the attempts in    *)
(* flight, and the estimate is never higher than the samples explain.      *)
(***************************************************************************)
EXTENDS PeakEwma, FiniteSetTheorems, TLAPS

USE ThreadAssumption, ConfigAssumption

-----------------------------------------------------------------------------
(* Decay.                                                                  *)

\* More time leaves less of a cost.
LEMMA DecayAntitone ==
  ASSUME NEW c \in Costs, NEW t \in Instants, NEW u \in Instants, t <= u
  PROVE  Decay(c, u) <= Decay(c, t)
<1>1. Decay(c, t) \in Costs
  BY DecayAssumption DEF Costs
<1>2. u - t \in Instants /\ t + (u - t) = u /\ u <= MaxTime
  BY DEF Instants
<1>3. Decay(Decay(c, t), u - t) = Decay(c, t + (u - t))
  BY <1>2, DecayAssumption
<1>4. Decay(Decay(c, t), u - t) \in 0..Decay(c, t)
  BY <1>1, <1>2, DecayAssumption
<1> QED
  BY <1>1, <1>2, <1>3, <1>4 DEF Costs

\* A cost explained by an earlier one stays explained by it, even if the clock
\* was moved back in between.
LEMMA DecayAgain ==
  ASSUME NEW c \in Costs, NEW d \in Costs,
         NEW s \in Instants, NEW u \in Instants, NEW t \in Instants,
         c <= Decay(d, Since(u, s))
  PROVE  Decay(c, Since(t, u)) <= Decay(d, Since(t, s))
<1> DEFINE a == Since(u, s)
           b == Since(t, u)
           e == Since(t, s)
<1>1. a \in Instants /\ b \in Instants /\ e \in Instants /\ 0 \in Instants
  BY DEF Since, Instants
<1>2. Decay(d, a) \in Costs /\ Decay(c, b) \in 0..c /\ Decay(d, e) \in Nat
  BY <1>1, DecayAssumption DEF Costs
<1>3. Decay(c, b) <= Decay(Decay(d, a), b)
  BY <1>1, <1>2, DecayAssumption
<1>4. CASE a + b <= MaxTime
  <2>1. Decay(Decay(d, a), b) = Decay(d, a + b)
    BY <1>1, <1>4, DecayAssumption
  <2>2. a + b \in Instants /\ e <= a + b
    BY <1>1, <1>4 DEF Since, Instants
  <2>3. Decay(d, a + b) <= Decay(d, e)
    BY <1>1, <2>2, DecayAntitone
  <2>4. Decay(d, a + b) \in Nat
    BY <2>2, DecayAssumption DEF Costs
  <2> QED
    BY <1>2, <1>3, <2>1, <2>3, <2>4 DEF Costs
<1>5. CASE a + b > MaxTime
  BY <1>1, <1>5 DEF Since, Instants
<1> QED
  BY <1>1, <1>4, <1>5 DEF Instants

\* The estimate stays between the default and the largest cost.
LEMMA DecayedCostBounds ==
  ASSUME TypeOK, NEW t \in Instants
  PROVE  /\ DecayedCost(t) \in DefaultRtt..MaxCost
         /\ \/ DecayedCost(t) = DefaultRtt
            \/ DecayedCost(t) = Decay(cost_seconds, Since(t, updated_at))
<1>1. cost_seconds \in Costs /\ cost_seconds <= MaxCost
  BY DEF TypeOK, Costs
<1>2. Since(t, updated_at) \in Instants
  BY DEF TypeOK, Since, Instants
<1>3. Decay(cost_seconds, Since(t, updated_at)) \in 0..cost_seconds
  BY <1>1, <1>2, DecayAssumption
<1> QED
  BY <1>1, <1>3 DEF DecayedCost, Greater, Costs

-----------------------------------------------------------------------------
(* The attempts in flight.                                                 *)

InFlight == {"counted", "running", "sampled", "observing", "releasing"}

\* There are finitely many, so their number is a number ...
LEMMA HoldersFinite == IsFiniteSet(Holders) /\ Cardinality(Holders) \in Nat
<1>1. IsFiniteSet(Holders)
  BY FS_Subset DEF Holders
<1> QED
  BY <1>1, FS_CardinalityType

\* ... which grows or shrinks by one.
LEMMA HolderCount ==
  ASSUME NEW p \in Thread
  PROVE  /\ p \notin Holders =>
              Cardinality(Holders \cup {p}) = Cardinality(Holders) + 1
         /\ p \in Holders =>
              Cardinality(Holders \ {p}) = Cardinality(Holders) - 1
  BY HoldersFinite, FS_AddElement, FS_RemoveElement

\* Who is in flight after a thread has moved.
LEMMA HoldersNext ==
  ASSUME TypeOK, NEW p \in Thread, NEW place, Go(p, place)
  PROVE  Holders' = IF place \in InFlight THEN Holders \cup {p} ELSE Holders \ {p}
  BY DEF TypeOK, Holders, InFlight, Go

\* A step that moves a thread within the attempts in flight, or outside of them,
\* and leaves the counter alone keeps the count.
LEMMA CountKept ==
  ASSUME IInv, NEW p \in Thread, NEW place, Go(p, place), UNCHANGED active,
         (place \in InFlight) <=> (pc[p] \in InFlight)
  PROVE  SlotsAreHeld'
<1>1. Holders' = Holders
  BY HoldersNext DEF IInv, Holders, InFlight
<1> QED
  BY <1>1 DEF IInv, SlotsAreHeld

\* Every step keeps the counter equal to the number of attempts in flight.
LEMMA NextSlotsAreHeld == IInv /\ [Next]_vars => SlotsAreHeld'
<1> SUFFICES ASSUME IInv, [Next]_vars
             PROVE  SlotsAreHeld'
  OBVIOUS
<1> USE DEF IInv, InFlight
<1>1. CASE Tick
  BY <1>1 DEF Tick, SlotsAreHeld, Holders
<1>2. ASSUME NEW p \in Thread, Start(p)
      PROVE  SlotsAreHeld'
  BY <1>2, CountKept DEF Start, Attempt
<1>3. ASSUME NEW p \in Thread, Exchange(p)
      PROVE  SlotsAreHeld'
  <2>1. CASE active # expected[p] /\ Attempt(p)
    BY <1>3, <2>1, CountKept DEF Exchange, Attempt
  <2>2. CASE active = expected[p] /\ active' = expected[p] + 1 /\ Go(p, "counted")
    <3>1. Holders' = Holders \cup {p}
      BY <2>2, HoldersNext
    <3>2. p \notin Holders
      BY <1>3 DEF Exchange, Holders
    <3>3. Cardinality(Holders') = Cardinality(Holders) + 1
      BY <3>1, <3>2, HolderCount
    <3>4. expected[p] \in Nat /\ expected[p] < Limit
      BY <1>3 DEF Exchange, TypeOK, BelowLimit
    <3>5. active' = Cardinality(Holders') /\ active = expected[p]
      BY <2>2, <3>3 DEF SlotsAreHeld
    <3>6. active' <= Limit
      BY <2>2, <3>4
    <3> QED
      BY <3>5, <3>6 DEF SlotsAreHeld
  <2> QED
    BY <1>3, <2>1, <2>2 DEF Exchange
<1>4. ASSUME NEW p \in Thread, Release(p)
      PROVE  SlotsAreHeld'
  <2>1. Holders' = Holders \ {p}
    BY <1>4, HoldersNext DEF Release
  <2>2. p \in Holders
    BY <1>4 DEF Release, Holders
  <2>3. Cardinality(Holders') = Cardinality(Holders) - 1
    BY <2>1, <2>2, HolderCount
  <2> QED
    BY <1>4, <2>3, HoldersFinite DEF Release, SlotsAreHeld
<1>5. ASSUME NEW p \in Thread,
             StampStart(p) \/ Complete(p) \/ Cancel(p) \/ ReadClock(p)
      PROVE  SlotsAreHeld'
  BY <1>5, CountKept DEF StampStart, Complete, Cancel, ReadClock
<1>6. ASSUME NEW p \in Thread, Observe(p)
      PROVE  SlotsAreHeld'
  BY <1>6, CountKept DEF Observe
<1>7. ASSUME NEW p \in Thread, NEW c \in Reported, Report(p, c)
      PROVE  SlotsAreHeld'
  BY <1>7, CountKept DEF Report
<1>8. ASSUME NEW p \in Thread, Score(p) \/ ReadCost(p) \/ ReadCount(p)
      PROVE  SlotsAreHeld'
  BY <1>8, CountKept DEF Score, ReadCost, ReadCount
<1>9. CASE UNCHANGED vars
  BY <1>9 DEF vars, SlotsAreHeld, Holders
<1> QED
  BY <1>1, <1>2, <1>3, <1>4, <1>5, <1>6, <1>7, <1>8, <1>9 DEF Next

\* Every step keeps instants in the past, and exchanged counts below the limit.
LEMMA NextNowIsPast == IInv /\ [Next]_vars => NowIsPast' /\ BelowLimit'
<1> SUFFICES ASSUME IInv, [Next]_vars
             PROVE  NowIsPast' /\ BelowLimit'
  OBVIOUS
<1> USE DEF IInv, TypeOK, Instants, NowIsPast, BelowLimit, Go
<1>1. CASE Tick \/ UNCHANGED vars
  BY <1>1 DEF Tick, vars, attemptVars, estimate
<1>2. ASSUME NEW p \in Thread, Attempt(p)
      PROVE  NowIsPast' /\ BelowLimit'
  <2>1. NowIsPast'
    BY <1>2 DEF Attempt, estimate
  <2>2. \A q \in Thread \ {p} : pc'[q] = pc[q] /\ expected'[q] = expected[q]
    BY <1>2 DEF Attempt
  <2>3. pc'[p] = "exchanging" => expected'[p] = active /\ ~(active >= Limit)
    BY <1>2 DEF Attempt
  <2>4. active < Limit \/ active >= Limit
    OBVIOUS
  <2> QED
    BY <2>1, <2>2, <2>3, <2>4
<1>3. ASSUME NEW p \in Thread, Start(p) \/ Exchange(p)
      PROVE  NowIsPast' /\ BelowLimit'
  <2>1. CASE Attempt(p)
    BY <1>2, <2>1
  <2>2. CASE /\ expected' = [expected EXCEPT ![p] = 0]
             /\ Go(p, "counted")
             /\ UNCHANGED <<estimate, clock, started_at, now>>
    BY <2>2 DEF estimate
  <2> QED
    BY <1>3, <2>1, <2>2 DEF Start, Exchange
<1>4. ASSUME NEW p \in Thread, StampStart(p) \/ Cancel(p)
      PROVE  NowIsPast' /\ BelowLimit'
  <2>1. CASE StampStart(p)
    <3>1. NowIsPast'
      BY <2>1 DEF StampStart, estimate
    <3>2. BelowLimit'
      BY <2>1 DEF StampStart, estimate
    <3> QED
      BY <3>1, <3>2
  <2>2. CASE Cancel(p)
    <3>1. NowIsPast'
      BY <2>2 DEF Cancel, estimate
    <3>2. BelowLimit'
      BY <2>2 DEF Cancel, estimate
    <3> QED
      BY <3>1, <3>2
  <2> QED
    BY <1>4, <2>1, <2>2
<1>5. ASSUME NEW p \in Thread, Complete(p) \/ Release(p) \/ ReadCount(p)
      PROVE  NowIsPast' /\ BelowLimit'
  BY <1>5 DEF Complete, Release, ReadCount, estimate, attemptVars
<1>6. ASSUME NEW p \in Thread, ReadClock(p) \/ Score(p)
      PROVE  NowIsPast' /\ BelowLimit'
  <2>1. CASE ReadClock(p)
    <3>1. NowIsPast'
      BY <2>1 DEF ReadClock, estimate, attemptVars
    <3>2. BelowLimit'
      BY <2>1 DEF ReadClock, estimate, attemptVars
    <3> QED
      BY <3>1, <3>2
  <2>2. CASE Score(p)
    <3>1. NowIsPast'
      BY <2>2 DEF Score, estimate, attemptVars
    <3>2. BelowLimit'
      BY <2>2 DEF Score, estimate, attemptVars
    <3> QED
      BY <3>1, <3>2
  <2> QED
    BY <1>6, <2>1, <2>2
<1>7. ASSUME NEW p \in Thread, NEW c \in Reported, Report(p, c)
      PROVE  NowIsPast' /\ BelowLimit'
  <2>1. NowIsPast'
    BY <1>7 DEF Report, estimate
  <2>2. BelowLimit'
    BY <1>7 DEF Report
  <2> QED
    BY <2>1, <2>2
<1>8. ASSUME NEW p \in Thread, Observe(p)
      PROVE  NowIsPast' /\ BelowLimit'
  <2>1. NowIsPast'
    <3>1. updated_at' <= clock' /\ clock' = clock
      BY <1>8 DEF Observe
    <3>2. \A q \in Thread : now'[q] <= clock /\ started_at'[q] <= clock
      BY <1>8 DEF Observe
    <3> QED
      BY <3>1, <3>2
  <2>2. \A q \in Thread : pc'[q] = "exchanging" => pc[q] = "exchanging"
    BY <1>8 DEF Observe
  <2> QED
    BY <1>8, <2>1, <2>2 DEF Observe
<1>9. ASSUME NEW p \in Thread, ReadCost(p)
      PROVE  NowIsPast' /\ BelowLimit'
  BY <1>9 DEF ReadCost, attemptVars
<1> QED
  BY <1>1, <1>3, <1>4, <1>5, <1>6, <1>7, <1>8, <1>9 DEF Next

-----------------------------------------------------------------------------
(* Types.                                                                  *)

\* The tracker that from_parts builds satisfies the invariant.
LEMMA InitInv == Init => IInv
<1> SUFFICES ASSUME Init
             PROVE  IInv
  OBVIOUS
<1>1. TypeOK
  BY DEF Init, TypeOK, Costs, Instants, Places
<1>2. Holders = {}
  BY DEF Init, Holders
<1>3. SlotsAreHeld
  BY <1>2, FS_EmptySet DEF Init, SlotsAreHeld
<1> QED
  BY <1>1, <1>3 DEF Init, IInv, NowIsPast, BelowLimit, EstimateIsEarned, Instants

\* Every step keeps the types.
LEMMA NextTypeOK == IInv /\ [Next]_vars => TypeOK'
<1> SUFFICES ASSUME IInv, [Next]_vars
             PROVE  TypeOK'
  OBVIOUS
<1>0. active' \in 0..Limit
  <2>1. SlotsAreHeld'
    BY NextSlotsAreHeld
  <2>2. IsFiniteSet(Holders')
    BY FS_Subset DEF Holders
  <2>3. Cardinality(Holders') \in Nat
    BY <2>2, FS_CardinalityType
  <2> QED
    BY <2>1, <2>3 DEF SlotsAreHeld
<1> USE DEF IInv, TypeOK, Go, Places
<1>1. CASE Tick
  BY <1>0, <1>1 DEF Tick, Instants, estimate, attemptVars
<1>2. ASSUME NEW p \in Thread, Start(p) \/ Exchange(p)
      PROVE  TypeOK'
  BY <1>0, <1>2 DEF Start, Exchange, Attempt, estimate
<1>3. ASSUME NEW p \in Thread, StampStart(p) \/ ReadClock(p) \/ Release(p)
      PROVE  TypeOK'
  BY <1>0, <1>3 DEF StampStart, ReadClock, Release, estimate, attemptVars
<1>4. ASSUME NEW p \in Thread, Complete(p)
      PROVE  TypeOK'
  <2>1. clock - started_at[p] \in Costs
    BY DEF NowIsPast, Instants, Costs
  <2> QED
    BY <1>0, <1>4, <2>1 DEF Complete, estimate
<1>5. ASSUME NEW p \in Thread, Cancel(p)
      PROVE  TypeOK'
  BY <1>0, <1>5 DEF Cancel, Instants, estimate
<1>6. ASSUME NEW p \in Thread, NEW c \in Reported, Report(p, c)
      PROVE  TypeOK'
  BY <1>0, <1>6 DEF Report, estimate
<1>7. ASSUME NEW p \in Thread, Observe(p)
      PROVE  TypeOK'
  <2>1. now[p] \in Instants /\ sample[p] \in Costs
    OBVIOUS
  <2>2. Greater(DecayedCost(now[p]), sample[p]) \in DefaultRtt..MaxCost
    BY <2>1, DecayedCostBounds DEF Greater, Costs
  <2>3. peak' \in [Instants -> Costs]
    BY <1>7, <2>1 DEF Observe, Greater
  <2>4. missed' \in [Thread -> SUBSET Thread]
    BY <1>7 DEF Observe
  <2>5. /\ 0 \in Instants /\ 0 \in Costs
        /\ started_at' \in [Thread -> Instants]
        /\ sample' \in [Thread -> Costs]
        /\ now' \in [Thread -> Instants]
    BY <1>7 DEF Observe, Instants, Costs
  <2>6. pc' \in [Thread -> Places]
    BY <1>7 DEF Observe
  <2> QED
    BY <1>0, <1>7, <2>1, <2>2, <2>3, <2>4, <2>5, <2>6 DEF Observe
<1>8. ASSUME NEW p \in Thread, Score(p) \/ ReadCount(p)
      PROVE  TypeOK'
  BY <1>0, <1>8 DEF Score, ReadCount, estimate, attemptVars
<1>9. ASSUME NEW p \in Thread, ReadCost(p)
      PROVE  TypeOK'
  <2>1. DecayedCost(now[p]) \in DefaultRtt..MaxCost
    BY DecayedCostBounds
  <2> QED
    BY <1>0, <1>9, <2>1 DEF ReadCost, Instants, attemptVars
<1>10. CASE UNCHANGED vars
  BY <1>10 DEF vars, estimate, attemptVars
<1> QED
  BY <1>1, <1>2, <1>3, <1>4, <1>5, <1>6, <1>7, <1>8, <1>9, <1>10 DEF Next

-----------------------------------------------------------------------------
(* The estimate.                                                           *)

\* What the estimate decays to is as well explained as it was.
LEMMA DecayedIsEarned ==
  ASSUME IInv, NEW t \in Instants
  PROVE  \/ DecayedCost(t) = DefaultRtt
         \/ \E s \in Instants : DecayedCost(t) <= Decay(peak[s], Since(t, s))
<1> SUFFICES ASSUME DecayedCost(t) # DefaultRtt
             PROVE  \E s \in Instants :
                      DecayedCost(t) <= Decay(peak[s], Since(t, s))
  OBVIOUS
<1>1. /\ cost_seconds \in Costs
      /\ updated_at \in Instants
      /\ peak \in [Instants -> Costs]
  BY DEF IInv, TypeOK, Costs
<1>2. /\ DecayedCost(t) = Decay(cost_seconds, Since(t, updated_at))
      /\ DecayedCost(t) > DefaultRtt
  BY DecayedCostBounds DEF IInv, Costs
<1>3. Since(t, updated_at) \in Instants
  BY <1>1 DEF Since, Instants
<1>4. cost_seconds # DefaultRtt
  BY <1>1, <1>2, <1>3, DecayAssumption DEF Costs
<1>5. PICK s \in Instants : cost_seconds <= Decay(peak[s], Since(updated_at, s))
  BY <1>4 DEF IInv, EstimateIsEarned
<1>6. Decay(cost_seconds, Since(t, updated_at)) <= Decay(peak[s], Since(t, s))
  BY <1>1, <1>5, DecayAgain
<1> QED
  BY <1>2, <1>6

\* A larger peak explains at least as much.
LEMMA PeakGrows ==
  ASSUME NEW c \in Costs, NEW d \in Costs, NEW t \in Instants, c <= d
  PROVE  Decay(c, t) <= Decay(d, t) /\ Decay(c, t) \in Nat /\ Decay(d, t) \in Nat
  BY DecayAssumption DEF Costs

\* Every step keeps the estimate explained by the samples.
LEMMA NextEstimateIsEarned == IInv /\ [Next]_vars => EstimateIsEarned'
<1> SUFFICES ASSUME IInv, [Next]_vars
             PROVE  EstimateIsEarned'
  OBVIOUS
<1>1. ASSUME NEW p \in Thread, Observe(p)
      PROVE  EstimateIsEarned'
  <2> DEFINE t == now[p]
  <2>1. /\ t \in Instants
        /\ sample[p] \in Costs
        /\ peak \in [Instants -> Costs]
        /\ DecayedCost(t) \in Costs
    BY DecayedCostBounds DEF IInv, TypeOK, Costs
  <2>2. /\ cost_seconds' = Greater(DecayedCost(t), sample[p])
        /\ updated_at' = t
        /\ peak' = [peak EXCEPT ![t] = Greater(@, sample[p])]
    BY <1>1 DEF Observe
  <2>3. /\ \A s \in Instants : peak'[s] \in Costs /\ peak[s] <= peak'[s]
        /\ peak'[t] >= sample[p]
    BY <2>1, <2>2 DEF Greater, Costs
  <2>4. CASE cost_seconds' = sample[p]
    <3>1. Decay(peak'[t], Since(t, t)) = peak'[t]
      BY <2>1, <2>3, DecayAssumption DEF Since, Instants
    <3> QED
      BY <2>1, <2>2, <2>3, <2>4, <3>1 DEF EstimateIsEarned
  <2>5. CASE cost_seconds' = DecayedCost(t)
    <3>1. CASE DecayedCost(t) = DefaultRtt
      BY <2>5, <3>1 DEF EstimateIsEarned
    <3>2. ASSUME NEW s \in Instants, DecayedCost(t) <= Decay(peak[s], Since(t, s))
          PROVE  EstimateIsEarned'
      <4>1. Since(t, s) \in Instants
        BY <2>1 DEF Since, Instants
      <4>2. /\ Decay(peak[s], Since(t, s)) <= Decay(peak'[s], Since(t, s))
            /\ Decay(peak[s], Since(t, s)) \in Nat
            /\ Decay(peak'[s], Since(t, s)) \in Nat
        BY <2>1, <2>3, <4>1, PeakGrows
      <4>3. DecayedCost(t) <= Decay(peak'[s], Since(t, s))
        BY <2>1, <3>2, <4>2 DEF Costs
      <4> QED
        BY <2>2, <2>5, <4>3 DEF EstimateIsEarned
    <3> QED
      BY <2>1, <3>1, <3>2, DecayedIsEarned
  <2> QED
    BY <2>2, <2>4, <2>5 DEF Greater
<1>2. ASSUME NEW p \in Thread, ReadCost(p)
      PROVE  EstimateIsEarned'
  <2>1. now[p] \in Instants
    BY DEF IInv, TypeOK
  <2>2. /\ cost_seconds' = DecayedCost(now[p])
        /\ updated_at' = now[p]
        /\ peak' = peak
    BY <1>2 DEF ReadCost
  <2> QED
    BY <2>1, <2>2, DecayedIsEarned DEF EstimateIsEarned
<1>3. ASSUME UNCHANGED <<estimate, peak>>
      PROVE  EstimateIsEarned'
  BY <1>3 DEF IInv, EstimateIsEarned, estimate
<1> QED
  BY <1>1, <1>2, <1>3 DEF Next, vars, Tick, Start, Exchange, Attempt, StampStart,
     Complete, Cancel, ReadClock, Release, Report, Score, ReadCount

-----------------------------------------------------------------------------
(* The theorems.                                                           *)

\* The inductive invariant holds.
THEOREM Invariance == Spec => []IInv
<1>1. IInv /\ [Next]_vars => IInv'
  BY NextTypeOK, NextSlotsAreHeld, NextNowIsPast, NextEstimateIsEarned DEF IInv
<1> QED
  BY InitInv, <1>1, PTL DEF Spec

\* The tracker is always well typed: the counter neither passes its limit nor
\* falls below zero, and the estimate never falls below the default.
THEOREM TypeCorrect == Spec => []TypeOK
<1>1. IInv => TypeOK
  BY DEF IInv
<1> QED
  BY <1>1, Invariance, PTL

\* The counter is the number of attempts in flight (InFlight).
THEOREM SlotsHeld == Spec => []SlotsAreHeld
<1>1. IInv => SlotsAreHeld
  BY DEF IInv
<1> QED
  BY <1>1, Invariance, PTL

\* The estimate is never higher than the samples recorded explain (PeakEwma).
THEOREM EstimateEarned == Spec => []EstimateIsEarned
<1>1. IInv => EstimateIsEarned
  BY DEF IInv
<1> QED
  BY <1>1, Invariance, PTL

=============================================================================
