------------------------- MODULE ActiveHealthProofs -------------------------
(***************************************************************************)
(* Proofs about ActiveHealth, for any set of runners, any thresholds and   *)
(* any interval: one reservation counts at a time, a streak shows in the   *)
(* status, stale probes are ignored, and completions are spaced.           *)
(***************************************************************************)
EXTENDS ActiveHealth, TLAPS

USE ConfigAssumption, BoundsAssumption DEF Never

-----------------------------------------------------------------------------
(* The locked steps of the state machine.                                  *)

\* A saturating addition stays in range and reaches no less than before.
LEMMA SaturatedRange ==
  ASSUME NEW n \in 0..MaxCount
  PROVE  /\ Saturated(n) \in 1..MaxCount
         /\ n = MaxCount => Saturated(n) = n
         /\ n < MaxCount => Saturated(n) = n + 1
  BY DEF Saturated

\* The flag stays a Boolean.
LEMMA FinishFlag ==
  ASSUME TypeOK, NEW g, NEW result, NEW t, FinishAt(g, result, t)
  PROVE  in_flight' \in BOOLEAN
<1>1. CASE g # generation \/ ~in_flight
  BY <1>1 DEF TypeOK, FinishAt, healthVars
<1>2. CASE ~(g # generation \/ ~in_flight)
  <2>1. in_flight' = FALSE
    BY <1>2 DEF FinishAt
  <2> QED
    BY <2>1
<1> QED
  BY <1>1, <1>2

\* A verdict that counts releases the reservation and keeps the types.
LEMMA FinishTypes ==
  ASSUME TypeOK, NEW g, NEW result \in Verdicts, NEW t \in Instants,
         FinishAt(g, result, t)
  PROVE  /\ status' \in Statuses
         /\ consecutive_healthy' \in 0..MaxCount
         /\ consecutive_unhealthy' \in 0..MaxCount
         /\ in_flight' \in BOOLEAN
         /\ last_finished' \in Never..MaxTime
         /\ generation' = generation
<1> USE DEF TypeOK, FinishAt, Statuses, Instants
<1>0. in_flight' \in BOOLEAN
  BY FinishFlag
<1>1. CASE g # generation \/ ~in_flight
  BY <1>1 DEF healthVars
<1>2. CASE ~(g # generation \/ ~in_flight) /\ result = "healthy"
  BY <1>0, <1>2, SaturatedRange
<1>3. CASE ~(g # generation \/ ~in_flight) /\ result = "unhealthy"
  BY <1>0, <1>3, SaturatedRange
<1>4. CASE ~(g # generation \/ ~in_flight) /\ result = "none"
  BY <1>0, <1>4
<1> QED
  BY <1>1, <1>2, <1>3, <1>4 DEF Verdicts

\* A verdict preserves the agreement between streaks and status.
LEMMA FinishStreaks ==
  ASSUME TypeOK, StreakDecides, NEW g, NEW result \in Verdicts,
         NEW t \in Instants, FinishAt(g, result, t)
  PROVE  StreakDecides'
<1> USE DEF TypeOK, FinishAt, StreakDecides
<1>1. CASE g # generation \/ ~in_flight
  BY <1>1 DEF healthVars
<1>2. CASE ~(g # generation \/ ~in_flight) /\ result = "healthy"
  BY <1>2, SaturatedRange
<1>3. CASE ~(g # generation \/ ~in_flight) /\ result = "unhealthy"
  BY <1>3, SaturatedRange
<1>4. CASE ~(g # generation \/ ~in_flight) /\ result = "none"
  BY <1>4
<1> QED
  BY <1>1, <1>2, <1>3, <1>4 DEF Verdicts

-----------------------------------------------------------------------------
(* Types.                                                                  *)

\* ActiveHealth::new is well typed.
LEMMA InitTypeOK == Init => TypeOK
<1> SUFFICES ASSUME Init
             PROVE  TypeOK
  OBVIOUS
<1>1. in_flight \in BOOLEAN
  BY DEF Init
<1> QED
  BY <1>1 DEF Init, TypeOK, Statuses, Verdicts, Places, Instants

\* The time until the next probe is a duration.
LEMMA DueInType ==
  ASSUME TypeOK, NEW t \in Instants
  PROVE  /\ DueIn(t) \in Nat
         /\ DueIn(t) = 0 /\ last_finished # Never =>
              t >= last_finished + Interval
  BY DEF TypeOK, DueIn, Instants

\* Every step keeps the types.
LEMMA NextTypeOK == TypeOK /\ [Next]_vars => TypeOK'
<1> SUFFICES ASSUME TypeOK, [Next]_vars
             PROVE  TypeOK'
  OBVIOUS
<1> USE DEF TypeOK, Places, Go, healthVars, runnerVars
<1>1. CASE Tick
  BY <1>1 DEF Tick, Instants
<1>2. ASSUME NEW s \in Statuses, ForceStatus(s)
      PROVE  TypeOK'
  <2>1. in_flight' \in BOOLEAN
    BY <1>2 DEF ForceStatus
  <2> QED
    BY <1>2, <2>1 DEF ForceStatus
<1>3. ASSUME NEW r \in Runner, ReadClock(r)
      PROVE  TypeOK'
  BY <1>3 DEF ReadClock
<1>4. ASSUME NEW r \in Runner, TryStart(r)
      PROVE  TypeOK'
  <2>1. DueIn(now[r]) \in Nat /\ clock \in Nat
    BY DueInType DEF Instants
  <2>2. in_flight' \in BOOLEAN
    BY <1>4 DEF TryStart
  <2>3. pc' \in [Runner -> Places]
    BY <1>4 DEF TryStart
  <2>4. until' \in [Runner -> Nat]
    <3>1. clock + Timeout \in Nat /\ clock + DueIn(now[r]) \in Nat
      BY <2>1
    <3> QED
      BY <1>4, <3>1 DEF TryStart
  <2>5. reserved' \in [Runner -> 0..MaxGeneration]
    BY <1>4 DEF TryStart
  <2>6. stale' \in [Runner -> BOOLEAN]
    BY <1>4 DEF TryStart
  <2> QED
    BY <1>4, <2>2, <2>3, <2>4, <2>5, <2>6 DEF TryStart
<1>5. ASSUME NEW r \in Runner, NEW result \in Verdicts, Conclude(r, result)
      PROVE  TypeOK'
  BY <1>5 DEF Conclude
<1>6. ASSUME NEW r \in Runner, DropSleeping(r)
      PROVE  TypeOK'
  BY <1>6 DEF DropSleeping
<1>7. ASSUME NEW r \in Runner, Finish(r)
      PROVE  TypeOK'
  <2>1. /\ status' \in Statuses
        /\ consecutive_healthy' \in 0..MaxCount
        /\ consecutive_unhealthy' \in 0..MaxCount
        /\ in_flight' \in BOOLEAN
        /\ last_finished' \in Never..MaxTime
        /\ generation' = generation
    BY <1>7, FinishTypes DEF Finish
  <2>2. /\ pc' \in [Runner -> Places]
        /\ now' \in [Runner -> Instants]
        /\ until' \in [Runner -> Nat]
        /\ reserved' \in [Runner -> 0..MaxGeneration]
        /\ verdict' \in [Runner -> Verdicts]
        /\ stale' \in [Runner -> BOOLEAN]
    BY <1>7 DEF Finish, Instants, Verdicts
  <2> QED
    BY <1>7, <2>1, <2>2 DEF Finish
<1>8. CASE UNCHANGED vars
  BY <1>8 DEF vars
<1> QED
  BY <1>1, <1>2, <1>3, <1>4, <1>5, <1>6, <1>7, <1>8
  DEF Next, ProbeReturns, ProbeTimesOut, DropProbing, Verdicts

\* The health state and its runners always have their types.
THEOREM TypeCorrect == Spec => []TypeOK
  BY InitTypeOK, NextTypeOK, PTL DEF Spec

-----------------------------------------------------------------------------
(* The inductive invariant.                                                *)

\* The invariant without its types.
Inv ==
  /\ OneReservation
  /\ StreakDecides
  /\ StaleByGeneration
  /\ ReservedWhenDue

\* Nothing is reserved in the initial state.
LEMMA InitInv == Init => Inv
  BY DEF Init, Inv, OneReservation, StreakDecides, StaleByGeneration,
         ReservedWhenDue, Holds, Current, Never

\* Every step keeps the invariant.
LEMMA NextInv == TypeOK /\ Inv /\ [Next]_vars => Inv'
<1> SUFFICES ASSUME TypeOK, Inv, [Next]_vars
             PROVE  Inv'
  OBVIOUS
<1> USE DEF TypeOK, Places, Go, healthVars, runnerVars, Holds, Current, Never,
            Instants
<1> USE DEF Inv, OneReservation, StaleByGeneration, ReservedWhenDue
<1>1. CASE Tick
  BY <1>1 DEF Tick, StreakDecides
<1>2. ASSUME NEW s \in Statuses, ForceStatus(s)
      PROVE  Inv'
  BY <1>2 DEF ForceStatus, StreakDecides
<1>3. ASSUME NEW r \in Runner, ReadClock(r)
      PROVE  Inv'
  BY <1>3 DEF ReadClock, StreakDecides
<1>4. ASSUME NEW r \in Runner, TryStart(r)
      PROVE  Inv'
  <2>1. CASE in_flight' = in_flight /\ ~Holds(r)'
    BY <1>4, <2>1 DEF TryStart, StreakDecides
  <2>2. CASE ~in_flight /\ DueIn(now[r]) = 0 /\ in_flight' = TRUE
    <3>1. /\ pc[r] = "trying"
          /\ pc' = [pc EXCEPT ![r] = "probing"]
          /\ reserved' = [reserved EXCEPT ![r] = generation]
          /\ stale' = [stale EXCEPT ![r] = FALSE]
          /\ UNCHANGED <<status, consecutive_healthy, consecutive_unhealthy,
                         last_finished, generation, clock, now>>
      BY <1>4, <2>2 DEF TryStart
    <3>2. last_finished # Never => now[r] >= last_finished + Interval
      BY <2>2, DueInType
    <3>3. OneReservation'
      BY <2>2, <3>1
    <3>4. StaleByGeneration' /\ ReservedWhenDue'
      BY <2>2, <3>1, <3>2
    <3> QED
      BY <3>1, <3>3, <3>4 DEF StreakDecides
  <2> QED
    BY <1>4, <2>1, <2>2 DEF TryStart
<1>5. ASSUME NEW r \in Runner, NEW result \in Verdicts, pc[r] = "probing",
             Conclude(r, result)
      PROVE  Inv'
  BY <1>5 DEF Conclude, StreakDecides
<1>6. ASSUME NEW r \in Runner, DropSleeping(r)
      PROVE  Inv'
  BY <1>6 DEF DropSleeping, StreakDecides
<1>7. ASSUME NEW r \in Runner, Finish(r)
      PROVE  Inv'
  <2>1. StreakDecides'
    BY <1>7, FinishStreaks DEF Finish
  <2>2. generation' = generation
    BY <1>7, FinishTypes DEF Finish
  <2>3. CASE reserved[r] # generation \/ ~in_flight
    <3>1. UNCHANGED healthVars
      BY <1>7, <2>3 DEF Finish, FinishAt
    <3> QED
      BY <1>7, <2>1, <2>3, <3>1 DEF Finish
  <2>4. CASE reserved[r] = generation /\ in_flight
    <3>1. in_flight' = FALSE /\ last_finished' = now[r]
      BY <1>7, <2>4 DEF Finish, FinishAt
    <3> QED
      BY <1>7, <2>1, <2>2, <2>4, <3>1 DEF Finish
  <2> QED
    BY <2>3, <2>4
<1>8. CASE UNCHANGED vars
  BY <1>8 DEF vars, StreakDecides
<1> QED
  BY <1>1, <1>2, <1>3, <1>4, <1>5, <1>6, <1>7, <1>8
  DEF Next, ProbeReturns, ProbeTimesOut, DropProbing, Verdicts

\* The inductive invariant holds of every execution.
THEOREM Invariance == Spec => []IInv
<1>1. TypeOK /\ Inv <=> IInv
  BY DEF IInv, Inv
<1> QED
  BY <1>1, InitTypeOK, NextTypeOK, InitInv, NextInv, PTL DEF Spec

\* At most one reservation counts, and the flag says whether one does.
THEOREM OneReservationCounts == Spec => []OneReservation
<1>1. IInv => OneReservation
  BY DEF IInv
<1> QED
  BY <1>1, Invariance, PTL

\* A streak that reached its threshold shows in the status.
THEOREM StreaksDecide == Spec => []StreakDecides
<1>1. IInv => StreakDecides
  BY DEF IInv
<1> QED
  BY <1>1, Invariance, PTL

-----------------------------------------------------------------------------
(* Action properties.                                                      *)

\* A step in which a stale probe ends leaves the health state alone.
StaleStep ==
  \A r \in Runner :
    pc[r] = "finishing" /\ pc'[r] = "idle" /\ stale[r] => UNCHANGED healthVars

\* A step that records a completion does so an interval after the last one.
SpacedStep ==
  last_finished' # last_finished /\ last_finished # Never =>
    last_finished' >= last_finished + Interval

\* Only the end of a probe makes its runner idle again, and only it records a
\* completion.
LEMMA NextStep == IInv /\ [Next]_vars => StaleStep /\ SpacedStep
<1> SUFFICES ASSUME IInv, [Next]_vars
             PROVE  StaleStep /\ SpacedStep
  OBVIOUS
<1> USE DEF IInv, TypeOK, StaleStep, SpacedStep, healthVars, runnerVars, Go
<1>1. CASE Tick \/ UNCHANGED vars
  BY <1>1 DEF Tick, vars
<1>2. ASSUME NEW s \in Statuses, ForceStatus(s)
      PROVE  StaleStep /\ SpacedStep
  BY <1>2 DEF ForceStatus
<1>3. ASSUME NEW r \in Runner, ReadClock(r) \/ TryStart(r) \/ DropSleeping(r)
      PROVE  StaleStep /\ SpacedStep
  BY <1>3 DEF ReadClock, TryStart, DropSleeping
<1>4. ASSUME NEW r \in Runner, NEW result \in Verdicts, pc[r] = "probing",
             Conclude(r, result)
      PROVE  StaleStep /\ SpacedStep
  BY <1>4 DEF Conclude
<1>5. ASSUME NEW r \in Runner, Finish(r)
      PROVE  StaleStep /\ SpacedStep
  <2>1. CASE reserved[r] # generation \/ ~in_flight
    BY <1>5, <2>1 DEF Finish, FinishAt
  <2>2. CASE reserved[r] = generation /\ in_flight
    <3>1. Current(r) /\ ~stale[r] /\ last_finished' = now[r]
      BY <1>5, <2>2 DEF Finish, FinishAt, Current, Holds, StaleByGeneration
    <3>2. SpacedStep
      BY <3>1 DEF ReservedWhenDue
    <3>3. StaleStep
      BY <1>5, <3>1 DEF Finish
    <3> QED
      BY <3>2, <3>3
  <2> QED
    BY <2>1, <2>2
<1> QED
  BY <1>1, <1>2, <1>3, <1>4, <1>5
  DEF Next, ProbeReturns, ProbeTimesOut, DropProbing, Verdicts

\* A probe reserved before a status was forced changes nothing when it ends.
THEOREM StaleIgnored == Spec => StaleProbesAreIgnored
<1>1. IInv /\ [Next]_vars => [StaleStep]_vars
  BY NextStep
<1> QED
  BY <1>1, Invariance, PTL DEF Spec, StaleProbesAreIgnored, StaleStep

\* Recorded completions are at least an interval apart.
THEOREM CompletionsSpaced == Spec => CompletionsAreSpaced
<1>1. IInv /\ [Next]_vars => [SpacedStep]_vars
  BY NextStep
<1> QED
  BY <1>1, Invariance, PTL DEF Spec, CompletionsAreSpaced, SpacedStep

=============================================================================
