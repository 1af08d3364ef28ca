------------------------ MODULE CircuitBreakerProofs ------------------------
(***************************************************************************)
(* Proofs about CircuitBreaker, for any finite set of callers, any         *)
(* configuration and any clock: its types (with the bounds of its counts), *)
(* that no half-open slot is leaked, and that the cooldown is served.      *)
(***************************************************************************)
EXTENDS CircuitBreaker, FiniteSetTheorems, TLAPS

USE ConfigAssumption, MaxTimeAssumption

-----------------------------------------------------------------------------
(* The modes.                                                              *)

\* The constructors build modes as long as the counts are below their bounds.
LEMMA ModesMade ==
  /\ \A n \in 0..FailureThreshold - 1 : Closed(n) \in Modes
  /\ \A t \in Instants : Open(t) \in Modes
  /\ \A i \in 0..ProbeLimit, n \in 0..SuccessThreshold - 1 :
       HalfOpen(i, n) \in Modes
  BY DEF Modes

\* A mode is one of the three, with its counts below their bounds.
LEMMA ModeCases ==
  ASSUME NEW m \in Modes
  PROVE  \/ /\ m.state = "closed"
            /\ m.consecutive_failures \in 0..FailureThreshold - 1
            /\ m = Closed(m.consecutive_failures)
         \/ /\ m.state = "open"
            /\ m.opened_at \in Instants
            /\ m = Open(m.opened_at)
         \/ /\ m.state = "half_open"
            /\ m.in_flight \in 0..ProbeLimit
            /\ m.successes \in 0..SuccessThreshold - 1
            /\ m = HalfOpen(m.in_flight, m.successes)
  BY DEF Modes, Closed, Open, HalfOpen

\* Refreshing a mode yields a mode, unchanged unless its cooldown has elapsed.
LEMMA RefreshedMode ==
  ASSUME TypeOK, NEW t \in Instants
  PROVE  /\ Refreshed(t) \in Modes
         /\ \/ Refreshed(t) = mode
            \/ /\ Refreshed(t) = HalfOpen(0, 0)
               /\ mode.state = "open"
               /\ t >= mode.opened_at + OpenFor
  BY ModesMade DEF Refreshed, TypeOK

-----------------------------------------------------------------------------
(* Types.                                                                  *)

\* PassiveHealth::new is well typed.
LEMMA InitTypeOK == Init => TypeOK
  BY ModesMade DEF Init, TypeOK, Instants, Calls, Kinds

\* Finishing a permit leaves a mode.
LEMMA FinishedMode ==
  ASSUME TypeOK, NEW t \in Instants, NEW outcome \in Outcomes
  PROVE  /\ mode.state = "closed" => AfterAttempt(t, outcome) \in Modes
         /\ mode.state = "half_open" => AfterProbe(t, outcome) \in Modes
<1>1. mode \in Modes
  BY DEF TypeOK
<1>2. ASSUME mode.state = "closed"
      PROVE  AfterAttempt(t, outcome) \in Modes
  <2>1. mode.consecutive_failures \in 0..FailureThreshold - 1
    BY <1>1, <1>2, ModeCases
  <2> QED
    BY <1>1, <2>1, ModesMade DEF AfterAttempt, Outcomes, Failing
<1>3. ASSUME mode.state = "half_open"
      PROVE  AfterProbe(t, outcome) \in Modes
  <2>1. /\ mode.in_flight \in 0..ProbeLimit
        /\ mode.successes \in 0..SuccessThreshold - 1
    BY <1>1, <1>3, ModeCases
  <2> DEFINE left == IF mode.in_flight = 0 THEN 0 ELSE mode.in_flight - 1
  <2>2. left \in 0..ProbeLimit
    BY <2>1
  <2>3. /\ HalfOpen(left, mode.successes) \in Modes
        /\ mode.successes + 1 < SuccessThreshold =>
             HalfOpen(left, mode.successes + 1) \in Modes
    BY <2>1, <2>2, ModesMade
  <2>4. Closed(0) \in Modes /\ Open(t) \in Modes
    BY ModesMade
  <2> QED
    BY <2>1, <2>3, <2>4 DEF AfterProbe, Outcomes, Failing
<1> QED
  BY <1>2, <1>3

\* Returning from an operation keeps the types of the clock and the calls.
LEMMA ReturnTypes ==
  ASSUME TypeOK, NEW c \in Caller, Return(c)
  PROVE  /\ call' \in [Caller -> Calls]
         /\ now' \in [Caller -> Instants]
         /\ clock' \in Instants
  BY DEF TypeOK, Return, Calls, Instants

\* Every step keeps the types and the bounds of the counts.
LEMMA NextTypeOK == TypeOK /\ [Next]_vars => TypeOK'
<1> SUFFICES ASSUME TypeOK, [Next]_vars
             PROVE  TypeOK'
  OBVIOUS
<1> USE DEF TypeOK, Calls, Kinds
<1>1. CASE Tick
  BY <1>1 DEF Tick, Instants
<1>2. CASE ForceClose
  BY <1>2, ModesMade DEF ForceClose, Age, StillFresh
<1>3. ASSUME NEW c \in Caller, NEW op \in Calls \ {"none"}, Enter(c, op)
      PROVE  TypeOK'
  BY <1>3 DEF Enter
<1>4. ASSUME NEW c \in Caller, TryAcquire(c)
      PROVE  TypeOK'
  <2> DEFINE m == Refreshed(now[c])
  <2>1. m \in Modes
    BY RefreshedMode
  <2>2. m.state = "half_open" /\ m.in_flight < ProbeLimit =>
          HalfOpen(m.in_flight + 1, m.successes) \in Modes
    BY <2>1, ModeCases, ModesMade
  <2>3. mode' \in Modes
    BY <1>4, <2>1, <2>2 DEF TryAcquire
  <2>4. /\ permit' \in [Caller -> Kinds]
        /\ fresh' \in [Caller -> BOOLEAN]
    BY <1>4 DEF TryAcquire, Age, StillFresh
  <2> QED
    BY <1>4, <2>3, <2>4, ReturnTypes DEF TryAcquire
<1>5. ASSUME NEW c \in Caller, IsAvailable(c)
      PROVE  TypeOK'
  <2>1. mode' \in Modes
    BY <1>5, RefreshedMode DEF IsAvailable
  <2> QED
    BY <1>5, <2>1 DEF IsAvailable, Return, Age, StillFresh, Instants
<1>6. ASSUME NEW c \in Caller, ForceOpen(c)
      PROVE  TypeOK'
  <2>1. mode' \in Modes
    BY <1>6, ModesMade DEF ForceOpen
  <2> QED
    BY <1>6, <2>1 DEF ForceOpen, Return, Age, StillFresh, Instants
<1>7. ASSUME NEW c \in Caller, NEW outcome \in Outcomes, Finish(c, outcome)
      PROVE  TypeOK'
  <2>1. mode' \in Modes
    BY <1>7, FinishedMode DEF Finish
  <2> QED
    BY <1>7, <2>1 DEF Finish, Return, StillFresh, Instants
<1>8. CASE UNCHANGED vars
  BY <1>8 DEF vars
<1> QED
  BY <1>1, <1>2, <1>3, <1>4, <1>5, <1>6, <1>7, <1>8 DEF Next, Locked

\* The circuit always has its type: in particular its counts never reach their
\* thresholds, whatever the configuration, so they cannot overflow either.
THEOREM TypeCorrect == Spec => []TypeOK
  BY InitTypeOK, NextTypeOK, PTL DEF Spec

-----------------------------------------------------------------------------
(* No half-open slot is leaked.                                            *)

\* There are finitely many probes, so their number is a number ...
LEMMA ProbesFinite == IsFiniteSet(Probes) /\ Cardinality(Probes) \in Nat
<1>1. IsFiniteSet(Probes)
  BY CallerAssumption, FS_Subset DEF Probes
<1> QED
  BY <1>1, FS_CardinalityType

\* ... which grows or shrinks by one.
LEMMA ProbeCount ==
  ASSUME NEW c \in Caller
  PROVE  /\ c \notin Probes =>
              Cardinality(Probes \cup {c}) = Cardinality(Probes) + 1
         /\ c \in Probes =>
              Cardinality(Probes \ {c}) = Cardinality(Probes) - 1
  BY ProbesFinite, FS_AddElement, FS_RemoveElement

\* The probes there are after a caller's permit has changed.
LEMMA ProbesNext ==
  ASSUME TypeOK, NEW c \in Caller, NEW k \in Kinds,
         permit' = [permit EXCEPT ![c] = k]
  PROVE  Probes' = IF k = "probe" THEN Probes \cup {c} ELSE Probes \ {c}
  BY DEF TypeOK, Probes

\* Whether a caller in an operation holds a permit, and how old its instant is.
LEMMA NextCalls ==
  TypeOK /\ NowIsPast /\ PermitsMatchCalls /\ [Next]_vars =>
    NowIsPast' /\ PermitsMatchCalls'
<1> SUFFICES ASSUME TypeOK, NowIsPast, PermitsMatchCalls, [Next]_vars
             PROVE  NowIsPast' /\ PermitsMatchCalls'
  OBVIOUS
<1> USE DEF TypeOK, Instants, NowIsPast, PermitsMatchCalls
<1>1. CASE Tick \/ ForceClose \/ UNCHANGED vars
  BY <1>1 DEF Tick, ForceClose, vars
<1>2. ASSUME NEW c \in Caller, NEW op \in Calls \ {"none"}, Enter(c, op)
      PROVE  NowIsPast' /\ PermitsMatchCalls'
  BY <1>2 DEF Enter
<1>3. ASSUME NEW c \in Caller, Locked(c)
      PROVE  NowIsPast' /\ PermitsMatchCalls'
  BY <1>3 DEF Locked, TryAcquire, IsAvailable, ForceOpen, Finish, Return
<1> QED
  BY <1>1, <1>2, <1>3 DEF Next

\* Every step keeps the slots taken below the probes held.
LEMMA NextNoLeakedSlot ==
  TypeOK /\ PermitsMatchCalls /\ NoLeakedSlot /\ [Next]_vars => NoLeakedSlot'
<1> SUFFICES ASSUME TypeOK, PermitsMatchCalls, NoLeakedSlot, [Next]_vars
             PROVE  NoLeakedSlot'
  OBVIOUS
<1>0. /\ mode \in Modes
      /\ \A c \in Caller : permit[c] \in Kinds /\ now[c] \in Instants
      /\ Cardinality(Probes) \in Nat
      /\ HalfOpen(0, 0).in_flight = 0
  BY ProbesFinite DEF TypeOK, HalfOpen
<1>1. ASSUME UNCHANGED permit, mode' = mode \/ mode'.state # "half_open"
      PROVE  NoLeakedSlot'
  BY <1>1 DEF NoLeakedSlot, Probes
<1>2. ASSUME NEW c \in Caller, mode' = Refreshed(now[c]), UNCHANGED permit
      PROVE  NoLeakedSlot'
  BY <1>0, <1>1, <1>2, RefreshedMode DEF NoLeakedSlot, Probes
<1>3. ASSUME NEW c \in Caller, TryAcquire(c)
      PROVE  NoLeakedSlot'
  <2> DEFINE m == Refreshed(now[c])
  <2>1. CASE m.state = "closed" /\ mode' = m
    BY <2>1 DEF NoLeakedSlot
  <2>2. CASE /\ m.state = "half_open"
             /\ mode' = HalfOpen(m.in_flight + 1, m.successes)
             /\ permit' = [permit EXCEPT ![c] = "probe"]
    <3>1. m.in_flight <= Cardinality(Probes)
      BY <1>0, <2>2, RefreshedMode DEF NoLeakedSlot
    <3>2. c \notin Probes
      BY <1>3 DEF TryAcquire, PermitsMatchCalls, Probes
    <3>3. Cardinality(Probes') = Cardinality(Probes) + 1
      BY <2>2, <3>2, ProbeCount, ProbesNext DEF Kinds
    <3>4. m.in_flight \in Nat
      BY <1>0, <2>2, RefreshedMode, ModeCases
    <3> QED
      BY <1>0, <2>2, <3>1, <3>3, <3>4 DEF NoLeakedSlot, HalfOpen
  <2> QED
    BY <1>2, <1>3, <2>1, <2>2 DEF TryAcquire
<1>4. ASSUME NEW c \in Caller, NEW outcome \in Outcomes, Finish(c, outcome)
      PROVE  NoLeakedSlot'
  <2>1. permit' = [permit EXCEPT ![c] = "none"]
    BY <1>4 DEF Finish
  <2>2. Probes' = Probes \ {c}
    BY <2>1, ProbesNext DEF Kinds
  <2>3. CASE permit[c] = "probe" /\ mode.state = "half_open"
    <3>1. Cardinality(Probes') = Cardinality(Probes) - 1
      BY <2>2, <2>3, ProbeCount DEF Probes
    <3>2. mode.in_flight \in Nat
      BY <1>0, <2>3, ModeCases
    <3>3. mode' = AfterProbe(now[c], outcome)
      BY <1>4, <2>3 DEF Finish
    <3> DEFINE left == IF mode.in_flight = 0 THEN 0 ELSE mode.in_flight - 1
    <3>4. left <= Cardinality(Probes')
      <4>1. mode.in_flight <= Cardinality(Probes)
        BY <2>3 DEF NoLeakedSlot
      <4>2. Cardinality(Probes') \in Nat
        BY <1>0, <2>2, CallerAssumption, FS_Subset, FS_CardinalityType DEF Probes
      <4> QED
        BY <1>0, <3>1, <3>2, <4>1, <4>2
    <3>5. mode'.state = "half_open" => mode'.in_flight = left
      BY <3>3 DEF AfterProbe, Closed, Open, HalfOpen, Outcomes, Failing
    <3> QED
      BY <3>4, <3>5 DEF NoLeakedSlot
  <2>4. CASE permit[c] # "probe"
    <3>1. Probes' = Probes
      BY <2>2, <2>4 DEF Probes
    <3>2. mode' = mode \/ mode'.state # "half_open"
      BY <1>4, <2>4 DEF Finish, AfterAttempt, Closed, Open, Outcomes, Failing
    <3> QED
      BY <3>1, <3>2 DEF NoLeakedSlot
  <2>5. CASE mode.state # "half_open"
    <3>1. mode'.state # "half_open"
      BY <1>4, <2>5 DEF Finish, AfterAttempt, Closed, Open, Outcomes, Failing
    <3> QED
      BY <3>1 DEF NoLeakedSlot
  <2> QED
    BY <2>3, <2>4, <2>5
<1>5. CASE Tick \/ UNCHANGED vars
  BY <1>1, <1>5 DEF Tick, vars
<1>6. CASE ForceClose
  BY <1>1, <1>6 DEF ForceClose, Closed
<1>7. ASSUME NEW c \in Caller, NEW op \in Calls, Enter(c, op)
      PROVE  NoLeakedSlot'
  BY <1>1, <1>7 DEF Enter
<1>8. ASSUME NEW c \in Caller, IsAvailable(c)
      PROVE  NoLeakedSlot'
  BY <1>2, <1>8 DEF IsAvailable
<1>9. ASSUME NEW c \in Caller, ForceOpen(c)
      PROVE  NoLeakedSlot'
  BY <1>1, <1>9 DEF ForceOpen, Open
<1> QED
  BY <1>3, <1>4, <1>5, <1>6, <1>7, <1>8, <1>9 DEF Next, Locked

\* The inductive invariant holds of every execution.
THEOREM Invariance == Spec => []IInv
<1>1. Init => IInv
  BY InitTypeOK DEF Init, IInv, NowIsPast, PermitsMatchCalls, NoLeakedSlot, Closed
<1>2. IInv /\ [Next]_vars => IInv'
  BY NextTypeOK, NextCalls, NextNoLeakedSlot DEF IInv
<1> QED
  BY <1>1, <1>2, PTL DEF Spec

\* No half-open slot is leaked, for any number of attempts and any thresholds.
THEOREM NoSlotIsLeaked == Spec => []NoLeakedSlot
<1>1. IInv => NoLeakedSlot
  BY DEF IInv
<1> QED
  BY <1>1, Invariance, PTL

-----------------------------------------------------------------------------
(* The cooldown is served.                                                 *)

\* The condition CooldownIsServed puts on every step.
CooldownStep ==
  /\ mode.state = "open" /\ mode'.state = "half_open" =>
       clock >= mode.opened_at + OpenFor
  /\ mode.state = "open" /\ mode'.state = "closed" =>
       mode' = Closed(0) /\ call' = call /\ permit' = permit
  /\ mode.state = "closed" => mode'.state # "half_open"

\* A step that changes nothing but possibly refreshes serves the cooldown.
LEMMA RefreshServes ==
  ASSUME TypeOK, NowIsPast, NEW c \in Caller,
         mode'.state = Refreshed(now[c]).state
  PROVE  CooldownStep
<1>1. /\ now[c] \in Instants
      /\ clock \in Instants
      /\ mode \in Modes
      /\ now[c] <= clock
  BY DEF TypeOK, NowIsPast
<1>2. mode.state = "open" => mode.opened_at \in Instants
  BY <1>1, ModeCases
<1> QED
  BY <1>1, <1>2, RefreshedMode DEF CooldownStep, HalfOpen, Instants

\* Every step of the circuit serves the cooldown.
LEMMA NextCooldown == TypeOK /\ NowIsPast /\ [Next]_vars => CooldownStep
<1> SUFFICES ASSUME TypeOK, NowIsPast, [Next]_vars
             PROVE  CooldownStep
  OBVIOUS
<1>1. CASE Tick \/ UNCHANGED vars
  BY <1>1 DEF Tick, vars, CooldownStep
<1>2. CASE ForceClose
  BY <1>2 DEF ForceClose, Closed, CooldownStep
<1>3. ASSUME NEW c \in Caller, NEW op \in Calls, Enter(c, op)
      PROVE  CooldownStep
  BY <1>3 DEF Enter, CooldownStep
<1>4. ASSUME NEW c \in Caller, TryAcquire(c) \/ IsAvailable(c)
      PROVE  CooldownStep
  BY <1>4, RefreshServes DEF TryAcquire, IsAvailable, HalfOpen
<1>5. ASSUME NEW c \in Caller, ForceOpen(c)
      PROVE  CooldownStep
  BY <1>5 DEF ForceOpen, Open, CooldownStep
<1>6. ASSUME NEW c \in Caller, NEW outcome \in Outcomes, Finish(c, outcome)
      PROVE  CooldownStep
  BY <1>6 DEF Finish, AfterAttempt, Closed, Open, CooldownStep, Outcomes, Failing
<1> QED
  BY <1>1, <1>2, <1>3, <1>4, <1>5, <1>6 DEF Next, Locked

\* The circuit leaves the open state only after its cooldown, by the real clock,
\* or when it is forced closed, and becomes half-open from no other state.
THEOREM CooldownServed == Spec => CooldownIsServed
<1>1. IInv /\ [Next]_vars => [CooldownStep]_vars
  BY NextCooldown DEF IInv
<1> QED
  BY <1>1, Invariance, PTL DEF Spec, CooldownIsServed, CooldownStep

=============================================================================
