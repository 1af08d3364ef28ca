---------------------------- MODULE ActiveHealth ----------------------------
(***************************************************************************)
(* The active-health state machine of poise-health (ActiveHealth) and the  *)
(* runners of poise-tokio that drive it (ActiveHealthRunner::run_once).    *)
(*                                                                         *)
(* Any number of runners share one state.  A runner reads the clock, then  *)
(* takes the lock; it sleeps until the probe is due, reserves it, awaits   *)
(* it under a timeout, and commits the verdict.  Its future may be dropped *)
(* at either await, and an operator may force a status at any moment.      *)
(*                                                                         *)
(* The history variable stale remembers, without looking at generations,   *)
(* whether a status was forced since a runner made its reservation.        *)
(***************************************************************************)
EXTENDS Integers

CONSTANTS
  Runner,              \* the runners sharing the health state
  Untimed,             \* the runners configured without_timeout()
  Cancelling,          \* the runners whose timeout policy is Cancel
  HealthyThreshold,    \* healthy_threshold
  UnhealthyThreshold,  \* unhealthy_threshold
  Interval,            \* interval, in clock ticks
  Timeout,             \* timeout of the other runners, in clock ticks
  MaxCount,            \* the largest value of a counter (u32::MAX in the code)
  MaxGeneration,       \* how often a status is forced (bounds the model)
  MaxTime              \* the last instant of the clock (bounds the model)

ASSUME RunnerAssumption == Untimed \subseteq Runner /\ Cancelling \subseteq Runner
ASSUME ConfigAssumption ==
  /\ MaxCount \in Nat
  /\ HealthyThreshold \in 1..MaxCount
  /\ UnhealthyThreshold \in 1..MaxCount
  /\ Interval \in Nat \ {0}
  /\ Timeout \in Nat \ {0}
ASSUME BoundsAssumption == MaxGeneration \in Nat /\ MaxTime \in Nat

VARIABLES
  status,
  consecutive_healthy,
  consecutive_unhealthy,
  in_flight,
  last_finished,  \* instant of the last completion, or Never
  generation,     \* wraps at 2^64 in the code, which no run of it reaches
  clock,          \* the monotonic clock
  pc,             \* where each runner is in run_once
  now,            \* the instant each runner read last
  until,          \* the deadline of its sleep or of its timeout
  reserved,       \* the generation of its reservation
  verdict,        \* the result it is about to commit
  stale           \* a status was forced since it made its reservation

healthVars == <<status, consecutive_healthy, consecutive_unhealthy, in_flight,
                last_finished, generation>>
runnerVars == <<pc, now, until, reserved, verdict, stale>>
vars       == <<healthVars, clock, runnerVars>>

Never    == -1
Statuses == {"unknown", "healthy", "unhealthy"}
Verdicts == {"none", "healthy", "unhealthy"}
Places   == {"idle", "trying", "sleeping", "probing", "finishing"}
Instants == 0..MaxTime

TypeOK ==
  /\ status \in Statuses
  /\ consecutive_healthy \in 0..MaxCount
  /\ consecutive_unhealthy \in 0..MaxCount
  /\ in_flight \in BOOLEAN
  /\ last_finished \in Never..MaxTime
  /\ generation \in 0..MaxGeneration
  /\ clock \in Instants
  /\ pc \in [Runner -> Places]
  /\ now \in [Runner -> Instants]
  /\ until \in [Runner -> Nat]
  /\ reserved \in [Runner -> 0..MaxGeneration]
  /\ verdict \in [Runner -> Verdicts]
  /\ stale \in [Runner -> BOOLEAN]

Init ==
  /\ status = "unknown"
  /\ consecutive_healthy = 0
  /\ consecutive_unhealthy = 0
  /\ in_flight = FALSE
  /\ last_finished = Never
  /\ generation = 0
  /\ clock = 0
  /\ pc = [r \in Runner |-> "idle"]
  /\ now = [r \in Runner |-> 0]
  /\ until = [r \in Runner |-> 0]
  /\ reserved = [r \in Runner |-> 0]
  /\ verdict = [r \in Runner |-> "none"]
  /\ stale = [r \in Runner |-> FALSE]

Tick ==
  /\ clock < MaxTime
  /\ clock' = clock + 1
  /\ UNCHANGED <<healthVars, runnerVars>>

Go(r, place) == pc' = [pc EXCEPT ![r] = place]

-----------------------------------------------------------------------------
(* The state machine.                                                      *)

\* Mutant of DueIn: due one tick before the interval is over.
DueInEarly(t) ==
  IF last_finished = Never \/ t + 1 >= last_finished + Interval
    THEN 0
    ELSE IF t < last_finished THEN Interval ELSE last_finished + Interval - t

\* Time until the next probe is due at instant t; an instant before the last
\* completion counts as that completion.
DueIn(t) ==
  IF last_finished = Never \/ t >= last_finished + Interval
    THEN 0
    ELSE IF t < last_finished THEN Interval ELSE last_finished + Interval - t

\* Mutant of Saturated: an unchecked addition.
SaturatedNot(n) == n + 1

Saturated(n) == IF n = MaxCount THEN n ELSE n + 1

\* Mutants of ForceStatus: the reservation survives ...
ForceStatusReserved(s) ==
  /\ generation < MaxGeneration
  /\ status' = s
  /\ consecutive_healthy' = 0
  /\ consecutive_unhealthy' = 0
  /\ generation' = generation + 1
  /\ stale' = [r \in Runner |-> TRUE]
  /\ UNCHANGED <<in_flight, last_finished, clock, pc, now, until, reserved,
                 verdict>>

\* ... or the streaks do.
ForceStatusCounting(s) ==
  /\ generation < MaxGeneration
  /\ status' = s
  /\ in_flight' = FALSE
  /\ generation' = generation + 1
  /\ stale' = [r \in Runner |-> TRUE]
  /\ UNCHANGED <<consecutive_healthy, consecutive_unhealthy, last_finished,
                 clock, pc, now, until, reserved, verdict>>

ForceStatus(s) ==
  /\ generation < MaxGeneration
  /\ status' = s
  /\ consecutive_healthy' = 0
  /\ consecutive_unhealthy' = 0
  /\ in_flight' = FALSE
  /\ generation' = generation + 1
  /\ stale' = [r \in Runner |-> TRUE]
  /\ UNCHANGED <<last_finished, clock, pc, now, until, reserved, verdict>>

\* Mutants of FinishAt: the generation is not compared ...
FinishAtAny(g, result, t) ==
  IF ~in_flight
    THEN UNCHANGED healthVars
    ELSE /\ in_flight' = FALSE
         /\ last_finished' = t
         /\ UNCHANGED <<status, consecutive_healthy, consecutive_unhealthy,
                        generation>>

\* ... or a cancelled probe returns early and keeps its reservation.
FinishAtLeaking(g, result, t) ==
  IF g # generation \/ ~in_flight \/ result = "none"
    THEN UNCHANGED healthVars
    ELSE /\ in_flight' = FALSE
         /\ last_finished' = t
         /\ UNCHANGED <<status, consecutive_healthy, consecutive_unhealthy,
                        generation>>

\* finish_at: a reservation of another generation, or one already released,
\* changes nothing; a cancelled one changes no classification.
FinishAt(g, result, t) ==
  IF g # generation \/ ~in_flight
    THEN UNCHANGED healthVars
    ELSE /\ in_flight' = FALSE
         /\ last_finished' = t
         /\ CASE result = "healthy" ->
                   /\ consecutive_unhealthy' = 0
                   /\ consecutive_healthy' = Saturated(consecutive_healthy)
                   /\ status' = IF consecutive_healthy' >= HealthyThreshold
                                  THEN "healthy" ELSE status
              [] result = "unhealthy" ->
                   /\ consecutive_healthy' = 0
                   /\ consecutive_unhealthy' = Saturated(consecutive_unhealthy)
                   /\ status' = IF consecutive_unhealthy' >= UnhealthyThreshold
                                  THEN "unhealthy" ELSE status
              [] OTHER ->
                   UNCHANGED <<status, consecutive_healthy, consecutive_unhealthy>>
         /\ UNCHANGED generation

-----------------------------------------------------------------------------
(* A runner.                                                               *)

\* run_once, at the head of its loop.
ReadClock(r) ==
  /\ \/ pc[r] = "idle"
     \/ pc[r] = "sleeping" /\ clock >= until[r]
  /\ Go(r, "trying")
  /\ now' = [now EXCEPT ![r] = clock]
  /\ UNCHANGED <<healthVars, clock, until, reserved, verdict, stale>>

\* try_start_probe_at: refused while a probe runs, put off until it is due,
\* or granted, in which case the probe and its timer are started.
TryStart(r) ==
  /\ pc[r] = "trying"
  /\ \/ /\ in_flight
        /\ Go(r, "idle")
        /\ UNCHANGED <<in_flight, until, reserved, stale>>
     \/ /\ ~in_flight
        /\ DueIn(now[r]) > 0
        /\ until' = [until EXCEPT ![r] = clock + DueIn(now[r])]
        /\ Go(r, "sleeping")
        /\ UNCHANGED <<in_flight, reserved, stale>>
     \/ /\ ~in_flight
        /\ DueIn(now[r]) = 0
        /\ in_flight' = TRUE
        /\ reserved' = [reserved EXCEPT ![r] = generation]
        /\ stale' = [stale EXCEPT ![r] = FALSE]
        /\ until' = [until EXCEPT ![r] = clock + Timeout]
        /\ Go(r, "probing")
  /\ UNCHANGED <<status, consecutive_healthy, consecutive_unhealthy,
                 last_finished, generation, clock, now, verdict>>

\* A reservation that ends reads the clock before it takes the lock.
Conclude(r, result) ==
  /\ Go(r, "finishing")
  /\ verdict' = [verdict EXCEPT ![r] = result]
  /\ now' = [now EXCEPT ![r] = clock]
  /\ UNCHANGED <<healthVars, clock, until, reserved, stale>>

ProbeReturns(r, result) ==
  /\ pc[r] = "probing"
  /\ Conclude(r, result)

ProbeTimesOut(r) ==
  /\ pc[r] = "probing"
  /\ r \notin Untimed
  /\ clock >= until[r]
  /\ Conclude(r, IF r \in Cancelling THEN "none" ELSE "unhealthy")

\* The future is dropped while it awaits the probe ...
DropProbing(r) ==
  /\ pc[r] = "probing"
  /\ Conclude(r, "none")

\* ... or while it sleeps, holding nothing.
DropSleeping(r) ==
  /\ pc[r] = "sleeping"
  /\ Go(r, "idle")
  /\ until' = [until EXCEPT ![r] = 0]
  /\ UNCHANGED <<healthVars, clock, now, reserved, verdict, stale>>

Finish(r) ==
  /\ pc[r] = "finishing"
  /\ FinishAt(reserved[r], verdict[r], now[r])
  /\ Go(r, "idle")
  /\ until' = [until EXCEPT ![r] = 0]
  /\ reserved' = [reserved EXCEPT ![r] = 0]
  /\ verdict' = [verdict EXCEPT ![r] = "none"]
  /\ now' = [now EXCEPT ![r] = 0]
  /\ stale' = [stale EXCEPT ![r] = FALSE]
  /\ UNCHANGED clock

-----------------------------------------------------------------------------
Next ==
  \/ Tick
  \/ \E s \in Statuses : ForceStatus(s)
  \/ \E r \in Runner :
       \/ ReadClock(r)
       \/ TryStart(r)
       \/ \E result \in Verdicts \ {"none"} : ProbeReturns(r, result)
       \/ ProbeTimesOut(r)
       \/ DropProbing(r)
       \/ DropSleeping(r)
       \/ Finish(r)

Spec == Init /\ [][Next]_vars

(***************************************************************************)
(* Fairness.  Time passes; the timer of a runner fires and its locked      *)
(* steps complete.  A probe need not ever return, a future need not be     *)
(* dropped, and nobody has to call run_once.                               *)
(***************************************************************************)
Fairness ==
  /\ WF_vars(Tick)
  /\ \A r \in Runner : WF_vars(TryStart(r) \/ ProbeTimesOut(r) \/ Finish(r))

FairSpec == Spec /\ Fairness

-----------------------------------------------------------------------------
(* Properties.                                                             *)

\* A runner that owns a reservation it has not yet released.
Holds(r) == pc[r] \in {"probing", "finishing"}

\* Its result still counts.
Current(r) == Holds(r) /\ reserved[r] = generation

\* The flag in_flight is set exactly while one reservation of the current
\* generation is outstanding: it is never left behind by a drop, a timeout or a
\* forced status, and no two results count at once (try_start_probe_at,
\* finish_at, force_status and Drop for ActiveProbe).
OneReservation ==
  /\ in_flight => \E r \in Runner : Current(r)
  /\ ~in_flight => \A r \in Runner : ~Current(r)
  /\ \A r1, r2 \in Runner : Current(r1) /\ Current(r2) => r1 = r2

\* A streak that has reached its threshold shows in the status, and a streak of
\* one kind excludes one of the other, even across forced statuses.
StreakDecides ==
  /\ consecutive_healthy = 0 \/ consecutive_unhealthy = 0
  /\ consecutive_healthy >= HealthyThreshold => status = "healthy"
  /\ consecutive_unhealthy >= UnhealthyThreshold => status = "unhealthy"

\* A probe that was reserved before a status was forced changes nothing when it
\* ends: neither the forced status, nor the counters, nor the reservation of a
\* probe started since (docs/failure-semantics.md, active probe races).
StaleProbesAreIgnored ==
  [][\A r \in Runner :
       pc[r] = "finishing" /\ pc'[r] = "idle" /\ stale[r] => UNCHANGED healthVars
    ]_vars

\* Recorded completions are at least an interval apart, although the instants
\* are read outside the lock and runners race for the reservation.
CompletionsAreSpaced ==
  [][last_finished' # last_finished /\ last_finished # Never =>
       last_finished' >= last_finished + Interval
    ]_vars

\* A probe that hangs is given up: its reservation does not block the others
\* for ever (within the instants of the model).
HungProbesEnd ==
  \A r \in Runner \ Untimed :
    (Current(r) /\ until[r] <= MaxTime) ~> ~in_flight

-----------------------------------------------------------------------------
(* The inductive strengthening.                                            *)

\* A reservation is stale exactly if its generation is over.
StaleByGeneration ==
  \A r \in Runner :
    Holds(r) => /\ reserved[r] <= generation
                /\ stale[r] <=> reserved[r] # generation

\* A reservation that counts was made when a probe was due, and instants are
\* never ahead of the clock.
ReservedWhenDue ==
  /\ last_finished <= clock
  /\ \A r \in Runner :
       /\ now[r] <= clock
       /\ Current(r) /\ last_finished # Never => now[r] >= last_finished + Interval

IInv ==
  /\ TypeOK
  /\ OneReservation
  /\ StreakDecides
  /\ StaleByGeneration
  /\ ReservedWhenDue

=============================================================================
