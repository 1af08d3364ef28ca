------------------------------ MODULE PeakEwma ------------------------------
(***************************************************************************)
(* The load signal of poise-core: the in-flight counter (InFlight) and the *)
(* peak-EWMA latency tracker built on it (PeakEwma).                       *)
(*                                                                         *)
(* A thread runs an attempt, records a sample of its own, or reads the     *)
(* score, one at a time.  Every access to shared memory is a step: each    *)
(* load, exchange and subtraction on the atomic counter, and each critical *)
(* section on the estimate, which works with an instant read before the    *)
(* lock was taken.                                                         *)
(*                                                                         *)
(* Costs are natural numbers instead of floating-point seconds, and the    *)
(* exponential decay is an operator with the laws of one.                  *)
(***************************************************************************)
EXTENDS Integers, FiniteSets

CONSTANTS
  Thread,         \* the threads that share the tracker
  Limit,          \* the limit of the counter, u64::MAX if there is none
  DefaultRtt,     \* default_rtt, a cost
  MaxCost,        \* the largest cost (bounds the model)
  Reported,       \* the latencies recorded without an attempt
  MaxTime,        \* the last instant of the clock (bounds the model)
  Decay(_, _)     \* Decay(c, t): what is left of cost c after t ticks

Costs    == 0..MaxCost
Instants == 0..MaxTime

ASSUME ThreadAssumption == IsFiniteSet(Thread)
ASSUME ConfigAssumption ==
  /\ Limit \in Nat \ {0}
  /\ MaxCost \in Nat
  /\ MaxTime \in 0..MaxCost
  /\ DefaultRtt \in Costs \ {0}
  /\ Reported \subseteq Costs
ASSUME DecayAssumption ==
  \A c \in Costs, t \in Instants :
    /\ Decay(c, t) \in 0..c
    /\ Decay(c, 0) = c
    /\ \A d \in Costs : c <= d => Decay(c, t) <= Decay(d, t)
    /\ \A u \in Instants : t + u <= MaxTime => Decay(Decay(c, t), u) = Decay(c, t + u)

VARIABLES
  active,        \* the counter
  cost_seconds,  \* the estimate ...
  updated_at,    \* ... and the instant it is of
  clock,         \* the monotonic clock
  pc,            \* where each thread is
  expected,      \* the value of the counter it read in start()
  started_at,    \* the instant its attempt began
  sample,        \* the latency it is about to record
  now,           \* the instant it works with
  peak,          \* the largest sample recorded as of each instant
  missed         \* attempts that raised the cost since a reader took it

estimate    == <<cost_seconds, updated_at>>
attemptVars == <<expected, started_at, sample>>
vars        == <<active, estimate, clock, pc, attemptVars, now, peak, missed>>

Places == {"idle", "exchanging", "counted", "running", "sampled", "observing",
           "releasing", "reporting", "scoring", "counting"}

TypeOK ==
  /\ active \in 0..Limit
  /\ cost_seconds \in DefaultRtt..MaxCost
  /\ updated_at \in Instants
  /\ clock \in Instants
  /\ pc \in [Thread -> Places]
  /\ expected \in [Thread -> 0..Limit]
  /\ started_at \in [Thread -> Instants]
  /\ sample \in [Thread -> Costs]
  /\ now \in [Thread -> Instants]
  /\ peak \in [Instants -> Costs]
  /\ missed \in [Thread -> SUBSET Thread]

Init ==
  /\ active = 0
  /\ cost_seconds = DefaultRtt
  /\ updated_at = 0
  /\ clock = 0
  /\ pc = [p \in Thread |-> "idle"]
  /\ expected = [p \in Thread |-> 0]
  /\ started_at = [p \in Thread |-> 0]
  /\ sample = [p \in Thread |-> 0]
  /\ now = [p \in Thread |-> 0]
  /\ peak = [t \in Instants |-> 0]
  /\ missed = [p \in Thread |-> {}]

Tick ==
  /\ clock < MaxTime
  /\ clock' = clock + 1
  /\ UNCHANGED <<active, estimate, pc, attemptVars, now, peak, missed>>

Go(p, place) == pc' = [pc EXCEPT ![p] = place]

-----------------------------------------------------------------------------
(* The counter.  A weak exchange may also fail although the counter is the *)
(* expected one; the thread then retries with the same value, which is a   *)
(* stuttering step.                                                        *)

\* What start() does with a value of the counter: give up at the limit, or try
\* to exchange it.
Attempt(p) ==
  /\ Go(p, IF active >= Limit THEN "idle" ELSE "exchanging")
  /\ expected' = [expected EXCEPT ![p] = IF active >= Limit THEN 0 ELSE active]
  /\ UNCHANGED <<active, estimate, clock, started_at, sample, now, peak,
                 missed>>

Start(p) ==
  /\ pc[p] = "idle"
  /\ Attempt(p)

\* Mutant of Exchange: the incremented value is stored without a comparison.
ExchangeBlind(p) ==
  /\ pc[p] = "exchanging"
  /\ active' = expected[p] + 1
  /\ expected' = [expected EXCEPT ![p] = 0]
  /\ Go(p, "counted")
  /\ UNCHANGED <<estimate, clock, started_at, sample, now, peak, missed>>

Exchange(p) ==
  /\ pc[p] = "exchanging"
  /\ \/ /\ active # expected[p]
        /\ Attempt(p)
     \/ /\ active = expected[p]
        /\ active' = expected[p] + 1
        /\ expected' = [expected EXCEPT ![p] = 0]
        /\ Go(p, "counted")
        /\ UNCHANGED <<estimate, clock, started_at, sample, now, peak,
                       missed>>

\* Dropping the guard of the counter.
Release(p) ==
  /\ pc[p] = "releasing"
  /\ active' = active - 1
  /\ Go(p, "idle")
  /\ UNCHANGED <<estimate, clock, attemptVars, now, peak, missed>>

-----------------------------------------------------------------------------
(* An attempt, from its counted slot to the release of it.                 *)

StampStart(p) ==
  /\ pc[p] = "counted"
  /\ started_at' = [started_at EXCEPT ![p] = clock]
  /\ Go(p, "running")
  /\ UNCHANGED <<active, estimate, clock, expected, sample, now, peak, missed>>

\* complete(): the elapsed time is the sample, and the concurrency is released
\* after it was recorded.
Complete(p) ==
  /\ pc[p] = "running"
  /\ sample' = [sample EXCEPT ![p] = clock - started_at[p]]
  /\ Go(p, "sampled")
  /\ UNCHANGED <<active, estimate, clock, expected, started_at, now, peak,
                 missed>>

\* cancel(), or a drop: the concurrency is released without a sample.
Cancel(p) ==
  /\ pc[p] = "running"
  /\ started_at' = [started_at EXCEPT ![p] = 0]
  /\ Go(p, "releasing")
  /\ UNCHANGED <<active, estimate, clock, expected, sample, now, peak, missed>>

\* observe() reads the clock ...
ReadClock(p) ==
  /\ pc[p] = "sampled"
  /\ now' = [now EXCEPT ![p] = clock]
  /\ Go(p, "observing")
  /\ UNCHANGED <<active, estimate, clock, attemptVars, peak, missed>>

\* observe() may also be called without an attempt.
Report(p, c) ==
  /\ pc[p] = "idle"
  /\ sample' = [sample EXCEPT ![p] = c]
  /\ now' = [now EXCEPT ![p] = clock]
  /\ Go(p, "reporting")
  /\ UNCHANGED <<active, estimate, clock, expected, started_at, peak, missed>>

Greater(c, d) == IF c >= d THEN c ELSE d

\* The time from u to t, none if t is earlier.
Since(t, u) == IF t >= u THEN t - u ELSE 0

\* Mutant of DecayedCost: the cost is only kept above the floor.
DecayedCostNever(t) == Greater(cost_seconds, DefaultRtt)

\* The estimate as of an instant; one before updated_at finds it as it is.
DecayedCost(t) ==
  Greater(Decay(cost_seconds, Since(t, updated_at)), DefaultRtt)

\* ... and raises the estimate under the lock.
Observe(p) ==
  /\ pc[p] \in {"observing", "reporting"}
  /\ cost_seconds' = Greater(DecayedCost(now[p]), sample[p])
  /\ updated_at' = now[p]
  /\ peak' = [peak EXCEPT ![now[p]] = Greater(@, sample[p])]
  /\ missed' = [q \in Thread |->
                  IF /\ pc[q] = "counting"
                     /\ pc[p] = "observing"
                     /\ sample[p] > DecayedCost(now[p])
                    THEN missed[q] \cup {p} ELSE missed[q]]
  /\ started_at' = [started_at EXCEPT ![p] = 0]
  /\ sample' = [sample EXCEPT ![p] = 0]
  /\ now' = [now EXCEPT ![p] = 0]
  /\ Go(p, IF pc[p] = "observing" THEN "releasing" ELSE "idle")
  /\ UNCHANGED <<active, clock, expected>>

-----------------------------------------------------------------------------
(* score(): the clock, the estimate, then the counter.                     *)

Score(p) ==
  /\ pc[p] = "idle"
  /\ now' = [now EXCEPT ![p] = clock]
  /\ Go(p, "scoring")
  /\ UNCHANGED <<active, estimate, clock, attemptVars, peak, missed>>

\* estimated_seconds() also stores what it computed.
ReadCost(p) ==
  /\ pc[p] = "scoring"
  /\ cost_seconds' = DecayedCost(now[p])
  /\ updated_at' = now[p]
  /\ now' = [now EXCEPT ![p] = 0]
  /\ missed' = [missed EXCEPT ![p] = {}]
  /\ Go(p, "counting")
  /\ UNCHANGED <<active, clock, attemptVars, peak>>

ReadCount(p) ==
  /\ pc[p] = "counting"
  /\ missed' = [missed EXCEPT ![p] = {}]
  /\ Go(p, "idle")
  /\ UNCHANGED <<active, estimate, clock, attemptVars, now, peak>>

-----------------------------------------------------------------------------
Next ==
  \/ Tick
  \/ \E p \in Thread :
       \/ Start(p)
       \/ Exchange(p)
       \/ StampStart(p)
       \/ Complete(p)
       \/ Cancel(p)
       \/ ReadClock(p)
       \/ \E c \in Reported : Report(p, c)
       \/ Observe(p)
       \/ Release(p)
       \/ Score(p)
       \/ ReadCost(p)
       \/ ReadCount(p)

Spec == Init /\ [][Next]_vars

-----------------------------------------------------------------------------
(* Properties.                                                             *)

Holders ==
  {p \in Thread : pc[p] \in {"counted", "running", "sampled", "observing",
                             "releasing"}}

\* The counter is the number of attempts in flight, and never above the limit,
\* however exchanges race: none is lost and none counted twice, whether attempts
\* complete or are dropped (InFlight::start, Drop for InFlightGuard).
SlotsAreHeld == active = Cardinality(Holders) /\ active <= Limit

\* The estimate is never higher than the samples explain: it is the default, or
\* what is left of some sample recorded, even where the instants read before
\* the lock moved updated_at backwards (PeakEwma::observe, estimated_seconds).
EstimateIsEarned ==
  \/ cost_seconds = DefaultRtt
  \/ \E t \in Instants : cost_seconds <= Decay(peak[t], Since(updated_at, t))

\* What the comment in PeakEwmaGuard::finish says: a racing selector never
\* combines a stale latency with a count that was already reduced.
ScoreIsConservative ==
  \A p \in Thread :
    pc[p] = "counting" => \A q \in missed[p] : pc[q] = "releasing"

-----------------------------------------------------------------------------
(* The inductive strengthening.                                            *)

\* No instant is ahead of the clock.
NowIsPast ==
  /\ updated_at <= clock
  /\ \A p \in Thread : now[p] <= clock /\ started_at[p] <= clock

\* A thread only exchanges a count below the limit.
BelowLimit == \A p \in Thread : pc[p] = "exchanging" => expected[p] < Limit

IInv == TypeOK /\ SlotsAreHeld /\ NowIsPast /\ BelowLimit /\ EstimateIsEarned

=============================================================================
