--------------------------- MODULE CircuitBreaker ---------------------------
(***************************************************************************)
(* The passive circuit breaker of poise-health (PassiveHealth).            *)
(*                                                                         *)
(* Every operation but force_close reads the clock first and takes the     *)
(* lock of the mode afterwards, so the instant it works with may be older  *)
(* than the state it finds: the two are separate steps here.  A caller     *)
(* stands for one attempt, or for one thread that looks at or forces the   *)
(* circuit; it holds at most one permit, and then only finishes it.        *)
(*                                                                         *)
(* A permit of the code carries its kind only.  The history variable fresh *)
(* remembers whether the circuit has changed state since it was issued.    *)
(***************************************************************************)
EXTENDS Integers, FiniteSets

CONSTANTS
  Caller,            \* attempts and threads that share the circuit
  FailureThreshold,  \* failure_threshold
  SuccessThreshold,  \* success_threshold
  OpenFor,           \* open_for, in clock ticks
  ProbeLimit,        \* half_open_max_in_flight
  MaxTime            \* the last instant of the clock (bounds the model)

ASSUME CallerAssumption == IsFiniteSet(Caller)
ASSUME ConfigAssumption ==
  /\ FailureThreshold \in Nat \ {0}
  /\ SuccessThreshold \in Nat \ {0}
  /\ OpenFor \in Nat \ {0}
  /\ ProbeLimit \in Nat \ {0}
ASSUME MaxTimeAssumption == MaxTime \in Nat

VARIABLES
  mode,     \* the mode behind the lock
  clock,    \* the monotonic clock
  call,     \* the operation each caller is in, its clock already read
  now,      \* the instant that operation read
  permit,   \* the kind of permit each caller holds
  fresh     \* the circuit is still in the state in which it was issued

vars == <<mode, clock, call, now, permit, fresh>>

Closed(n)      == [state |-> "closed", consecutive_failures |-> n]
Open(t)        == [state |-> "open", opened_at |-> t]
HalfOpen(i, n) == [state |-> "half_open", in_flight |-> i, successes |-> n]

Instants  == 0..MaxTime
Modes     == {Closed(n) : n \in 0..FailureThreshold - 1}
               \cup {Open(t) : t \in Instants}
               \cup {HalfOpen(i, n) : i \in 0..ProbeLimit,
                                      n \in 0..SuccessThreshold - 1}
Calls     == {"none", "try_acquire", "is_available", "force_open", "finish"}
Kinds     == {"none", "closed", "probe"}
Failing   == {"failure", "overloaded"}
Outcomes  == {"success", "cancelled"} \cup Failing

\* The thresholds are part of the type: a count that reaches its threshold
\* changes the mode in the same locked step.
TypeOK ==
  /\ mode \in Modes
  /\ clock \in Instants
  /\ call \in [Caller -> Calls]
  /\ now \in [Caller -> Instants]
  /\ permit \in [Caller -> Kinds]
  /\ fresh \in [Caller -> BOOLEAN]

Init ==
  /\ mode = Closed(0)
  /\ clock = 0
  /\ call = [c \in Caller |-> "none"]
  /\ now = [c \in Caller |-> 0]
  /\ permit = [c \in Caller |-> "none"]
  /\ fresh = [c \in Caller |-> FALSE]

Tick ==
  /\ clock < MaxTime
  /\ clock' = clock + 1
  /\ UNCHANGED <<mode, call, now, permit, fresh>>

\* An operation starts by reading the clock, outside the lock.
Enter(c, op) ==
  /\ call[c] = "none"
  /\ (op = "finish") <=> (permit[c] # "none")
  /\ call' = [call EXCEPT ![c] = op]
  /\ now' = [now EXCEPT ![c] = clock]
  /\ UNCHANGED <<mode, clock, permit, fresh>>

Return(c) ==
  /\ call' = [call EXCEPT ![c] = "none"]
  /\ now' = [now EXCEPT ![c] = 0]
  /\ UNCHANGED clock

\* Permits issued before the circuit changed state are no longer fresh.
StillFresh(c) == fresh[c] /\ mode'.state = mode.state

Age == fresh' = [c \in Caller |-> StillFresh(c)]

\* Mutant of Refreshed: half-open one tick before the cooldown has elapsed.
RefreshedEarly(t) ==
  IF mode.state = "open" /\ t + 1 >= mode.opened_at + OpenFor
    THEN HalfOpen(0, 0)
    ELSE mode

\* An open circuit whose cooldown has elapsed at instant t is half-open.
Refreshed(t) ==
  IF mode.state = "open" /\ t >= mode.opened_at + OpenFor
    THEN HalfOpen(0, 0)
    ELSE mode

TryAcquire(c) ==
  LET m == Refreshed(now[c]) IN
  /\ call[c] = "try_acquire"
  /\ Return(c)
  /\ \/ /\ m.state = "closed"
        /\ mode' = m
        /\ permit' = [permit EXCEPT ![c] = "closed"]
        /\ fresh' = [d \in Caller |-> d = c \/ StillFresh(d)]
     \/ /\ m.state = "half_open"
        /\ m.in_flight < ProbeLimit
        /\ mode' = HalfOpen(m.in_flight + 1, m.successes)
        /\ permit' = [permit EXCEPT ![c] = "probe"]
        /\ fresh' = [d \in Caller |-> d = c \/ StillFresh(d)]
     \/ /\ m.state = "open" \/ (m.state = "half_open" /\ m.in_flight >= ProbeLimit)
        /\ mode' = m
        /\ UNCHANGED permit
        /\ Age

\* is_available and snapshot also move an open circuit to half-open.
IsAvailable(c) ==
  /\ call[c] = "is_available"
  /\ Return(c)
  /\ mode' = Refreshed(now[c])
  /\ Age
  /\ UNCHANGED permit

ForceOpen(c) ==
  /\ call[c] = "force_open"
  /\ Return(c)
  /\ mode' = Open(now[c])
  /\ Age
  /\ UNCHANGED permit

ForceClose ==
  /\ mode' = Closed(0)
  /\ Age
  /\ UNCHANGED <<clock, call, now, permit>>

\* Mutant of AfterAttempt: the threshold is compared with the count before it
\* is incremented.
AfterAttemptLate(t, outcome) ==
  CASE outcome = "success" -> Closed(0)
    [] outcome \in Failing ->
         IF mode.consecutive_failures >= FailureThreshold
           THEN Open(t)
           ELSE Closed(mode.consecutive_failures + 1)
    [] OTHER -> mode

\* What the outcome of an attempt that started in a closed circuit does to it.
AfterAttempt(t, outcome) ==
  CASE outcome = "success" -> Closed(0)
    [] outcome \in Failing ->
         IF mode.consecutive_failures + 1 >= FailureThreshold
           THEN Open(t)
           ELSE Closed(mode.consecutive_failures + 1)
    [] OTHER -> mode

\* Mutant of AfterProbe: a cancelled probe does not give its slot back.
AfterProbeLeaking(t, outcome) ==
  LET left == IF mode.in_flight = 0 THEN 0 ELSE mode.in_flight - 1 IN
  CASE outcome = "success" ->
         IF mode.successes + 1 >= SuccessThreshold
           THEN Closed(0)
           ELSE HalfOpen(left, mode.successes + 1)
    [] outcome \in Failing -> Open(t)
    [] OTHER -> mode

\* What the outcome of a probe does to a half-open circuit.  The slot is given
\* back by a saturating subtraction.
AfterProbe(t, outcome) ==
  LET left == IF mode.in_flight = 0 THEN 0 ELSE mode.in_flight - 1 IN
  CASE outcome = "success" ->
         IF mode.successes + 1 >= SuccessThreshold
           THEN Closed(0)
           ELSE HalfOpen(left, mode.successes + 1)
    [] outcome \in Failing -> Open(t)
    [] OTHER -> HalfOpen(left, mode.successes)

\* A permit is completed with an outcome; dropping it finishes it as cancelled.
Finish(c, outcome) ==
  /\ call[c] = "finish"
  /\ Return(c)
  /\ mode' = CASE permit[c] = "closed" /\ mode.state = "closed" ->
                    AfterAttempt(now[c], outcome)
               [] permit[c] = "probe" /\ mode.state = "half_open" ->
                    AfterProbe(now[c], outcome)
               [] OTHER -> mode
  /\ permit' = [permit EXCEPT ![c] = "none"]
  /\ fresh' = [d \in Caller |-> d # c /\ StillFresh(d)]

-----------------------------------------------------------------------------
Locked(c) ==
  \/ TryAcquire(c)
  \/ IsAvailable(c)
  \/ ForceOpen(c)
  \/ \E outcome \in Outcomes : Finish(c, outcome)

Next ==
  \/ Tick
  \/ ForceClose
  \/ \E c \in Caller :
       \/ \E op \in Calls \ {"none"} : Enter(c, op)
       \/ Locked(c)

Spec == Init /\ [][Next]_vars

(***************************************************************************)
(* Fairness.  A caller inside an operation gets the lock and returns, and  *)
(* an attempt that holds a permit ends: by completing it, or by dropping   *)
(* it.  Nobody has to acquire, to look or to force, and time need not   *)
(* pass.                                                                   *)
(***************************************************************************)
Fairness ==
  \A c \in Caller :
    /\ WF_vars(Locked(c))
    /\ WF_vars(Enter(c, "finish"))

FairSpec == Spec /\ Fairness

-----------------------------------------------------------------------------
(* Properties.                                                             *)

Probes == {c \in Caller : permit[c] = "probe"}

\* No half-open slot is leaked: whatever permits were issued, finished late,
\* or dropped in whatever state the circuit was, each slot taken is still held
\* by an attempt that will give it back (CircuitPermit, finish and Drop).
NoLeakedSlot ==
  mode.state = "half_open" => mode.in_flight <= Cardinality(Probes)

\* The circuit leaves the open state only when its cooldown is over, by the clock
\* of that moment whatever instant the caller read before it got the lock, or
\* when it is forced closed: no late result closes it.  It becomes half-open from
\* no other state (PassiveHealth::refresh, finish).
CooldownIsServed ==
  [][/\ mode.state = "open" /\ mode'.state = "half_open" =>
          clock >= mode.opened_at + OpenFor
     /\ mode.state = "open" /\ mode'.state = "closed" =>
          mode' = Closed(0) /\ call' = call /\ permit' = permit
     /\ mode.state = "closed" => mode'.state # "half_open"
    ]_vars

\* A half-open circuit whose probe slots are all taken does not stay so: a
\* probe that is abandoned frees its slot, or the circuit changes state.
SlotsAreFreed ==
  (mode.state = "half_open" /\ mode.in_flight = ProbeLimit)
    ~> ~(mode.state = "half_open" /\ mode.in_flight = ProbeLimit)

\* What the comment in finish() says: a result from an older epoch cannot
\* mutate the new one.
EpochIsolation ==
  [][\A c \in Caller :
       call[c] = "finish" /\ call'[c] = "none" /\ ~fresh[c] => mode' = mode
    ]_vars

-----------------------------------------------------------------------------
\* The instant an operation works with is never ahead of the clock.
NowIsPast == \A c \in Caller : now[c] <= clock

\* A caller in the middle of an operation holds a permit only to finish it.
PermitsMatchCalls ==
  \A c \in Caller :
    call[c] # "none" => ((call[c] = "finish") <=> (permit[c] # "none"))

\* The inductive invariant.
IInv == TypeOK /\ NowIsPast /\ PermitsMatchCalls /\ NoLeakedSlot

=============================================================================
