--------------------------- MODULE Observability ---------------------------
(***************************************************************************)
(* poise-observe: attempts, decisions and readiness failures observed by a *)
(* Fanout of Metrics, and the snapshots of these.  Every counter is an     *)
(* atomic of its own, so each addition and each load is a step; a sink is  *)
(* one Metrics, and an event is told to the first sink and then the next.  *)
(***************************************************************************)
EXTENDS Integers, Sequences, FiniteSetsExt, Functions

CONSTANTS
  Attempt,     \* the attempts (each is made once)
  Verdict,     \* the outcomes attempts are completed with
  Elapsed,     \* how long an attempt may take, in microseconds
  Bounds,      \* the bounds of the latency buckets (ATTEMPT_LATENCY_BOUNDS)
  MaxCount     \* where counters saturate (u64::MAX)

ASSUME AttemptAssumption ==
  IsFiniteSet(Attempt) /\ "policy" \notin Attempt /\ "endpoint" \notin Attempt
ASSUME VerdictAssumption == Verdict \subseteq {"success", "failure", "overloaded", "cancelled"}
ASSUME ElapsedAssumption == Elapsed \subseteq Nat
ASSUME BoundsAssumption ==
  Bounds \in Seq(Nat) /\ \A b \in 2..Len(Bounds) : Bounds[b - 1] < Bounds[b]
ASSUME MaxCountAssumption == MaxCount \in Nat \ {0}

Sinks == 1..2

AttemptKinds == <<"success", "failure", "overloaded", "cancelled">>

DecisionKinds ==
  {"Selected", "Empty", "NoEligibleCandidates", "WeightOverflow",
   "DuplicateIdentity", "StateCapacityExceeded", "LoadOverflow",
   "PanicRejected", "InconsistentTopology"}

\* The counters of one sink; the last bucket has no bound.
Of(kind)        == <<"attempts", kind>>
Bucket(b)       == <<"bucket", b>>
DecisionOf(kind) == <<"decisions", kind>>
Micros          == <<"latency_micros">>
Readiness       == <<"readiness_failures">>

Attempts  == {Of(AttemptKinds[k]) : k \in DOMAIN AttemptKinds}
Buckets   == {Bucket(b) : b \in 1..(Len(Bounds) + 1)}
Decisions == {DecisionOf(kind) : kind \in DecisionKinds}
Counters  == Attempts \cup Buckets \cup Decisions \cup {Micros, Readiness}

VARIABLES
  metrics,     \* for each sink, its counters
  telling,     \* for each teller, the event it is in the middle of recording
  attempt,     \* for each attempt, its phase and whether it has finished
  snapshot,    \* the snapshot being taken: its sink and what it has loaded
  truth        \* history: the additions each teller's events called for

observabilityVars == <<metrics, telling, attempt, snapshot, truth>>

Tellers == Attempt \cup {"policy", "endpoint"}

Silent == [sink |-> 0, adds |-> {}, left |-> {}]

NoSnapshot == [sink |-> 0, loaded |-> [c \in {} |-> 0], before |-> [c \in {} |-> 0]]

ObservabilityInit ==
  /\ metrics = [s \in Sinks |-> [c \in Counters |-> 0]]
  /\ telling = [t \in Tellers |-> Silent]
  /\ attempt = [a \in Attempt |-> [phase |-> "new", finished |-> FALSE]]
  /\ snapshot = NoSnapshot
  /\ truth = [t \in Tellers |-> [c \in Counters |-> 0]]

-----------------------------------------------------------------------------
(* Recording an event.                                                     *)

Add(counter, amount) == [counter |-> counter, amount |-> amount]

\* Mutants of Added: the addition wraps ...
AddedWrapping(counters, add) ==
  [counters EXCEPT ![add.counter] = (@ + add.amount) % (MaxCount + 1)]

\* ... or goes beyond the largest number.
AddedUnbounded(counters, add) ==
  [counters EXCEPT ![add.counter] = @ + add.amount]

\* saturating_add of one counter.
Added(counters, add) ==
  [counters EXCEPT ![add.counter] = Min({MaxCount, @ + add.amount})]

BucketFor(elapsed) ==
  Min({b \in DOMAIN Bounds : elapsed <= Bounds[b]} \cup {Len(Bounds) + 1})

RecordAttempt(kind, elapsed) ==
  <<Add(Of(kind), 1), Add(Bucket(BucketFor(elapsed)), 1), Add(Micros, elapsed)>>

RecordDecision(kind) == <<Add(DecisionOf(kind), 1)>>

RecordReadinessFailure == <<Add(Readiness, 1)>>

\* An event starts at the first observer of the fanout.
Observe(t, adds) ==
  telling' = [telling EXCEPT ![t] = [sink |-> 1, adds |-> adds, left |-> adds]]

\* What some additions add to a counter.
AmountOf(adds, c) ==
  MapThenSumSet(LAMBDA k : IF adds[k].counter = c THEN adds[k].amount ELSE 0,
                DOMAIN adds)

\* history
Happened(t, adds) ==
  truth' = [truth EXCEPT ![t] =
    [c \in Counters |-> Min({MaxCount, truth[t][c] + AmountOf(adds, c)})]]

\* The next addition of the event, or the next observer.
Advanced(event) ==
  CASE Len(event.left) > 1 ->
         [sink |-> event.sink, adds |-> event.adds, left |-> Tail(event.left)]
    [] Len(event.left) = 1 /\ event.sink + 1 \in Sinks ->
         [sink |-> event.sink + 1, adds |-> event.adds, left |-> event.adds]
    [] OTHER -> Silent

Tell(t) ==
  /\ telling[t] # Silent
  /\ metrics' = [metrics EXCEPT ![telling[t].sink] = Added(@, Head(telling[t].left))]
  /\ telling' = [telling EXCEPT ![t] = Advanced(@)]
  /\ UNCHANGED <<attempt, snapshot, truth>>

-----------------------------------------------------------------------------
(* Attempts, and the observers of a policy and of endpoints.               *)

Begin(a) ==
  /\ attempt[a].phase = "new"
  /\ attempt' = [attempt EXCEPT ![a].phase = "running"]
  /\ UNCHANGED <<metrics, telling, snapshot, truth>>

\* Mutant of Finish: a completed attempt is observed again when it is dropped.
FinishAgain(a, kind, phase) ==
  /\ attempt' = [attempt EXCEPT ![a] = [phase |-> phase, finished |-> TRUE]]
  /\ \E elapsed \in Elapsed : Observe(a, RecordAttempt(kind, elapsed))

\* Attempt::finish: an attempt is observed unless it has been.
Finish(a, kind, phase) ==
  /\ attempt' = [attempt EXCEPT ![a] = [phase |-> phase, finished |-> TRUE]]
  /\ IF attempt[a].finished THEN UNCHANGED telling
     ELSE \E elapsed \in Elapsed : Observe(a, RecordAttempt(kind, elapsed))

\* The outcome of the attempt is the one it was completed with ...
Complete(a) ==
  /\ attempt[a].phase = "running"
  /\ \E kind \in Verdict : Finish(a, kind, "completed")
  /\ Happened(a, telling'[a].adds)
  /\ UNCHANGED <<metrics, snapshot>>

\* ... and an attempt that was never completed is cancelled.
Drop(a) ==
  /\ attempt[a].phase \in {"running", "completed"}
  /\ telling[a] = Silent
  /\ Finish(a, "cancelled", "dropped")
  /\ IF attempt[a].phase = "running" THEN Happened(a, telling'[a].adds)
                                     ELSE UNCHANGED truth
  /\ UNCHANGED <<metrics, snapshot>>

\* An event of the teller t, which is not an attempt.
Notice(t, adds) ==
  /\ telling[t] = Silent
  /\ Observe(t, adds)
  /\ Happened(t, adds)
  /\ UNCHANGED <<metrics, attempt, snapshot>>

ReadinessFails == Notice("endpoint", RecordReadinessFailure)

-----------------------------------------------------------------------------
(* Snapshots: the counters are loaded one after the other in the order of  *)
(* the code; the decisions, which no property relates, in one step.        *)

Loads == <<Decisions>> \o [k \in DOMAIN AttemptKinds |-> {Of(AttemptKinds[k])}]
           \o [b \in 1..(Len(Bounds) + 1) |-> {Bucket(b)}]
           \o <<{Readiness}, {Micros}>>

Loaded == DOMAIN snapshot.loaded

\* What the events of the tellers T come to.
Total(T, c) ==
  Min({MaxCount, SumFunctionOnSet([t \in Tellers |-> truth[t][c]], T)})

\* A snapshot of one sink starts; history: the tellers recorded everywhere.
TakeSnapshot(s) ==
  /\ snapshot = NoSnapshot \/ Loaded = Counters
  /\ LET recorded == {t \in Tellers : telling[t] = Silent}
     IN  snapshot' = [sink |-> s, loaded |-> NoSnapshot.loaded,
                      before |-> [c \in Counters |-> Total(recorded, c)]]
  /\ UNCHANGED <<metrics, telling, attempt, truth>>

Load ==
  /\ snapshot # NoSnapshot
  /\ Loaded # Counters
  /\ LET next == Loads[Min({n \in DOMAIN Loads : ~(Loads[n] \subseteq Loaded)})]
     IN  snapshot' =
           [sink |-> snapshot.sink, before |-> snapshot.before,
            loaded |-> [c \in Loaded \cup next |->
                          IF c \in next THEN metrics[snapshot.sink][c]
                                        ELSE snapshot.loaded[c]]]
  /\ UNCHANGED <<metrics, telling, attempt, truth>>

-----------------------------------------------------------------------------
(* Properties.                                                             *)

ObservabilityTypeOK ==
  /\ metrics \in [Sinks -> [Counters -> 0..MaxCount]]
  /\ \A t \in Tellers : telling[t].sink \in Sinks \cup {0}
  /\ \A a \in Attempt :
       /\ attempt[a].phase \in {"new", "running", "completed", "dropped"}
       /\ attempt[a].finished = (attempt[a].phase \in {"completed", "dropped"})
  /\ Loaded \subseteq Counters

\* Each attempt that ended is counted once by every observer, in one kind, one
\* bucket and its time, whoever ended it (a completion and the drop that
\* follows it, or a drop alone); so is every decision of a policy and every
\* readiness failure.  No concurrent addition is lost, no total wraps, and
\* no event is ahead of what happened.
EachEventIsCountedOnce ==
  \A s \in Sinks : \A c \in Counters :
    /\ metrics[s][c] <= Total(Tellers, c)
    /\ (\A t \in Tellers : telling[t] = Silent) => metrics[s][c] = Total(Tellers, c)

\* "Under concurrent recording, the snapshot represents a narrow interval
\* rather than a global instant": each counter of it has every event that was
\* recorded when the snapshot began, and none that has not happened yet, also
\* when the total of the kinds and that of the buckets disagree.
SnapshotsAreIntervals ==
  \A c \in Loaded :
    /\ snapshot.before[c] <= snapshot.loaded[c]
    /\ snapshot.loaded[c] <= Total(Tellers, c)

-----------------------------------------------------------------------------
(* The inductive strengthening: of every counter of every sink, and for    *)
(* each teller, what it has added and what it is about to add come to what *)
(* its events called for, and what all have added is what the counter has. *)

Additions == [counter : Counters, amount : Nat]

Recording == Seq(Additions) \ {<<>>}

Telling == {Silent} \cup [sink : Sinks, adds : Recording, left : Recording]

\* What an event being recorded has still to add to a counter of a sink.
ToCome(event, s, c) ==
  IF event = Silent \/ s < event.sink THEN 0
  ELSE AmountOf(IF s = event.sink THEN event.left ELSE event.adds, c)

Accounted(s, c, added) ==
  /\ metrics[s][c] = Min({MaxCount, SumFunctionOnSet(added, Tellers)})
  /\ \A t \in Tellers :
       truth[t][c] = Min({MaxCount, added[t] + ToCome(telling[t], s, c)})

SnapshotIInv ==
  \/ snapshot = NoSnapshot
  \/ /\ snapshot.sink \in Sinks
     /\ Loaded \subseteq Counters
     /\ \A c \in Counters :
          /\ snapshot.before[c] \in Nat
          /\ snapshot.before[c] <= metrics[snapshot.sink][c]
     /\ \A c \in Loaded :
          /\ snapshot.loaded[c] \in Nat
          /\ snapshot.before[c] <= snapshot.loaded[c]
          /\ snapshot.loaded[c] <= Total(Tellers, c)

ObservabilityIInv ==
  /\ ObservabilityTypeOK
  /\ telling \in [Tellers -> Telling]
  /\ attempt \in [Attempt -> [phase : {"new", "running", "completed", "dropped"},
                              finished : BOOLEAN]]
  /\ \A a \in Attempt : attempt[a].phase \in {"new", "running"} => telling[a] = Silent
  /\ truth \in [Tellers -> [Counters -> 0..MaxCount]]
  /\ \A s \in Sinks : \A c \in Counters :
       \E added \in [Tellers -> 0..MaxCount] : Accounted(s, c, added)
  /\ SnapshotIInv

=============================================================================
