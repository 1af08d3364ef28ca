--------------------------- MODULE OutcomeWindows ---------------------------
(***************************************************************************)
(* OutcomeWindow of poise-health: for each host of a group a window of its *)
(* last outcomes, with running totals, and the statistics an outlier       *)
(* detector is given.  Each operation is one critical section.             *)
(***************************************************************************)
EXTENDS Outliers, SequencesExt

CONSTANTS
  Windows,          \* [hosts, capacity, minimum_samples]: the groups there may be
  Weight,           \* the penalty units of each outcome
  OutlierConfigs    \* the configurations the group is evaluated with

Attributable == {"success", "failure", "overloaded"}

ValidWindowConfig(g) ==
  g.capacity \in Nat \ {0} /\ g.minimum_samples \in 0..g.capacity

ASSUME WindowsAssumption == \A g \in Windows : g.hosts \in Nat /\ ValidWindowConfig(g)
ASSUME OutlierConfigsAssumption ==
  \A config \in OutlierConfigs : ValidOutlierConfig(config)
ASSUME WeightAssumption ==
  Weight \in [Attributable -> Nat] /\ \A o \in Attributable : Weight[o] = 0 <=> o = "success"

VARIABLES
  group,     \* the number of hosts and the configuration of their windows
  windows,   \* for each host, its outcomes and their totals
  lately     \* history: the attributable outcomes since the last clear

windowVars == <<group, windows, lately>>

NewWindow ==
  [outcomes |-> <<>>, totals |-> [o \in Attributable |-> 0], penalty_units |-> 0]

WindowsInit ==
  /\ group \in Windows
  /\ windows = [h \in 1..group.hosts |-> NewWindow]
  /\ lately = [h \in 1..group.hosts |-> <<>>]

AddToTotals(w, outcome) ==
  [outcomes |-> w.outcomes, totals |-> [w.totals EXCEPT ![outcome] = @ + 1],
   penalty_units |-> w.penalty_units + Weight[outcome]]

RemoveFromTotals(w, outcome) ==
  [outcomes |-> w.outcomes, totals |-> [w.totals EXCEPT ![outcome] = @ - 1],
   penalty_units |-> w.penalty_units - Weight[outcome]]

\* Mutant of Room: the outcome that is given up stays in the totals.
RoomCounted(w) ==
  IF Len(w.outcomes) = group.capacity THEN [w EXCEPT !.outcomes = Tail(@)] ELSE w

\* A window at its capacity first gives up its oldest outcome.
Room(w) ==
  IF Len(w.outcomes) = group.capacity
  THEN [RemoveFromTotals(w, Head(w.outcomes)) EXCEPT !.outcomes = Tail(@)]
  ELSE w

Recorded(w, outcome) ==
  [AddToTotals(Room(w), outcome) EXCEPT !.outcomes = Append(@, outcome)]

\* A cancelled attempt says nothing of the host.
RecordOutcome(h, outcome) ==
  /\ IF outcome \notin Attributable THEN UNCHANGED <<windows, lately>>
     ELSE /\ windows' = [windows EXCEPT ![h] = Recorded(@, outcome)]
          /\ lately' = [lately EXCEPT ![h] =
               LET all == Append(@, outcome)
               IN  SubSeq(all, Max({1, Len(all) + 1 - group.capacity}), Len(all))]
  /\ UNCHANGED group

Clear(h) ==
  /\ windows' = [windows EXCEPT ![h] = NewWindow]
  /\ lately' = [lately EXCEPT ![h] = <<>>]
  /\ UNCHANGED group

\* The average penalty as a fraction, none before there are enough samples.
Stats(w) ==
  LET samples == Len(w.outcomes)
  IN  [successes |-> w.totals["success"], failures |-> w.totals["failure"],
       overloaded |-> w.totals["overloaded"],
       penalty |-> IF samples < group.minimum_samples \/ samples = 0
                   THEN <<0, 1>> ELSE <<w.penalty_units, samples>>]

-----------------------------------------------------------------------------
(* Properties.                                                             *)

Occurrences(s, o) == Cardinality({i \in DOMAIN s : s[i] = o})

Penalty(s) == FoldSeq(LAMBDA o, n : Weight[o] + n, 0, s)

\* The statistics are those of exactly the last outcomes up to the capacity,
\* through every eviction and clear: the running totals never drift, never
\* go below zero, and a cancelled attempt neither counts nor evicts.
WindowIsExact ==
  \A h \in DOMAIN windows :
    LET stats == Stats(windows[h])
        s == lately[h]
    IN  /\ stats.successes = Occurrences(s, "success")
        /\ stats.failures = Occurrences(s, "failure")
        /\ stats.overloaded = Occurrences(s, "overloaded")
        /\ stats.penalty =
             IF Len(s) < group.minimum_samples \/ s = <<>> THEN <<0, 1>>
             ELSE <<Penalty(s), Len(s)>>

\* Of any group, an evaluation ejects at most the percentage, leaves at least
\* the minimum (or ejects nobody), and goes from the worst on: a considered
\* host strictly worse than an ejected one is ejected too.  Nobody is ejected
\* whom all the others are worse than, nobody with too few samples, and nobody
\* from a group with too few hosts considered.
EjectionsAreCapped ==
  LET hosts == [h \in DOMAIN windows |-> Stats(windows[h])]
      Success(h) == hosts[h].successes
  IN  \A config \in OutlierConfigs : \A ejected \in Evaluations(hosts, config) :
        LET C == {h \in DOMAIN hosts : Samples(hosts[h]) >= config.minimum_samples}
            \* a worse success rate, in whole numbers
            Worse(g, h) == Success(g) * Samples(hosts[h]) < Success(h) * Samples(hosts[g])
        IN  /\ 100 * Cardinality(ejected) <= Len(hosts) * config.max_ejection_percent
            /\ ejected # {} =>
                 /\ Len(hosts) - Cardinality(ejected) >= config.minimum_healthy
                 /\ Cardinality(C) >= config.minimum_hosts
            /\ ejected \subseteq C
            /\ \A h \in ejected : \A g \in C : Worse(g, h) => g \in ejected
            /\ \A h \in ejected : C # {h} => \E g \in C \ {h} : ~Worse(g, h)

-----------------------------------------------------------------------------
(* The inductive strengthening: a window is a function of the last         *)
(* outcomes, of which there are never more than the capacity.              *)

WindowOf(s) ==
  [outcomes |-> s, totals |-> [o \in Attributable |-> Occurrences(s, o)],
   penalty_units |-> Penalty(s)]

WindowsIInv ==
  /\ group \in Windows
  /\ lately \in [1..group.hosts -> Seq(Attributable)]
  /\ \A h \in 1..group.hosts : Len(lately[h]) <= group.capacity
  /\ windows = [h \in 1..group.hosts |-> WindowOf(lately[h])]

=============================================================================
