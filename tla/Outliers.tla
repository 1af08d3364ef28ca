------------------------------ MODULE Outliers ------------------------------
(***************************************************************************)
(* OutlierDetector of poise-health: which hosts of a group one evaluation  *)
(* of their outcome statistics may eject.  Rates are compared exactly, on  *)
(* the common denominator of all the sample counts.  The code computes     *)
(* the threshold in floating point: an exact tie with it may go either way *)
(* (three hosts with 1 success of 10 have a mean above their rate).        *)
(***************************************************************************)
EXTENDS Integers, Sequences, FiniteSetsExt

ValidOutlierConfig(config) ==
  /\ config.minimum_hosts \in Nat \ {0} /\ config.minimum_samples \in Nat \ {0}
  /\ config.deviation_tenths \in Nat
  /\ config.max_ejection_percent \in 0..100
  /\ config.minimum_healthy \in Nat

Samples(stats) == stats.successes + stats.failures + stats.overloaded

\* The hosts with enough samples, and a rate.
Considered(hosts, config) ==
  {i \in DOMAIN hosts :
     Samples(hosts[i]) >= config.minimum_samples /\ Samples(hosts[i]) > 0}

\* A multiple of every sample count.
Denominator(hosts, config) ==
  CHOOSE d \in 1..ProductSet({Samples(hosts[i]) : i \in Considered(hosts, config)}) :
    \A i \in Considered(hosts, config) : d % Samples(hosts[i]) = 0

\* The success rate of a host, in units of the denominator.
Rate(hosts, config, i) ==
  (hosts[i].successes * Denominator(hosts, config)) \div Samples(hosts[i])

\* How far the rate of a host is below the mean, times the hosts considered.
Shortfall(hosts, config, i) ==
  LET C == Considered(hosts, config)
  IN  MapThenSumSet(LAMBDA j : Rate(hosts, config, j), C)
        - Cardinality(C) * Rate(hosts, config, i)

\* rate < mean - factor * deviation, squared; the factor is in tenths.  The
\* bound at 0 is below no rate.
IsOutlier(hosts, config, up, i) ==
  LET C == Considered(hosts, config)
      Square(n) == n * n
      left == 100 * Cardinality(C) * Square(Shortfall(hosts, config, i))
      right == Square(config.deviation_tenths)
                 * MapThenSumSet(LAMBDA j : Square(Shortfall(hosts, config, j)), C)
  IN  /\ Shortfall(hosts, config, i) >= 0
      /\ left > right \/ (up /\ left = right)

\* Mutant of EjectionCap: the percentage alone.
EjectionCapShare(hosts, config) == (Len(hosts) * config.max_ejection_percent) \div 100

\* How many may be ejected: a percentage of the whole group, and never so
\* many that fewer than the minimum stay.
EjectionCap(hosts, config) ==
  Min({(Len(hosts) * config.max_ejection_percent) \div 100,
       Max({0, Len(hosts) - config.minimum_healthy})})

\* The worst rate first; ties keep the order of the slice.
WorseThan(hosts, config, i, j) ==
  \/ Rate(hosts, config, i) < Rate(hosts, config, j)
  \/ Rate(hosts, config, i) = Rate(hosts, config, j) /\ i < j

\* The outliers that fewer others precede than the cap allows; `up` tells
\* whether the threshold was rounded above its exact value.
Evaluate(hosts, config, up) ==
  LET O == {i \in Considered(hosts, config) : IsOutlier(hosts, config, up, i)}
  IN  IF Cardinality(Considered(hosts, config)) < config.minimum_hosts THEN {}
      ELSE {i \in O : Cardinality({j \in O : WorseThan(hosts, config, j, i)})
                       < EjectionCap(hosts, config)}

Evaluations(hosts, config) == {Evaluate(hosts, config, up) : up \in BOOLEAN}

=============================================================================
