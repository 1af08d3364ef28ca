-------------------------- MODULE PriorityRouting --------------------------
(***************************************************************************)
(* PriorityWeightedRandom and LocalityWeightedRandom of poise-core: which  *)
(* priority, in which mode, which locality and which member a decision may *)
(* come to.  A random ticket is the set of what it may fall on.  Sums of   *)
(* weights are checked: a decision fails when one of them does not fit.    *)
(***************************************************************************)
EXTENDS Candidates

CONSTANT TrafficUnits     \* the units of a share (TRAFFIC_UNITS)

ASSUME TrafficUnitsAssumption == TrafficUnits \in Nat \ {0}

PanicModes == {"use_all", "fail_closed"}

ValidPriorityConfig(config) ==
  /\ config.overprovisioning \in Nat /\ config.overprovisioning >= 100
  /\ config.panic_threshold \in 0..100
  /\ config.panic_mode \in PanicModes

Members(slice) == {i \in DOMAIN slice : IsPriorityMember(slice[i])}

MembersAt(slice, p) == {i \in Members(slice) : slice[i].priority = p}

Priorities(slice) == {slice[i].priority : i \in Members(slice)}

\* The members of one priority weigh too much together.
Overweight(slice) ==
  \E p \in Priorities(slice) : TotalWeight(slice, MembersAt(slice, p)) > MaxU64

RatioUnits(available, total, percent) ==
  Min({TrafficUnits, (available * percent * TrafficUnits) \div (total * 100)})

\* The eligible share of priority p, at a percentage of it.
Availability(slice, p, percent) ==
  RatioUnits(TotalWeight(slice, MembersAt(slice, p) \cap Eligible(slice)),
             TotalWeight(slice, MembersAt(slice, p)), percent)

Effective(slice, config, p) == Availability(slice, p, config.overprovisioning)

\* The effective availability of all the priorities before p, or of all.
Ahead(slice, config, p) ==
  MapThenSumSet(LAMBDA q : Effective(slice, config, q),
                {q \in Priorities(slice) : q < p})

TotalEffective(slice, config) ==
  Min({TrafficUnits,
       MapThenSumSet(LAMBDA q : Effective(slice, config, q), Priorities(slice))})

Shortage(slice, config) == TotalEffective(slice, config) < TrafficUnits

Panics(slice, config, p) ==
  LET threshold == (config.panic_threshold * TrafficUnits) \div 100
  IN  /\ Shortage(slice, config)
      /\ threshold > 0
      /\ Availability(slice, p, 100) < threshold

\* All a priority can take in a shortage, else what those before it left.
Traffic(slice, config, p) ==
  IF Shortage(slice, config)
  THEN Effective(slice, config, p)
  ELSE Min({Effective(slice, config, p),
            Max({0, TrafficUnits - Ahead(slice, config, p)})})

InScope(slice, p, mode) ==
  {i \in MembersAt(slice, p) :
     IF mode = "panic" THEN IsPanicEligible(slice[i]) ELSE IsEligible(slice[i])}

Scope(p, mode) == [error |-> "none", priority |-> p, mode |-> mode]

NoScope(error) == [error |-> error, priority |-> 0, mode |-> "healthy"]

\* What the choice of priority p comes to.
ScopeFromGroup(slice, config, p) ==
  LET mode == IF Panics(slice, config, p) THEN "panic" ELSE "healthy"
  IN  CASE mode = "panic" /\ config.panic_mode = "fail_closed" -> NoScope("PanicRejected")
        [] InScope(slice, p, mode) = {}
             /\ (mode = "healthy" \/ config.panic_mode = "use_all") ->
             NoScope("NoEligibleCandidates")
        [] OTHER -> Scope(p, mode)

\* No priority has anything available: those that panic share the traffic.
GlobalPanic(slice, config) ==
  LET P == {p \in Priorities(slice) :
              Panics(slice, config, p) /\ InScope(slice, p, "panic") # {}}
      S == UNION {InScope(slice, p, "panic") : p \in P}
      fits == TotalWeight(slice, S) <= MaxU64
  IN  CASE ~fits -> {NoScope("WeightOverflow")}
        [] fits /\ P = {} -> {NoScope("NoEligibleCandidates")}
        [] fits /\ P # {} /\ config.panic_mode = "fail_closed" ->
             {NoScope("PanicRejected")}
        [] OTHER -> {ScopeFromGroup(slice, config, p) : p \in P}

SelectScope(slice, config) ==
  CASE slice = <<>> -> {NoScope("Empty")}
    [] slice # <<>> /\ Members(slice) = {} -> {NoScope("NoEligibleCandidates")}
    [] Overweight(slice) -> {NoScope("WeightOverflow")}
    [] Members(slice) # {} /\ ~Overweight(slice) /\ TotalEffective(slice, config) = 0 ->
         GlobalPanic(slice, config)
    [] OTHER ->
         {ScopeFromGroup(slice, config, p) :
            p \in {q \in Priorities(slice) : Traffic(slice, config, q) > 0}}

Decision(i, scope) ==
  [index |-> i, error |-> scope.error, priority |-> scope.priority, mode |-> scope.mode]

\* Weights are positive, so a ticket falls on any member in scope.
PriorityDecisions(slice, config) ==
  UNION {IF s.error # "none" THEN {Decision(0, s)}
         ELSE {Decision(i, s) : i \in InScope(slice, s.priority, s.mode)} :
           s \in SelectScope(slice, config)}

-----------------------------------------------------------------------------
(* Localities divide the traffic of the priority that was chosen.          *)

LocalityMembers(slice, p, l) ==
  {i \in MembersAt(slice, p) : slice[i].locality = l}

Localities(slice, p) == {slice[i].locality : i \in MembersAt(slice, p)}

\* The weight the members of a locality agree on.
ConfiguredWeight(slice, p, l) ==
  CHOOSE w \in {slice[i].locality_weight : i \in LocalityMembers(slice, p, l)} : TRUE

Conflicting(slice, p) ==
  \E i, j \in MembersAt(slice, p) :
    /\ slice[i].locality = slice[j].locality
    /\ slice[i].locality_weight # slice[j].locality_weight

\* Mutant of LocalityWeight: a share may round to nothing.
LocalityWeightRounded(slice, config, scope, l) ==
  LET M == LocalityMembers(slice, scope.priority, l)
  IN  RatioUnits(TotalWeight(slice, M \cap InScope(slice, scope.priority, scope.mode)),
                 TotalWeight(slice, M), config.overprovisioning)

\* Rounding must not make a locality with members in scope unreachable.
LocalityWeight(slice, config, scope, l) ==
  LET M == LocalityMembers(slice, scope.priority, l)
      S == M \cap InScope(slice, scope.priority, scope.mode)
      share == RatioUnits(TotalWeight(slice, S), TotalWeight(slice, M),
                          config.overprovisioning)
  IN  ConfiguredWeight(slice, scope.priority, l)
        * IF S # {} THEN Max({share, 1}) ELSE share

\* Those a locality ticket may fall on.
Reachable(slice, config, scope) ==
  {l \in Localities(slice, scope.priority) : LocalityWeight(slice, config, scope, l) > 0}

\* The sum of the effective weights a locality ticket is drawn below.
LocalityTotal(slice, config, scope) ==
  MapThenSumSet(LAMBDA l : LocalityWeight(slice, config, scope, l),
                Localities(slice, scope.priority))

DecisionsInScope(slice, config, scope) ==
  CASE Conflicting(slice, scope.priority) ->
         {Decision(0, NoScope("InconsistentTopology"))}
    [] ~Conflicting(slice, scope.priority) /\ LocalityTotal(slice, config, scope) > MaxU64 ->
         {Decision(0, NoScope("WeightOverflow"))}
    [] OTHER ->
         {Decision(i, scope) :
            i \in {j \in InScope(slice, scope.priority, scope.mode) :
                     slice[j].locality \in Reachable(slice, config, scope)}}

LocalityDecisions(slice, config) ==
  UNION {IF s.error # "none" THEN {Decision(0, s)}
         ELSE DecisionsInScope(slice, config, s) : s \in SelectScope(slice, config)}

=============================================================================
