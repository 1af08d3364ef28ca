------------------------------ MODULE Routing ------------------------------
(***************************************************************************)
(* A balancer that owns one policy of poise-core and picks with it, again  *)
(* and again, from slices its membership gives it in any order.  Between   *)
(* two picks members may come, go, drain, fail, recover, move, change      *)
(* weight or load.                                                         *)
(***************************************************************************)
EXTENDS SelectionPolicies, AffinityPolicies, PriorityRouting

CONSTANTS
  Policies,    \* [kind, hash, config, inputs]: the policies a balancer may own
  Slices,      \* the slices a policy may be given, for each name of inputs
  Request,     \* the keys of requests
  MaxCursor    \* the largest cursor a policy is made with (bounds the model)

Rotating == {"round_robin", "least_loaded", "smooth_weighted_round_robin"}
Drawing  == {"random", "weighted_random", "power_of_two_choices"}
Hashing  == {"rendezvous", "weighted_rendezvous", "bounded_load"}
Caching  == {"ring_hash", "maglev"}
Grouping == {"priority", "locality"}
Kinds    == Rotating \cup Drawing \cup Hashing \cup Caching \cup Grouping

\* What the constructors of the configurations accept.
ValidConfig(p) ==
  CASE p.kind = "bounded_load" -> ValidBoundedLoadConfig(p.config)
    [] p.kind = "ring_hash" -> ValidRingHashConfig(p.config)
    [] p.kind = "maglev" -> ValidMaglevConfig(p.config)
    [] p.kind \in Grouping -> ValidPriorityConfig(p.config)
    [] OTHER -> TRUE

\* A hash builder makes a number of everything it is asked about.
ValidHash(p) ==
  CASE p.kind \in Hashing ->
         \A q \in Request, id \in Id : p.hash.score[q][id] \in DOMAIN LogCost
    [] p.kind = "ring_hash" ->
         /\ \A id \in Id :
              /\ p.hash.owner[id] \in Nat
              /\ \A r \in 0..(p.config.max_nodes - 1) : p.hash.point[id][r] \in Nat
         /\ \A q \in Request : p.hash.request[q] \in Nat
    [] p.kind = "maglev" ->
         /\ \A id \in Id : /\ p.hash.offset[id] \in Nat /\ p.hash.skip[id] \in Nat
                           /\ p.hash.order[id] \in Nat
         /\ \A q \in Request : p.hash.request[q] \in Nat
    [] OTHER -> TRUE

ASSUME PoliciesAssumption ==
  \A p \in Policies : /\ p.kind \in Kinds /\ ValidConfig(p) /\ ValidHash(p)
                      /\ p.inputs \in DOMAIN Slices
ASSUME SlicesAssumption ==
  \A inputs \in DOMAIN Slices : \A slice \in Slices[inputs] :
    /\ slice \in Seq({slice[i] : i \in DOMAIN slice}) /\ Len(slice) <= MaxU64
    /\ \A i \in DOMAIN slice : IsCandidate(slice[i])
ASSUME MaxCursorAssumption == MaxCursor \in 0..MaxU64

VARIABLES
  policy,      \* the policy, its hash builder and its configuration
  cursor,      \* of round robin and least loaded
  smooth,      \* the states and the epoch of smooth weighted round robin
  cache,       \* the members and the table of ring hash and Maglev
  last,        \* the last pick: its slice, its request and its result
  streak       \* history: who was served since the rotation last changed

stateVars == <<cursor, smooth, cache>>
routingVars == <<policy, stateVars, last, streak>>

NoStreak == [slice |-> <<>>, served |-> [id \in {} |-> 0]]

NoPick == [slice |-> <<>>, request |-> 0, result |-> Failed("Empty")]

RoutingInit ==
  /\ policy \in Policies
  /\ cursor \in IF policy.kind \in {"round_robin", "least_loaded"}
                THEN 0..MaxCursor ELSE {0}
  /\ smooth = [states |-> NoStates, epoch |-> 0]
  /\ cache = NoCache
  /\ last = NoPick
  /\ streak = NoStreak

-----------------------------------------------------------------------------
(* History: the cycles of the policies that take turns.                    *)

\* The places of a slice that take turns, and the turns of an identity.
Rota(slice) ==
  IF policy.kind = "least_loaded" THEN LeastLoadedOf(slice) ELSE Eligible(slice)

Shares(slice) ==
  [id \in {slice[i].id : i \in Rota(slice)} |->
     MapThenSumSet(
       LAMBDA i : IF policy.kind = "smooth_weighted_round_robin"
                  THEN slice[i].weight ELSE 1,
       {i \in Rota(slice) : slice[i].id = id})]

Turns(served) == MapThenSumSet(LAMBDA id : served[id], DOMAIN served)

CycleEnds ==
  /\ streak.slice # <<>>
  /\ Turns(streak.served) = Turns(Shares(streak.slice))

\* Smooth credits follow identities; a cursor follows places.
SameRotation(slice) ==
  IF policy.kind = "smooth_weighted_round_robin"
  THEN Shares(slice) = Shares(streak.slice) /\ smooth.epoch # MaxEpoch
  ELSE slice = streak.slice

\* A cycle starts from a cursor anywhere, or from credits that are even.
Even(slice) ==
  \/ policy.kind # "smooth_weighted_round_robin"
  \/ smooth.epoch = MaxEpoch
  \/ \A i \in Eligible(slice) :
       slice[i].id \in DOMAIN smooth.states => smooth.states[slice[i].id].current = 0

Served(slice, served, result) == [served EXCEPT ![slice[result.index].id] = @ + 1]

Streak(slice, result) ==
  CASE policy.kind \notin Rotating \/ result.index = 0 -> NoStreak
    [] policy.kind \in Rotating /\ result.index # 0 /\ streak.slice # <<>>
         /\ ~CycleEnds /\ SameRotation(slice) ->
         [slice |-> streak.slice, served |-> Served(slice, streak.served, result)]
    [] OTHER ->
         IF ~Even(slice) THEN NoStreak
         ELSE [slice |-> slice,
               served |-> Served(slice, [id \in DOMAIN Shares(slice) |-> 0], result)]

-----------------------------------------------------------------------------
(* One pick of each policy.                                                *)

Note(slice, request, result) ==
  /\ last' = [slice |-> slice, request |-> request, result |-> result]
  /\ streak' = Streak(slice, result)
  /\ UNCHANGED policy

PickInTurn ==
  /\ policy.kind \in {"round_robin", "least_loaded"}
  /\ \E slice \in Slices[policy.inputs] :
       LET o == IF policy.kind = "round_robin"
                THEN RoundRobin(slice, cursor) ELSE LeastLoaded(slice, cursor)
       IN  cursor' = o.cursor /\ Note(slice, 0, o.result)
  /\ UNCHANGED <<smooth, cache>>

PickSmoothly ==
  /\ policy.kind = "smooth_weighted_round_robin"
  /\ \E slice \in Slices[policy.inputs] :
       LET o == SmoothWeightedRoundRobin(slice, smooth)
       IN  smooth' = o.smooth /\ Note(slice, 0, o.result)
  /\ UNCHANGED <<cursor, cache>>

\* reset() of the policies that keep state.
Reset ==
  /\ policy.kind \in {"smooth_weighted_round_robin"} \cup Caching
  /\ smooth' = [states |-> NoStates, epoch |-> 0]
  /\ cache' = NoCache
  /\ last' = NoPick
  /\ streak' = NoStreak
  /\ UNCHANGED <<policy, cursor>>

PickAtRandom ==
  /\ policy.kind \in Drawing
  /\ \E slice \in Slices[policy.inputs] :
       \E result \in CASE policy.kind = "random" -> Random(slice)
                       [] policy.kind = "weighted_random" -> WeightedRandom(slice)
                       [] OTHER -> PowerOfTwoChoices(slice) :
         Note(slice, 0, result)
  /\ UNCHANGED stateVars

PickByScore ==
  /\ policy.kind \in Hashing
  /\ \E slice \in Slices[policy.inputs], q \in Request :
       Note(slice, q,
            CASE policy.kind = "rendezvous" -> Rendezvous(slice, q, policy.hash)
              [] policy.kind = "weighted_rendezvous" ->
                   WeightedRendezvous(slice, q, policy.hash)
              [] OTHER -> BoundedLoad(slice, q, policy.hash, policy.config.factor))
  /\ UNCHANGED stateVars

PickFromTable ==
  /\ policy.kind \in Caching
  /\ \E slice \in Slices[policy.inputs], q \in Request :
       LET o == IF policy.kind = "ring_hash"
                THEN RingHash(slice, q, policy.hash, policy.config, cache)
                ELSE Maglev(slice, q, policy.hash, policy.config, cache)
       IN  cache' = o.cache /\ Note(slice, q, o.result)
  /\ UNCHANGED <<cursor, smooth>>

PickInGroups ==
  /\ policy.kind \in Grouping
  /\ \E slice \in Slices[policy.inputs] :
       \E d \in IF policy.kind = "priority"
                THEN PriorityDecisions(slice, policy.config)
                ELSE LocalityDecisions(slice, policy.config) :
         Note(slice, 0, d)
  /\ UNCHANGED stateVars

Pick ==
  \/ PickInTurn   \/ PickSmoothly  \/ PickAtRandom
  \/ PickByScore  \/ PickFromTable \/ PickInGroups

RoutingNext == Pick \/ Reset

RoutingSpec == RoutingInit /\ [][RoutingNext]_routingVars

-----------------------------------------------------------------------------
(* The properties of the policies.                                         *)

RoutingTypeOK ==
  /\ policy \in Policies
  /\ cursor \in 0..MaxU64
  /\ \A id \in DOMAIN smooth.states :
       /\ id \in Id
       /\ smooth.states[id].current \in Int
       /\ smooth.states[id].seen_in \in 0..MaxEpoch
  /\ smooth.epoch \in 0..MaxEpoch
  /\ last.result.index \in 0..Len(last.slice)
  /\ last.result.error \in PickErrors \cup {"none"}
  /\ (last.result.index = 0) = (last.result.error # "none")

\* The most the localities of a priority may weigh, all their members available.
LocalitiesMayWeigh(slice, p) ==
  MapThenSumSet(LAMBDA l : TrafficUnits * ConfiguredWeight(slice, p, l),
                Localities(slice, p))

\* The failures a slice gives a policy of this kind the right to.
Excused(slice) ==
  LET E == Eligible(slice)
      error == last.result.error
  IN  \/ error = "DuplicateIdentity"
           /\ policy.kind \in Caching \cup {"smooth_weighted_round_robin"}
           /\ Repeats(slice, E)
      \/ error = "LoadOverflow"
           /\ policy.kind = "bounded_load" /\ TotalLoad(slice, E) >= MaxU64
      \/ error = "WeightOverflow"
           /\ \/ /\ policy.kind \in {"weighted_random", "bounded_load"}
                 /\ TotalWeight(slice, E) > MaxU64
              \/ /\ policy.kind \in Grouping
                 /\ TotalWeight(slice, Members(slice)) > MaxU64
              \/ /\ policy.kind = "locality"
                 /\ \E p \in Priorities(slice) : LocalitiesMayWeigh(slice, p) > MaxU64
      \/ error = "InconsistentTopology"
           /\ policy.kind = "locality"
           /\ \E p \in Priorities(slice) : Conflicting(slice, p)
      \/ error = "StateCapacityExceeded"
           /\ \/ policy.kind = "maglev" /\ Cardinality(E) > policy.config.table_size
              \/ /\ policy.kind = "ring_hash"
                 /\ TotalWeight(slice, E) * policy.config.replicas
                      > policy.config.max_nodes

\* Whatever was picked before, a pick from a slice with an eligible candidate
\* returns an eligible one, and one from a slice without says so; a failure
\* of another kind is one the slice itself explains: no stale epoch makes an
\* identity look repeated, and bounded load always leaves somebody room.
PicksAreJustified ==
  LET E == Eligible(last.slice)
  IN  policy.kind \notin Grouping =>
        CASE last.slice = <<>> -> last.result.error = "Empty"
          [] last.slice # <<>> /\ E = {} -> last.result.error = "NoEligibleCandidates"
          [] OTHER -> last.result.index \in E \/ Excused(last.slice)

\* Least loaded takes a least load; power of two never the one that is
\* strictly the most loaded of several; bounded load one with room for the
\* request, and the owner the scores give it if that has room.
LoadIsRespected ==
  LET E == Eligible(last.slice)
      i == last.result.index
      Load(j) == last.slice[j].load
  IN  i # 0 =>
        CASE policy.kind = "least_loaded" -> \A j \in E : Load(i) <= Load(j)
          [] policy.kind = "power_of_two_choices" ->
               E = {i} \/ \E j \in E \ {i} : Load(i) <= Load(j)
          [] policy.kind = "bounded_load" ->
               LET factor == policy.config.factor
                   owner == WeightedOwner(last.slice, last.request, policy.hash, E)
               IN  /\ 100 * TotalWeight(last.slice, E) * Load(i)
                        < factor * last.slice[i].weight * (TotalLoad(last.slice, E) + 1)
                   /\ owner # i => 100 * TotalWeight(last.slice, E) * Load(owner)
                        >= factor * last.slice[owner].weight * (TotalLoad(last.slice, E) + 1)
          [] OTHER -> TRUE

\* A complete cycle gives each candidate exactly its share: its weight under
\* smooth weighted round robin, also when the slice is reordered inside the
\* cycle or the credits were kept from other slices; one turn under round
\* robin and among equal loads, from any cursor.
CyclesAreExact == CycleEnds => streak.served = Shares(streak.slice)

\* The members of a slice, the table that belongs to them, and its room.
MembersOf(p, slice) ==
  IF p.kind = "ring_hash" THEN RingMembers(slice) ELSE MaglevMembers(slice)

TableOf(p, members) ==
  IF p.kind = "ring_hash" THEN RingPoints(members, p.hash, p.config.replicas)
  ELSE PopulateTable(members, p.hash, p.config.table_size)

FitIn(p, members) ==
  IF p.kind = "ring_hash"
  THEN MapThenSumSet(LAMBDA m : PointsFor(m, members, p.config.replicas), members)
         <= p.config.max_nodes
  ELSE Cardinality(members) <= p.config.table_size

\* Going clockwise from the position, a point of i is met before any other.
OwnsOnRing(points, position, i) ==
  \E p \in points :
    /\ p.index = i
    /\ \A q \in points \ {p} :
         IF (p.position >= position) = (q.position >= position)
         THEN Before(p, q) ELSE p.position >= position

\* The slot has one owner, and it is i.
OwnsSlot(table, slot, i) ==
  <<slot, i>> \in table /\ \A e \in table : e[1] = slot => e[2] = i

\* A table is never older than the slice it answers for: what a successful
\* pick leaves is the table of that slice's members, with their places and,
\* on a ring, their weights of now, and whoever answers owns the request in
\* it.  A failed pick leaves a table that fits its members.  Maglev's members
\* have equal parts of the table, but for one slot.
TablesAreCurrent ==
  LET i == last.result.index
      position == policy.hash.request[last.request]
      Slots(m) == {e \in cache.table : e[2] = m.index}
  IN  policy.kind \in Caching =>
        /\ cache.members # {} => cache.table = TableOf(policy, cache.members)
        /\ i # 0 =>
             /\ cache.members = MembersOf(policy, last.slice)
             /\ policy.kind = "ring_hash" => OwnsOnRing(cache.table, position, i)
             /\ policy.kind = "maglev" =>
                  OwnsSlot(cache.table, position % policy.config.table_size, i)
        /\ policy.kind = "maglev" => \A m, n \in cache.members :
             Cardinality(Slots(m)) <= Cardinality(Slots(n)) + 1

\* The weights identity id is eligible with.
Standing(slice, id) ==
  {slice[i].weight : i \in {j \in Eligible(slice) : slice[j].id = id}}

\* The order of the slice decides between two identities the hash gives one value.
Collide(slice, request) ==
  \E i, j \in Eligible(slice) :
    /\ slice[i].id # slice[j].id
    /\ IF policy.kind = "ring_hash"
       THEN policy.hash.owner[slice[i].id] = policy.hash.owner[slice[j].id]
       ELSE Score(slice, request, policy.hash, i) = Score(slice, request, policy.hash, j)

Weights(slice) == {slice[i].weight : i \in Eligible(slice)}

SameScale(slice, other) ==
  policy.kind = "ring_hash" =>
    GreatestCommonDivisor(Weights(slice)) = GreatestCommonDivisor(Weights(other))

\* Between two picks for one request, the request leaves a candidate only if
\* that candidate or the one it goes to came, left, or changed its weight:
\* whatever else the slice did, reordered or lost and gained others, no
\* request moves between two that stayed as they were.  (Rendezvous, weighted
\* rendezvous, and ring hash while the weights keep their common divisor;
\* Maglev moves a few requests more.)
OnlyChangedKeysMove ==
  [][LET old == last.slice[last.result.index]
         new == last'.slice[last'.result.index]
     IN  /\ policy.kind \in {"rendezvous", "weighted_rendezvous", "ring_hash"}
         /\ last.result.index # 0 /\ last'.result.index # 0
         /\ last'.request = last.request
         /\ ~Collide(last.slice, last.request) /\ ~Collide(last'.slice, last.request)
         /\ SameScale(last.slice, last'.slice)
         /\ new.id # old.id
         => \E id \in {old.id, new.id} :
              Standing(last.slice, id) # Standing(last'.slice, id)]_routingVars

\* Without a shortage the priorities share the whole traffic, nobody panics
\* and a pick always finds an eligible member, however the shares round,
\* unless the slice itself contradicts itself or its weights may add up to
\* more than a sum holds; a
\* priority is used only when those before it cannot take everything.  In a
\* shortage an ineligible member is picked only in a priority that is below
\* the threshold, if it admits this and is not draining.  A locality with
\* members to pick is never out of reach.
TrafficIsCovered ==
  LET slice == last.slice
      config == policy.config
      r == last.result
      threshold == (config.panic_threshold * TrafficUnits) \div 100
  IN  policy.kind \in Grouping /\ slice # <<>> =>
        /\ ~Shortage(slice, config) =>
             MapThenSumSet(LAMBDA p : Traffic(slice, config, p), Priorities(slice))
               = TrafficUnits
        /\ \/ r.error = "none"
           \/ Shortage(slice, config) /\ r.error = "NoEligibleCandidates"
           \/ /\ Shortage(slice, config) /\ r.error = "PanicRejected"
              /\ config.panic_mode = "fail_closed"
           \/ Excused(slice)
        /\ r.index # 0 =>
             /\ Ahead(slice, config, r.priority) < TrafficUnits
             /\ slice[r.index].priority = r.priority
             /\ \/ IsEligible(slice[r.index])
                \/ /\ Shortage(slice, config) /\ config.panic_mode = "use_all"
                   /\ Availability(slice, r.priority, 100) < threshold
                   /\ IsPanicEligible(slice[r.index])
        /\ \A s \in SelectScope(slice, config) : s.error = "none" =>
             Reachable(slice, config, s)
               = {slice[i].locality : i \in InScope(slice, s.priority, s.mode)}

-----------------------------------------------------------------------------
(* The inductive invariant of the picks.                                   *)

\* A cache was built from a slice the policy was given: its members, whose
\* identities do not repeat, and their table, which had room for them.
BuiltFrom(p, slice, c) ==
  /\ c.members = MembersOf(p, slice)
  /\ c.table = TableOf(p, c.members)
  /\ FitIn(p, c.members)
  /\ ~Repeats(slice, Eligible(slice))

CacheIsBuilt ==
  policy.kind \in Caching =>
    \E slice \in Slices[policy.inputs] \cup {<<>>} : BuiltFrom(policy, slice, cache)

\* No state of smooth weighted round robin is from a later epoch.
StatesAreStamped ==
  /\ smooth = [states |-> smooth.states, epoch |-> smooth.epoch]
  /\ \A id \in DOMAIN smooth.states : smooth.states[id].seen_in <= smooth.epoch

LastIsGiven == last.slice \in Slices[policy.inputs] \cup {<<>>}

\* Who was selected last owns the request among the eligible of the slice,
\* or in the table, which is that of the slice.
LastIsOwner ==
  LET slice == last.slice
      i == last.result.index
      Others == Eligible(slice) \ {i}
  IN  i # 0 =>
        /\ i \in Eligible(slice) \/ policy.kind \in Grouping
        /\ policy.kind \in Hashing \cup Caching => last.request \in Request
        /\ policy.kind = "rendezvous" => \A j \in Others :
             RendezvousBeats(slice, last.request, policy.hash, i, j)
        /\ policy.kind = "weighted_rendezvous" => \A j \in Others :
             WeightedBeats(slice, last.request, policy.hash, i, j)
        /\ policy.kind \in Caching => BuiltFrom(policy, slice, cache)
        /\ policy.kind = "ring_hash" =>
             i = Clockwise(cache.table, policy.hash.request[last.request]).index
        /\ policy.kind = "maglev" =>
             i = OwnerOf(cache.table,
                         policy.hash.request[last.request] % policy.config.table_size)

LastIsDecided ==
  last.slice # <<>> =>
    /\ policy.kind = "priority" =>
         last.result \in PriorityDecisions(last.slice, policy.config)
    /\ policy.kind = "locality" =>
         last.result \in LocalityDecisions(last.slice, policy.config)

PicksIInv ==
  /\ RoutingTypeOK /\ StatesAreStamped
  /\ LastIsGiven /\ LastIsOwner /\ LastIsDecided /\ CacheIsBuilt
  /\ PicksAreJustified /\ LoadIsRespected

\* Who was served in a cycle by a cursor: the places it has been to, which are
\* those it comes to last from where it is.
Visited(slice, served, V) ==
  LET R == Rota(slice)
  IN  /\ V \subseteq R
      /\ \A id \in DOMAIN served :
           served[id] = Cardinality({i \in V : slice[i].id = id})
      /\ \A v \in V, u \in R \ V :
           Distance(slice, cursor, u) < Distance(slice, cursor, v)

\* Who was served in a cycle by credits: each identity is owed its share of the
\* turns taken, has been charged the turns it took, and owes less than a cycle.
Charged(shares, served, states) ==
  /\ DOMAIN states = DOMAIN shares
  /\ \A id \in DOMAIN shares :
       /\ states[id].current = Turns(served) * shares[id] - served[id] * Turns(shares)
       /\ states[id].current > -Turns(shares)

StreakIInv ==
  LET slice == streak.slice
      shares == Shares(slice)
  IN  slice # <<>> =>
        /\ policy.kind \in Rotating /\ slice \in Slices[policy.inputs]
        /\ streak.served \in [DOMAIN shares -> Nat]
        /\ IF policy.kind = "smooth_weighted_round_robin"
           THEN Charged(shares, streak.served, smooth.states)
           ELSE \E V \in SUBSET Rota(slice) : Visited(slice, streak.served, V)

=============================================================================
