-------------------------- MODULE AffinityPolicies --------------------------
(***************************************************************************)
(* The policies of poise-core that hash a request key: rendezvous,         *)
(* weighted rendezvous, bounded load, ring hash and Maglev.                *)
(*                                                                         *)
(* The hash builder belongs to the caller.  `hash` is what it makes of     *)
(* each identity and request, one function per domain separator of the     *)
(* code; collisions are among its values.                                  *)
(***************************************************************************)
EXTENDS Candidates

CONSTANTS
  LogCost,    \* -ln of the unit interval's point a hash stands for
  Generations \* how many generations of a table there are before they wrap

\* A larger hash never costs more, and hashes that differ may cost the same.
ASSUME LogCostAssumption ==
  /\ \A h \in DOMAIN LogCost : h \in Nat /\ LogCost[h] \in Nat
  /\ \A g, h \in DOMAIN LogCost : g <= h => LogCost[h] <= LogCost[g]
ASSUME GenerationsAssumption == Generations \in Nat \ {0}

-----------------------------------------------------------------------------
(* Rendezvous: the highest score wins, then the earliest candidate.        *)

\* Mutant of Score: it depends on the place of the candidate in the slice.
ScoreByPlace(slice, request, hash, i) == (hash.score[request][slice[i].id] + i) % 4

Score(slice, request, hash, i) == hash.score[request][slice[i].id]

RendezvousBeats(slice, request, hash, i, j) ==
  \/ Score(slice, request, hash, i) > Score(slice, request, hash, j)
  \/ Score(slice, request, hash, i) = Score(slice, request, hash, j) /\ i < j

\* The smaller cost / weight wins, then the larger hash, then the earlier one.
WeightedBeats(slice, request, hash, i, j) ==
  LET h == Score(slice, request, hash, i)
      g == Score(slice, request, hash, j)
      left == LogCost[h] * slice[j].weight
      right == LogCost[g] * slice[i].weight
  IN  \/ left < right
      \/ left = right /\ h > g
      \/ left = right /\ h = g /\ i < j

Best(S, Beats(_, _)) == CHOOSE i \in S : \A j \in S \ {i} : Beats(i, j)

Rendezvous(slice, request, hash) ==
  IF Eligible(slice) = {} THEN Failed(NoCandidateError(slice))
  ELSE Selected(Best(Eligible(slice),
                     LAMBDA i, j : RendezvousBeats(slice, request, hash, i, j)))

\* The first of S in the order the weighted scores put the candidates in.
WeightedOwner(slice, request, hash, S) ==
  Best(S, LAMBDA i, j : WeightedBeats(slice, request, hash, i, j))

WeightedRendezvous(slice, request, hash) ==
  IF Eligible(slice) = {} THEN Failed(NoCandidateError(slice))
  ELSE Selected(WeightedOwner(slice, request, hash, Eligible(slice)))

-----------------------------------------------------------------------------
(* Bounded load: the first in that order with room for one request more.   *)

ValidBoundedLoadConfig(config) == config.factor \in Nat /\ config.factor >= 100

\* Mutant of CapacityFor: the share is rounded down.
CapacityForFloor(prospective, weight, total, factor) ==
  (prospective * weight * factor) \div (total * 100)

CapacityFor(prospective, weight, total, factor) ==
  (prospective * weight * factor + total * 100 - 1) \div (total * 100)

\* The capacity of the candidate at i for the request being placed.
Capacity(slice, factor, i) ==
  CapacityFor(TotalLoad(slice, Eligible(slice)) + 1, slice[i].weight,
              TotalWeight(slice, Eligible(slice)), factor)

WithRoom(slice, factor) ==
  {i \in Eligible(slice) : slice[i].load < Capacity(slice, factor, i)}

BoundedLoad(slice, request, hash, factor) ==
  LET E == Eligible(slice)
      R == WithRoom(slice, factor)
  IN  CASE E = {} -> Failed(NoCandidateError(slice))
        [] E # {} /\ TotalLoad(slice, E) + 1 > MaxU64 -> Failed("LoadOverflow")
        [] E # {} /\ TotalWeight(slice, E) > MaxU64 -> Failed("WeightOverflow")
        [] OTHER -> IF R = {} THEN Failed("StateCapacityExceeded")
                    ELSE Selected(WeightedOwner(slice, request, hash, R))

-----------------------------------------------------------------------------
(* Ring hash and Maglev keep a table beside the eligible members it was    *)
(* built from, and build another when the members of a slice are not these.*)

NoCache == [members |-> {}, table |-> {}, generation |-> 0]

Rebuilt(cache, members, table) ==
  [members |-> members, table |-> table,
   generation |-> (cache.generation + 1) % Generations]

\* Mutant of Reconciled: a table is kept while the identities and their places
\* are the same, whatever became of the weights.
ReconciledByPlace(slice, cache, members, fits, table) ==
  LET Places(M) == {<<m.index, m.key>> : m \in M}
  IN  CASE Places(members) = Places(cache.members) -> [error |-> "none", cache |-> cache]
        [] Places(members) # Places(cache.members) /\ ~fits ->
             [error |-> "StateCapacityExceeded", cache |-> cache]
        [] Places(members) # Places(cache.members) /\ fits
             /\ Repeats(slice, Eligible(slice)) ->
             [error |-> "DuplicateIdentity", cache |-> cache]
        [] OTHER -> [error |-> "none", cache |-> Rebuilt(cache, members, table)]

\* A slice whose members are not those of the cache has a table built, unless
\* its identities repeat or the table has no place for it.
Reconciled(slice, cache, members, fits, table) ==
  CASE members = cache.members -> [error |-> "none", cache |-> cache]
    [] members # cache.members /\ ~fits ->
         [error |-> "StateCapacityExceeded", cache |-> cache]
    [] members # cache.members /\ fits /\ Repeats(slice, Eligible(slice)) ->
         [error |-> "DuplicateIdentity", cache |-> cache]
    [] OTHER -> [error |-> "none", cache |-> Rebuilt(cache, members, table)]

\* The pick that follows: an error, nobody, or the owner of the request.
Answer(slice, reconciled, owner) ==
  CASE reconciled.error # "none" -> Failed(reconciled.error)
    [] reconciled.error = "none" /\ reconciled.cache.table = {} ->
         Failed(NoCandidateError(slice))
    [] OTHER -> Selected(owner)

ValidRingHashConfig(config) ==
  config.max_nodes \in Nat /\ config.replicas \in 1..config.max_nodes

RingMembers(slice) ==
  {[index |-> i, key |-> slice[i].id, weight |-> slice[i].weight] :
     i \in Eligible(slice)}

GreatestCommonDivisor(weights) ==
  Max({d \in 1..Min(weights) : \A w \in weights : w % d = 0})

\* Virtual nodes: `replicas` for each unit of normalized weight.
PointsFor(member, members, replicas) ==
  replicas * (member.weight \div GreatestCommonDivisor({m.weight : m \in members}))

RingPoints(members, hash, replicas) ==
  UNION {{[position |-> hash.point[m.key][r], owner_hash |-> hash.owner[m.key],
           replica |-> r, index |-> m.index] :
             r \in 0..(PointsFor(m, members, replicas) - 1)} : m \in members}

\* The order of the ring: position, then owner, replica and index.
Before(p, q) ==
  \/ p.position < q.position
  \/ p.position = q.position /\ \/ p.owner_hash < q.owner_hash
                                \/ p.owner_hash = q.owner_hash
                                     /\ \/ p.replica < q.replica
                                        \/ p.replica = q.replica /\ p.index < q.index

First(points) == CHOOSE p \in points : \A q \in points \ {p} : Before(p, q)

\* The first point at or after the request, or the first one of the ring.
Clockwise(points, position) ==
  LET after == {p \in points : p.position >= position}
  IN  IF after = {} THEN First(points) ELSE First(after)

\* A repeated identity is found before the points are counted.
RingReconciled(slice, cache, hash, config) ==
  LET M == RingMembers(slice)
      nodes == MapThenSumSet(LAMBDA m : PointsFor(m, M, config.replicas), M)
  IN  Reconciled(slice, cache, M,
                 Repeats(slice, Eligible(slice)) \/ nodes <= config.max_nodes,
                 RingPoints(M, hash, config.replicas))

RingHash(slice, request, hash, config, cache) ==
  LET r == RingReconciled(slice, cache, hash, config)
  IN  [result |-> Answer(slice, r, Clockwise(r.cache.table, hash.request[request]).index),
       cache  |-> r.cache]

-----------------------------------------------------------------------------
(* Maglev: a table of prime size, filled by the members in turns.          *)

IsPrime(n) == n >= 2 /\ \A d \in 2..(n - 1) : n % d # 0

MaxTableSize == 5000011

ValidMaglevConfig(config) ==
  /\ config.table_size \in Nat /\ config.table_size <= MaxTableSize
  /\ IsPrime(config.table_size)

MaglevMembers(slice) ==
  {[index |-> i, key |-> slice[i].id] : i \in Eligible(slice)}

\* The slots of a member, in the order it prefers them.
PermutationSlot(hash, size, key, ordinal) ==
  ((hash.offset[key] % size) + ordinal * ((hash.skip[key] % (size - 1)) + 1)) % size

\* The members in the order of their turns.
Turn(members, hash) ==
  CHOOSE turn \in [1..Cardinality(members) -> members] :
    \A i, j \in DOMAIN turn : i < j =>
      \/ hash.order[turn[i].key] < hash.order[turn[j].key]
      \/ hash.order[turn[i].key] = hash.order[turn[j].key] /\ turn[i].index < turn[j].index

\* The table as a set of <<slot, index>>: each turn takes the member's next
\* slot that no earlier turn has taken.
PopulateTable(members, hash, size) ==
  LET turn == Turn(members, hash)
      Filled[n \in 0..size] ==
        IF n = 0 THEN {}
        ELSE LET table == Filled[n - 1]
                 m     == turn[((n - 1) % Len(turn)) + 1]
                 Slot(o) == PermutationSlot(hash, size, m.key, o)
                 next  == Min({o \in 0..(size - 1) :
                                 \A e \in table : e[1] # Slot(o)})
             IN  table \cup {<<Slot(next), m.index>>}
  IN  IF members = {} THEN {} ELSE Filled[size]

MaglevReconciled(slice, cache, hash, config) ==
  LET M == MaglevMembers(slice)
      fits == Cardinality(M) <= config.table_size
  IN  Reconciled(slice, cache, M, fits,
                 IF fits THEN PopulateTable(M, hash, config.table_size) ELSE {})

OwnerOf(table, slot) == (CHOOSE e \in table : e[1] = slot)[2]

Maglev(slice, request, hash, config, cache) ==
  LET r == MaglevReconciled(slice, cache, hash, config)
      slot == hash.request[request] % config.table_size
  IN  [result |-> Answer(slice, r, OwnerOf(r.cache.table, slot)),
       cache  |-> r.cache]

=============================================================================
