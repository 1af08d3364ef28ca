-------------------------- MODULE ProbePoolProofs --------------------------
(***************************************************************************)
(* Proofs about ProbePool, for any replicas, any configuration and any     *)
(* number of recordings: the reuse budget and the capacity are kept,       *)
(* decisions are fresh, and eviction keeps what is freshest.               *)
(***************************************************************************)
EXTENDS ProbePool, FiniteSetTheorems, TLAPS

USE ConfigAssumption, BoundsAssumption

-----------------------------------------------------------------------------
(* The sets of entries the operations build.                               *)

\* What has not expired is part of what was there.
LEMMA UnexpiredSubset ==
  ASSUME IInv, NEW now \in Instants
  PROVE  /\ Unexpired(now) \subseteq entries
         /\ IsFiniteSet(Unexpired(now))
         /\ Cardinality(Unexpired(now)) \in Nat
         /\ Cardinality(Unexpired(now)) <= Capacity
<1>1. Unexpired(now) \subseteq entries /\ IsFiniteSet(entries)
  BY DEF Unexpired, IInv, Numbered
<1>2. /\ IsFiniteSet(Unexpired(now))
      /\ Cardinality(Unexpired(now)) <= Cardinality(entries)
  BY <1>1, FS_Subset
<1> QED
  BY <1>1, <1>2, FS_CardinalityType DEF IInv, BudgetIsKept

\* The conditions on a set of entries that the invariant puts on the pool.
Sound(S, recorded, count) ==
  /\ S \subseteq Entry
  /\ IsFiniteSet(S)
  /\ Cardinality(S) <= Capacity
  /\ \A e \in S : e.number <= recorded
  /\ \A e, f \in S : e.number = f.number => e = f
  /\ \A e \in S : count[e.number] + e.remaining_uses = MaxUses

\* The invariant says that the pool is sound, and little more.
LEMMA SoundInv ==
  IInv <=> /\ Sound(entries, records, informed)
           /\ clock \in Instants
           /\ records \in 0..MaxRecords
           /\ informed \in [1..MaxRecords -> Nat]
           /\ last \in [op : Operations, now : Instants]
           /\ \A n \in 1..MaxRecords : informed[n] <= MaxUses
           /\ \A n \in 1..MaxRecords : n > records => informed[n] = 0
  BY DEF IInv, TypeOK, Numbered, BudgetIsKept, Sound

\* A part of a sound pool is sound.
LEMMA SoundSubset ==
  ASSUME NEW S, NEW recorded, NEW count, Sound(S, recorded, count),
         NEW T \in SUBSET S
  PROVE  Sound(T, recorded, count)
<1>1. /\ IsFiniteSet(T)
      /\ Cardinality(T) <= Cardinality(S)
      /\ Cardinality(T) \in Nat
      /\ Cardinality(S) \in Nat
  BY FS_Subset, FS_CardinalityType DEF Sound
<1> QED
  BY <1>1 DEF Sound

-----------------------------------------------------------------------------
(* Each operation keeps the invariant.                                     *)

\* A recording adds one entry with a full budget, to a pool that has room.
LEMMA RecordInv ==
  ASSUME IInv, NEW id \in Id, NEW now \in 0..clock, Record(id, now)
  PROVE  IInv'
<1> DEFINE live == Unexpired(now)
           new  == [number |-> records + 1, id |-> id, recorded_at |-> now,
                    remaining_uses |-> MaxUses]
<1>0. /\ now \in Instants
      /\ records \in 0..MaxRecords
      /\ informed \in [1..MaxRecords -> Nat]
      /\ \A n \in 1..MaxRecords : n > records => informed[n] = 0
  BY DEF IInv, TypeOK, Numbered, Instants
<1>1. /\ records + 1 \in 1..MaxRecords
      /\ records' = records + 1
      /\ informed' = informed
      /\ clock' = clock
      /\ last' \in [op : Operations, now : Instants]
  BY <1>0 DEF Record, Did, Operations
<1>2. new \in Entry /\ informed[records + 1] = 0
  BY <1>0, <1>1 DEF Entry
<1>3. Sound(live, records, informed)
  BY <1>0, SoundInv, SoundSubset, UnexpiredSubset
<1>4. ASSUME NEW T \in SUBSET live, Cardinality(T) < Capacity
      PROVE  Sound(T \cup {new}, records + 1, informed)
  <2>1. Sound(T, records, informed)
    BY <1>3, SoundSubset
  <2>2. new \notin T
    BY <1>0, <2>1 DEF Sound
  <2>3. /\ IsFiniteSet(T \cup {new})
        /\ Cardinality(T \cup {new}) = Cardinality(T) + 1
        /\ Cardinality(T) \in Nat
    BY <2>1, <2>2, FS_AddElement, FS_CardinalityType DEF Sound
  <2>4. \A e \in T : e.number \in 1..records /\ e.number # records + 1
    BY <1>0, <2>1 DEF Sound, Entry
  <2> QED
    BY <1>0, <1>2, <1>4, <2>1, <2>3, <2>4 DEF Sound
<1>5. Sound(live, records + 1, informed)
  BY <1>0, <1>3 DEF Sound, Entry
<1>6. Sound(entries', records', informed')
  <2>1. CASE Cardinality(live) < Capacity /\ entries' = live \cup {new}
    BY <1>1, <1>4, <2>1
  <2>2. ASSUME Cardinality(live) >= Capacity, NEW oldest \in Oldest(live),
               entries' = IF oldest.recorded_at > now
                            THEN live
                            ELSE (live \ {oldest}) \cup {new}
        PROVE  Sound(entries', records', informed')
    <3>1. CASE entries' = live
      BY <1>1, <1>5, <3>1
    <3>2. CASE entries' = (live \ {oldest}) \cup {new}
      <4>1. oldest \in live
        BY DEF Oldest
      <4>2. Cardinality(live \ {oldest}) = Cardinality(live) - 1
        BY <1>0, <4>1, UnexpiredSubset, FS_RemoveElement
      <4>3. Cardinality(live \ {oldest}) < Capacity
        BY <1>0, <4>2, UnexpiredSubset
      <4> QED
        BY <1>1, <1>4, <3>2, <4>3
    <3> QED
      BY <2>2, <3>1, <3>2
  <2> QED
    BY <2>1, <2>2 DEF Record
<1>7. \A n \in 1..MaxRecords : /\ informed'[n] <= MaxUses
                               /\ n > records' => informed'[n] = 0
  BY <1>0, <1>1 DEF IInv, BudgetIsKept
<1> QED
  BY <1>0, <1>1, <1>6, <1>7, SoundInv DEF IInv, TypeOK, Sound, Numbered, BudgetIsKept

\* A decision moves one use from the entry to what it has informed.
LEMMA DecideInv ==
  ASSUME IInv, NEW offered, NEW now \in 0..clock, Decide(offered, now)
  PROVE  IInv'
<1> DEFINE live == Unexpired(now)
<1>0. /\ now \in Instants
      /\ informed \in [1..MaxRecords -> Nat]
      /\ \A n \in 1..MaxRecords : informed[n] <= MaxUses
  BY DEF IInv, TypeOK, Instants, BudgetIsKept
<1>1. PICK e \in live : /\ entries' = Charged(live, e)
                        /\ informed' = [informed EXCEPT ![e.number] = @ + 1]
  BY DEF Decide
<1>2. Sound(live, records, informed)
  BY <1>0, SoundInv, SoundSubset, UnexpiredSubset
<1>3. /\ e \in Entry
      /\ e.number \in 1..MaxRecords
      /\ e.remaining_uses \in 1..MaxUses
      /\ informed[e.number] + e.remaining_uses = MaxUses
      /\ e.number <= records
  BY <1>1, <1>2 DEF Sound, Entry
<1>4. \A f \in live \ {e} : f.number # e.number /\ f.number \in 1..MaxRecords
  BY <1>1, <1>2 DEF Sound, Entry
<1>5. Sound(live \ {e}, records, informed')
  <2>1. Sound(live \ {e}, records, informed)
    BY <1>2, SoundSubset
  <2> QED
    BY <1>0, <1>1, <1>3, <1>4, <2>1 DEF Sound
<1>6. Sound(entries', records, informed')
  <2> DEFINE c == [e EXCEPT !.remaining_uses = @ - 1]
  <2>1. CASE e.remaining_uses = 1
    BY <1>1, <1>5, <2>1 DEF Charged
  <2>2. CASE e.remaining_uses # 1
    <3>1. entries' = (live \ {e}) \cup {c}
      BY <1>1, <2>2 DEF Charged
    <3>2. /\ c \in Entry
          /\ c.number = e.number
          /\ c.remaining_uses = e.remaining_uses - 1
      BY <1>3, <2>2 DEF Entry
    <3>3. c \notin live \ {e}
      BY <1>4, <3>2
    <3>4. Cardinality(live \ {e}) = Cardinality(live) - 1
      BY <1>0, <1>1, UnexpiredSubset, FS_RemoveElement
    <3>5. IsFiniteSet(live \ {e}) /\ Cardinality(live \ {e}) \in Nat
      BY <1>5, FS_CardinalityType DEF Sound
    <3>6. /\ IsFiniteSet(entries')
          /\ Cardinality(entries') <= Capacity
      <4>1. /\ IsFiniteSet((live \ {e}) \cup {c})
            /\ Cardinality((live \ {e}) \cup {c}) = Cardinality(live \ {e}) + 1
        <5> DEFINE rest == live \ {e}
        <5>1. IsFiniteSet(rest) /\ c \notin rest
          BY <3>3, <3>5
        <5> HIDE DEF rest, c
        <5>2. /\ IsFiniteSet(rest \cup {c})
              /\ Cardinality(rest \cup {c}) = Cardinality(rest) + 1
          BY <5>1, FS_AddElement
        <5> QED
          BY <5>2 DEF rest
      <4> QED
        BY <1>0, <3>1, <3>4, <4>1, UnexpiredSubset
    <3>7. informed'[c.number] + c.remaining_uses = MaxUses
      BY <1>0, <1>1, <1>3, <3>2
    <3>8. \A f, g \in entries' : f.number = g.number => f = g
      BY <1>4, <1>5, <3>1, <3>2 DEF Sound
    <3> QED
      BY <1>3, <1>5, <3>1, <3>2, <3>6, <3>7, <3>8 DEF Sound
  <2> QED
    BY <2>1, <2>2
<1>7. /\ informed' \in [1..MaxRecords -> Nat]
      /\ \A n \in 1..MaxRecords : informed'[n] <= MaxUses
      /\ \A n \in 1..MaxRecords : n > records => informed'[n] = 0
  <2>1. \A n \in 1..MaxRecords : n > records => informed[n] = 0
    BY DEF IInv, Numbered
  <2>2. records \in Nat
    BY DEF IInv, TypeOK
  <2> QED
    BY <1>0, <1>1, <1>3, <2>1, <2>2, SMTT(20)
<1>8. /\ UNCHANGED <<clock, records>>
      /\ last' \in [op : Operations, now : Instants]
  BY <1>0 DEF Decide, Did, Operations
<1> QED
  BY <1>6, <1>7, <1>8, SoundInv DEF IInv, TypeOK, Sound, Numbered, BudgetIsKept

\* An operation that only drops entries keeps the invariant.
LEMMA DropInv ==
  ASSUME IInv, entries' \subseteq entries, UNCHANGED <<records, informed>>,
         clock' \in Instants, last' \in [op : Operations, now : Instants]
  PROVE  IInv'
<1>1. Sound(entries', records, informed)
  BY SoundInv, SoundSubset
<1> QED
  BY <1>1, SoundInv DEF IInv, TypeOK, Sound, Numbered, BudgetIsKept

\* Every step keeps the invariant.
LEMMA NextInv == IInv /\ [Next]_vars => IInv'
<1> SUFFICES ASSUME IInv, [Next]_vars
             PROVE  IInv'
  OBVIOUS
<1>0. clock \in Instants /\ last \in [op : Operations, now : Instants]
  BY DEF IInv, TypeOK
<1>1. CASE Tick
  BY <1>0, <1>1, DropInv DEF Tick, Instants
<1>2. ASSUME NEW now \in 0..clock, NEW id \in Id, Record(id, now)
      PROVE  IInv'
  BY <1>2, RecordInv
<1>3. ASSUME NEW now \in 0..clock, NEW offered \in SUBSET Id, Decide(offered, now)
      PROVE  IInv'
  BY <1>3, DecideInv
<1>4. ASSUME NEW now \in 0..clock, Read(now)
      PROVE  IInv'
  <2>1. now \in Instants
    BY <1>0 DEF Instants
  <2> QED
    BY <1>0, <1>4, <2>1, DropInv, UnexpiredSubset DEF Read, Did, Operations
<1>5. CASE Clear
  BY <1>0, <1>5, DropInv DEF Clear, Did, Operations
<1>6. CASE UNCHANGED vars
  BY <1>0, <1>6, DropInv DEF vars
<1> QED
  BY <1>1, <1>2, <1>3, <1>4, <1>5, <1>6 DEF Next

\* The inductive invariant holds of every execution.
THEOREM Invariance == Spec => []IInv
<1>1. Init => IInv
  BY FS_EmptySet
  DEF Init, IInv, TypeOK, Numbered, BudgetIsKept, Instants, Operations
<1> QED
  BY <1>1, NextInv, PTL DEF Spec

\* The pool always has its type.
THEOREM TypeCorrect == Spec => []TypeOK
<1>1. IInv => TypeOK
  BY DEF IInv
<1> QED
  BY <1>1, Invariance, PTL

\* No observation informs more decisions than its budget allows, and the pool
\* never exceeds its capacity.
THEOREM BudgetKept == Spec => []BudgetIsKept
<1>1. IInv => BudgetIsKept
  BY DEF IInv
<1> QED
  BY <1>1, Invariance, PTL

-----------------------------------------------------------------------------
(* Action properties.                                                      *)

\* A step informs at most one decision, with an unexpired entry.
FreshStep ==
  \A n \in 1..MaxRecords :
    informed'[n] # informed[n] =>
      \E e \in entries :
        /\ e.number = n
        /\ last'.now < e.recorded_at + MaxAge
        /\ informed' = [informed EXCEPT ![n] = @ + 1]

\* Only a decision informs anything.
LEMMA NextFresh == IInv /\ [Next]_vars => FreshStep
<1> SUFFICES ASSUME IInv, [Next]_vars
             PROVE  FreshStep
  OBVIOUS
<1>1. CASE UNCHANGED informed
  BY <1>1 DEF FreshStep
<1>2. ASSUME NEW now \in 0..clock, NEW offered \in SUBSET Id, Decide(offered, now)
      PROVE  FreshStep
  <2>1. informed \in [1..MaxRecords -> Nat] /\ last'.now = now
    BY <1>2 DEF Decide, Did, IInv, TypeOK
  <2>2. PICK e \in Unexpired(now) :
               informed' = [informed EXCEPT ![e.number] = @ + 1]
    BY <1>2 DEF Decide
  <2> QED
    BY <2>1, <2>2 DEF FreshStep, Unexpired
<1> QED
  BY <1>1, <1>2 DEF Next, Tick, Record, Read, Clear, vars

\* A decision is informed by an entry that was retained and had not aged out, as
\* of the instant it was made with.
THEOREM DecisionsFresh == Spec => DecisionsAreFresh
<1>1. IInv /\ [Next]_vars => [FreshStep]_vars
  BY NextFresh
<1> QED
  BY <1>1, Invariance, PTL DEF Spec, DecisionsAreFresh, FreshStep

\* A recording gives up nothing fresher than what the pool then holds.
FreshestStep ==
  last'.op = "record" /\ records' # records =>
    LET live == {e \in entries : last'.now < e.recorded_at + MaxAge} IN
    /\ \A e \in live \ entries', f \in entries' : e.recorded_at <= f.recorded_at
    /\ entries' \subseteq entries =>
         Cardinality(entries') = Capacity
           /\ \A f \in entries' : last'.now < f.recorded_at

\* Only a recording numbers a new observation.
LEMMA NextFreshest == IInv /\ [Next]_vars => FreshestStep
<1> SUFFICES ASSUME IInv, [Next]_vars
             PROVE  FreshestStep
  OBVIOUS
<1>1. CASE UNCHANGED records
  BY <1>1 DEF FreshestStep
<1>2. ASSUME NEW now \in 0..clock, NEW id \in Id, Record(id, now)
      PROVE  FreshestStep
  <2> DEFINE live == Unexpired(now)
             new  == [number |-> records + 1, id |-> id, recorded_at |-> now,
                      remaining_uses |-> MaxUses]
  <2>0. now \in Instants
    BY DEF IInv, TypeOK, Instants
  <2>1. last'.now = now /\ live = {e \in entries : last'.now < e.recorded_at + MaxAge}
    BY <1>2 DEF Record, Did, Unexpired
  <2>2. new \notin entries
    BY DEF IInv, TypeOK, Numbered
  <2>3. \A e \in live : e \in entries /\ e.recorded_at \in Nat
    BY DEF Unexpired, IInv, TypeOK, Entry, Instants
  <2>4. CASE entries' = live \cup {new}
    BY <2>1, <2>2, <2>4 DEF FreshestStep
  <2>5. ASSUME Cardinality(live) >= Capacity, NEW oldest \in Oldest(live),
               entries' = IF oldest.recorded_at > now
                            THEN live
                            ELSE (live \ {oldest}) \cup {new}
        PROVE  FreshestStep
    <3>1. oldest \in live /\ \A e \in live : oldest.recorded_at <= e.recorded_at
      BY <2>3 DEF Oldest
    <3>2. CASE oldest.recorded_at > now /\ entries' = live
      <4>1. Cardinality(live) = Capacity
        BY <2>0, <2>5, UnexpiredSubset
      <4>2. \A f \in live : now < f.recorded_at
        BY <2>0, <2>3, <3>1, <3>2 DEF Instants
      <4> QED
        BY <2>1, <3>2, <4>1, <4>2 DEF FreshestStep
    <3>3. CASE ~(oldest.recorded_at > now) /\ entries' = (live \ {oldest}) \cup {new}
      <4>1. oldest.recorded_at <= now /\ new.recorded_at = now
        BY <2>0, <2>3, <3>1, <3>3 DEF Instants
      <4>2. \A e \in live \ entries' : e = oldest
        BY <3>3
      <4>3. \A f \in entries' : oldest.recorded_at <= f.recorded_at
        BY <3>1, <3>3, <4>1
      <4> QED
        BY <2>1, <2>2, <3>3, <4>2, <4>3 DEF FreshestStep
    <3> QED
      BY <2>5, <3>2, <3>3
  <2> QED
    BY <1>2, <2>4, <2>5 DEF Record
<1> QED
  BY <1>1, <1>2 DEF Next, Tick, Decide, Read, Clear, vars

\* A full pool keeps what is freshest, whatever the order the probes complete in.
THEOREM FreshestKept == Spec => FreshestSurvives
<1>1. IInv /\ [Next]_vars => [FreshestStep]_vars
  BY NextFreshest
<1> QED
  BY <1>1, Invariance, PTL DEF Spec, FreshestSurvives, FreshestStep

=============================================================================
