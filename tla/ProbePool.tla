----------------------------- MODULE ProbePool -----------------------------
(***************************************************************************)
(* The pool of out-of-band observations of poise-core (ProbePool).         *)
(*                                                                         *)
(* Every operation runs under one lock, as of an instant its caller read   *)
(* beforehand: probes complete out of order and selectors race, so that    *)
(* instant is any one up to the present.                                   *)
(*                                                                         *)
(* The vector of entries is a set; an entry carries the number of its      *)
(* recording, which is its order in the vector.  What an observation       *)
(* reports is left out: a ranking function may choose any entry.           *)
(***************************************************************************)
EXTENDS Integers, FiniteSets

CONSTANTS
  Id,           \* the replicas observed
  Capacity,     \* capacity
  MaxUses,      \* max_uses
  MaxAge,       \* max_age, in clock ticks
  MaxRecords,   \* how many observations are recorded (bounds the model)
  MaxTime       \* the last instant of the clock (bounds the model)

ASSUME ConfigAssumption ==
  Capacity \in Nat \ {0} /\ MaxUses \in Nat \ {0} /\ MaxAge \in Nat \ {0}
ASSUME BoundsAssumption == MaxRecords \in Nat /\ MaxTime \in Nat

VARIABLES
  entries,    \* the observations retained
  clock,      \* the monotonic clock
  records,    \* how many observations were recorded so far
  informed,   \* how many decisions each recorded observation has informed
  last        \* the last operation and the instant it worked with

vars == <<entries, clock, records, informed, last>>

Instants   == 0..MaxTime
Operations == {"none", "record", "read", "decide", "clear"}

Entry == [number : 1..MaxRecords, id : Id, recorded_at : Instants,
          remaining_uses : 1..MaxUses]

TypeOK ==
  /\ entries \subseteq Entry
  /\ clock \in Instants
  /\ records \in 0..MaxRecords
  /\ informed \in [1..MaxRecords -> Nat]
  /\ last \in [op : Operations, now : Instants]

Init ==
  /\ entries = {}
  /\ clock = 0
  /\ records = 0
  /\ informed = [n \in 1..MaxRecords |-> 0]
  /\ last = [op |-> "none", now |-> 0]

Tick ==
  /\ clock < MaxTime
  /\ clock' = clock + 1
  /\ UNCHANGED <<entries, records, informed, last>>

\* Mutant of Unexpired: an entry of exactly the maximum age is kept.
UnexpiredLonger(now) == {e \in entries : now <= e.recorded_at + MaxAge}

\* expire: what is left as of an instant.  An entry recorded at a later instant
\* has no age.
Unexpired(now) == {e \in entries : now < e.recorded_at + MaxAge}

\* The first of the entries with the earliest instant.
Oldest(live) ==
  {o \in live : \A e \in live :
     \/ o.recorded_at < e.recorded_at
     \/ o.recorded_at = e.recorded_at /\ o.number <= e.number}

Did(op, now) == last' = [op |-> op, now |-> now]

\* Mutants of Record: one observation too many fits ...
RecordOverfull(id, now) ==
  LET live == Unexpired(now)
      new  == [number |-> records + 1, id |-> id, recorded_at |-> now,
               remaining_uses |-> MaxUses]
  IN
  /\ records < MaxRecords
  /\ records' = records + 1
  /\ \/ /\ Cardinality(live) <= Capacity
        /\ entries' = live \cup {new}
     \/ /\ Cardinality(live) > Capacity
        /\ \E oldest \in Oldest(live) :
             entries' = IF oldest.recorded_at > now
                          THEN live
                          ELSE (live \ {oldest}) \cup {new}
  /\ Did("record", now)
  /\ UNCHANGED <<clock, informed>>

\* ... or a late one replaces an observation fresher than itself.
RecordLate(id, now) ==
  LET live == Unexpired(now)
      new  == [number |-> records + 1, id |-> id, recorded_at |-> now,
               remaining_uses |-> MaxUses]
  IN
  /\ records < MaxRecords
  /\ records' = records + 1
  /\ \/ /\ Cardinality(live) < Capacity
        /\ entries' = live \cup {new}
     \/ /\ Cardinality(live) >= Capacity
        /\ \E oldest \in Oldest(live) : entries' = (live \ {oldest}) \cup {new}
  /\ Did("record", now)
  /\ UNCHANGED <<clock, informed>>

\* record_at: a full pool gives up its oldest entry, or refuses an observation
\* that is older still.
Record(id, now) ==
  LET live == Unexpired(now)
      new  == [number |-> records + 1, id |-> id, recorded_at |-> now,
               remaining_uses |-> MaxUses]
  IN
  /\ records < MaxRecords
  /\ records' = records + 1
  /\ \/ /\ Cardinality(live) < Capacity
        /\ entries' = live \cup {new}
     \/ /\ Cardinality(live) >= Capacity
        /\ \E oldest \in Oldest(live) :
             entries' = IF oldest.recorded_at > now
                          THEN live
                          ELSE (live \ {oldest}) \cup {new}
  /\ Did("record", now)
  /\ UNCHANGED <<clock, informed>>

\* Taking one use of an entry, which leaves with its last one.
Charged(live, e) ==
  IF e.remaining_uses = 1
    THEN live \ {e}
    ELSE (live \ {e}) \cup {[e EXCEPT !.remaining_uses = @ - 1]}

\* decide_at offers every unexpired entry, decide_among_at those of the
\* eligible candidates; the ranking function takes one ...
Decide(offered, now) ==
  /\ \E e \in Unexpired(now) :
       /\ e.id \in offered
       /\ entries' = Charged(Unexpired(now), e)
       /\ informed' = [informed EXCEPT ![e.number] = @ + 1]
  /\ Did("decide", now)
  /\ UNCHANGED <<clock, records>>

\* ... or there is none, or it takes none or an index that is out of bounds, or
\* it panics: only the expiry stands.  So it does for len_at.
Read(now) ==
  /\ entries' = Unexpired(now)
  /\ Did("read", now)
  /\ UNCHANGED <<clock, records, informed>>

Clear ==
  /\ entries' = {}
  /\ Did("clear", last.now)
  /\ UNCHANGED <<clock, records, informed>>

Next ==
  \/ Tick
  \/ \E now \in 0..clock :
       \/ \E id \in Id : Record(id, now)
       \/ \E offered \in SUBSET Id : Decide(offered, now)
       \/ Read(now)
  \/ Clear

Spec == Init /\ [][Next]_vars

-----------------------------------------------------------------------------
(* Properties.                                                             *)

\* No observation informs more than MaxUses decisions, however selectors race,
\* and none is retained without budget; the pool never exceeds its capacity
\* (the retention contract of ProbePool).
BudgetIsKept ==
  /\ Cardinality(entries) <= Capacity
  /\ \A n \in 1..MaxRecords : informed[n] <= MaxUses
  /\ \A e \in entries : informed[e.number] + e.remaining_uses = MaxUses

\* A step informs at most one decision, with an entry that was retained and not
\* aged out; one that was expired, evicted or exhausted never comes back.
DecisionsAreFresh ==
  [][\A n \in 1..MaxRecords :
       informed'[n] # informed[n] =>
         \E e \in entries :
           /\ e.number = n
           /\ last'.now < e.recorded_at + MaxAge
           /\ informed' = [informed EXCEPT ![n] = @ + 1]
    ]_vars

\* A full pool keeps what is freshest: an unexpired entry lost to a recording is
\* no fresher than anything retained, and an observation is refused only if it
\* is older than everything retained (record_at).
FreshestSurvives ==
  [][last'.op = "record" /\ records' # records =>
       LET live == {e \in entries : last'.now < e.recorded_at + MaxAge} IN
       /\ \A e \in live \ entries', f \in entries' : e.recorded_at <= f.recorded_at
       /\ entries' \subseteq entries =>
            Cardinality(entries') = Capacity
              /\ \A f \in entries' : last'.now < f.recorded_at
    ]_vars

-----------------------------------------------------------------------------
(* The inductive strengthening.                                            *)

\* An entry is one of the observations recorded, and no two are the same; an
\* observation not yet recorded has informed nothing.
Numbered ==
  /\ IsFiniteSet(entries)
  /\ \A e \in entries : e.number <= records
  /\ \A e, f \in entries : e.number = f.number => e = f
  /\ \A n \in 1..MaxRecords : n > records => informed[n] = 0

IInv == TypeOK /\ Numbered /\ BudgetIsKept

=============================================================================
