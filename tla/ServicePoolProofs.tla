------------------------- MODULE ServicePoolProofs -------------------------
(***************************************************************************)
(* Proofs about ServicePool, for any keys, requests, limits and budgets    *)
(* and any last revision: the pool is the snapshot of the revision it      *)
(* claims, reservations and loads follow their generations through every   *)
(* reconciliation, and calls reach only members that may be called.        *)
(***************************************************************************)
EXTENDS ServicePool, FiniteSetTheorems, TLAPS

USE ConfigAssumption

\* The lemmas about the operations of a directory.
Ops == INSTANCE DirectoryProofs WITH
  Backend <- Allocations, staging <- FALSE, staged <- directory,
  published <- snapshot, outcome <- "none", before <- directory, changes <- 0

-----------------------------------------------------------------------------
(* The writer's directory.                                                 *)

LEMMA DirectoryIsOps ==
  /\ Writer!Directory = Ops!Directory
  /\ \A d : Writer!IsExact(d) <=> Ops!IsExact(d)
<1>1. Writer!Directory = Ops!Directory
  BY DEF Writer!Directory, Ops!Directory, Writer!Entry, Ops!Entry,
         Writer!Positions, Ops!Positions, Writer!Memberships, Ops!Memberships
<1>2. \A d : Writer!IsExact(d) <=> Ops!IsExact(d)
  BY DEF Writer!IsExact, Ops!IsExact, Writer!Places, Ops!Places,
         Writer!Known, Ops!Known, Writer!Found, Ops!Found
<1> QED
  BY <1>1, <1>2

\* What the invariant says of the writer.
LEMMA WriterInvariant ==
  Writer!IInv <=>
    /\ Ops!WellFormed(directory)
    /\ snapshot \in Writer!Snapshot
    /\ snapshot.revision <= directory.revision
    /\ snapshot.revision = directory.revision =>
         snapshot.members = directory.entries
BY DirectoryIsOps
   DEF Writer!IInv, Writer!TypeOK, Writer!EntriesCostRevisions,
       Writer!IndexIsExact, Writer!RevisionIdentifies, Writer!StagedExtends,
       Writer!Outcomes, Ops!WellFormed

LEMMA WriterInvariantNext ==
  Writer!IInv' <=>
    /\ Ops!WellFormed(directory')
    /\ snapshot' \in Writer!Snapshot
    /\ snapshot'.revision <= directory'.revision
    /\ snapshot'.revision = directory'.revision =>
         snapshot'.members = directory'.entries
BY DirectoryIsOps
   DEF Writer!IInv, Writer!TypeOK, Writer!EntriesCostRevisions,
       Writer!IndexIsExact, Writer!RevisionIdentifies, Writer!StagedExtends,
       Writer!Outcomes, Ops!WellFormed

\* The shape of a well formed directory.
LEMMA WellFormedDirectory ==
  ASSUME NEW d, Ops!WellFormed(d)
  PROVE  /\ d \in Writer!Directory
         /\ d.revision \in 0..MaxRevision
         /\ d.entries \in Seq(Writer!Entry)
         /\ \A i \in 1..Len(d.entries) : d.entries[i].backend \in Int
         /\ OnePerKey(d.entries)
<1>1. d \in Writer!Directory
  BY DirectoryIsOps DEF Ops!WellFormed
<1>2. d.revision \in 0..MaxRevision /\ d.entries \in Seq(Writer!Entry)
  BY <1>1 DEF Writer!Directory
<1>3. OnePerKey(d.entries)
  BY Ops!Exact DEF OnePerKey, Ops!Places
<1>4. \A i \in 1..Len(d.entries) : d.entries[i].backend \in Int
  <2>1. \A i \in 1..Len(d.entries) : d.entries[i] \in Writer!Entry
    BY <1>2
  <2>2. \A e \in Writer!Entry : e.backend \in Int
    BY DEF Writer!Entry, Allocations
  <2> QED
    BY <2>1, <2>2
<1> QED
  BY <1>1, <1>2, <1>3, <1>4

\* The members after a change are those before it, but for one of the
\* allocation this revision made.
Inherits(d, e) ==
  \A j \in 1..Len(e.entries) :
    \/ e.entries[j].backend = e.revision
    \/ \E i \in 1..Len(d.entries) : /\ d.entries[i].key = e.entries[j].key
                                    /\ d.entries[i].backend = e.entries[j].backend

LEMMA UpsertedInherits ==
  ASSUME NEW d, Ops!WellFormed(d), ~Writer!Exhausted(d), NEW k \in Key
  PROVE  LET e == Writer!Upserted(d, k, d.revision + 1) IN
         /\ Ops!WellFormed(e)
         /\ e.revision = d.revision + 1
         /\ Inherits(d, e)
<1> DEFINE b == d.revision + 1
           e == Ops!Upserted(d, k, b)
<1>1. Writer!Upserted(d, k, b) = e
  BY DEF Writer!Upserted, Ops!Upserted, Writer!Known, Ops!Known,
         Writer!WithEntry, Ops!WithEntry, Writer!Indexed, Ops!Indexed,
         Writer!Active, Ops!Active
<1>2. ~Ops!Exhausted(d) /\ b \in Allocations
  BY WellFormedDirectory DEF Writer!Exhausted, Ops!Exhausted, Allocations
<1>3. Ops!WellFormed(e) /\ e.revision = b
  BY <1>2, Ops!UpsertedWellFormed
<1>4. Inherits(d, e)
  <2>1. CASE Ops!Known(d, k)
    <3> DEFINE at == d.positions[k]
    <3>1. /\ e.entries = [d.entries EXCEPT ![at] = Ops!Active(k, b)]
          /\ at \in 1..Len(d.entries)
          /\ Ops!Active(k, b).backend = b
      BY <2>1, Ops!Exact
         DEF Ops!Upserted, Ops!WithEntry, Ops!Known, Ops!Places, Ops!Active
    <3>2. d.entries \in Seq(Writer!Entry)
      BY WellFormedDirectory
    <3>3. /\ Len(e.entries) = Len(d.entries)
          /\ \A j \in 1..Len(d.entries) :
               e.entries[j] = IF j = at THEN Ops!Active(k, b) ELSE d.entries[j]
      <4> HIDE DEF at, e
      <4> QED
        BY <3>1, <3>2
    <3> HIDE DEF at, e
    <3> QED
      BY <1>3, <3>1, <3>3 DEF Inherits
  <2>2. CASE ~Ops!Known(d, k)
    <3>1. /\ Len(e.entries) = Len(d.entries) + 1
          /\ \A i \in 1..Len(d.entries) : e.entries[i] = d.entries[i]
      BY <1>2, <2>2, Ops!AppendedWellFormed DEF Ops!Places
    <3>2. d.entries \in Seq(Writer!Entry) /\ Ops!Active(k, b).backend = b
      BY WellFormedDirectory DEF Ops!Active
    <3>3. e.entries = Append(d.entries, Ops!Active(k, b))
      BY <2>2 DEF Ops!Upserted
    <3>4. e.entries[Len(d.entries) + 1].backend = b
      <4> HIDE DEF e, b
      <4> QED
        BY <3>2, <3>3
    <3> HIDE DEF e
    <3> QED
      BY <1>3, <3>1, <3>2, <3>4 DEF Inherits
  <2> QED
    BY <2>1, <2>2
<1> QED
  BY <1>1, <1>3, <1>4

LEMMA DrainedInherits ==
  ASSUME NEW d, Ops!WellFormed(d), ~Writer!Exhausted(d),
         NEW k \in Key, Writer!CanDrain(d, k)
  PROVE  LET e == Writer!Drained(d, k) IN
         /\ Ops!WellFormed(e)
         /\ e.revision = d.revision + 1
         /\ Inherits(d, e)
<1> DEFINE e == Ops!Drained(d, k)
           at == d.positions[k]
           entry == [d.entries[at] EXCEPT !.membership = "draining"]
<1>1. Writer!Drained(d, k) = e
  BY DEF Writer!Drained, Ops!Drained, Writer!WithEntry, Ops!WithEntry,
         Writer!Found, Ops!Found
<1>2. ~Ops!Exhausted(d) /\ Ops!CanDrain(d, k)
  BY DEF Writer!Exhausted, Ops!Exhausted, Writer!CanDrain, Ops!CanDrain,
         Writer!Known, Ops!Known, Writer!Found, Ops!Found
<1>3. Ops!WellFormed(e) /\ e.revision = d.revision + 1
  BY <1>2, Ops!DrainedWellFormed
<1>4. /\ e.entries = [d.entries EXCEPT ![at] = entry]
      /\ at \in 1..Len(d.entries)
  BY <1>2, Ops!Exact
     DEF Ops!CanDrain, Ops!Known, Ops!Places, Ops!Drained, Ops!WithEntry,
         Ops!Found
<1>5. d.entries \in Seq(Writer!Entry)
  BY WellFormedDirectory
<1>6. /\ entry.key = d.entries[at].key
      /\ entry.backend = d.entries[at].backend
  BY <1>4, <1>5 DEF Writer!Entry
<1>7. /\ Len(e.entries) = Len(d.entries)
      /\ \A j \in 1..Len(d.entries) :
           e.entries[j] = IF j = at THEN entry ELSE d.entries[j]
  <2> HIDE DEF e, at, entry
  <2> QED
    BY <1>4, <1>5
<1> HIDE DEF e, at, entry
<1> QED
  BY <1>1, <1>3, <1>4, <1>6, <1>7 DEF Inherits

LEMMA RemovedInherits ==
  ASSUME NEW d, Ops!WellFormed(d), ~Writer!Exhausted(d),
         NEW k \in Key, Writer!CanRemove(d, k)
  PROVE  LET e == Writer!Removed(d, k) IN
         /\ Ops!WellFormed(e)
         /\ e.revision = d.revision + 1
         /\ Inherits(d, e)
<1> DEFINE e == Ops!Removed(d, k)
           n == Len(d.entries)
           at == d.positions[k]
<1>1. Writer!Removed(d, k) = e
  BY DEF Writer!Removed, Ops!Removed, Writer!Reindexed, Ops!Reindexed,
         Writer!Without, Ops!Without
<1>2. ~Ops!Exhausted(d) /\ k \in DOMAIN d.positions
  BY DEF Writer!Exhausted, Ops!Exhausted, Writer!CanRemove, Writer!Known
<1>3. /\ Ops!WellFormed(e)
      /\ e.revision = d.revision + 1
      /\ Len(e.entries) = n - 1
  BY <1>2, Ops!RemovedWellFormed
<1>4. e.entries = [j \in 1..n - 1 |-> IF j < at THEN d.entries[j]
                                                ELSE d.entries[j + 1]]
  BY DEF Ops!Removed, Ops!Without
<1>5. n \in Nat
  BY WellFormedDirectory
<1> HIDE DEF e, n, at
<1>6. \A j \in 1..n - 1 : \E i \in 1..n : e.entries[j] = d.entries[i]
  BY <1>4, <1>5
<1> QED
  BY <1>1, <1>3, <1>6 DEF Inherits, n

-----------------------------------------------------------------------------
(* The pool.                                                               *)

LEMMA Sequence ==
  ASSUME NEW n \in Nat, NEW S, NEW f \in [1..n -> S]
  PROVE  f \in Seq(S) /\ Len(f) = n
OBVIOUS

\* What the invariant says of the pool.
LEMMA PoolFacts ==
  ASSUME IInv
  PROVE  /\ Len(endpoints) \in Nat
         /\ Len(Members) = Len(endpoints)
         /\ \A i \in 1..Len(endpoints) :
              /\ endpoints[i] \in Endpoint
              /\ Members[i] = endpoints[i].member
              /\ endpoints[i].service = [key     |-> endpoints[i].member.key,
                                         backend |-> endpoints[i].member.backend]
              /\ endpoints[i].member.backend <= revision
         /\ \A i, j \in 1..Len(endpoints) :
              \/ endpoints[i].member.key = endpoints[j].member.key
              \/ endpoints[i].service = endpoints[j].service
              => i = j
<1>1. endpoints \in Seq(Endpoint)
  BY DEF IInv, TypeOK
<1>2. Len(endpoints) \in Nat /\ \A i \in 1..Len(endpoints) : endpoints[i] \in Endpoint
  BY <1>1
<1>3. \A i \in 1..Len(endpoints) : /\ endpoints[i].member \in Writer!Entry
                                   /\ endpoints[i].service \in Service
  BY <1>2 DEF Endpoint
<1>4. /\ Len(Members) = Len(endpoints)
      /\ \A i \in 1..Len(endpoints) : Members[i] = endpoints[i].member
  <2>1. Members \in [1..Len(endpoints) -> Writer!Entry]
    BY <1>3 DEF Members
  <2> QED
    BY <1>2, <2>1, Sequence DEF Members
<1>5. \A i \in 1..Len(endpoints) :
        endpoints[i].service = [key     |-> endpoints[i].member.key,
                                backend |-> endpoints[i].member.backend]
  BY DEF IInv, PoolMirrors
<1>6. \A i \in 1..Len(endpoints) : endpoints[i].member.backend <= revision
  BY <1>4 DEF IInv, AllocationsAreDated, MadeBy
<1>7. \A i, j \in 1..Len(endpoints) :
        endpoints[i].member.key = endpoints[j].member.key => i = j
  BY <1>4 DEF IInv, MembersAreDistinct, OnePerKey
<1>8. \A i, j \in 1..Len(endpoints) :
        endpoints[i].service = endpoints[j].service => i = j
  <2> SUFFICES ASSUME NEW i \in 1..Len(endpoints), NEW j \in 1..Len(endpoints),
                      endpoints[i].service = endpoints[j].service
               PROVE  i = j
    OBVIOUS
  <2> DEFINE of(member) == [key |-> member.key, backend |-> member.backend]
  <2>1. of(endpoints[i].member) = of(endpoints[j].member)
    BY <1>5
  <2>2. endpoints[i].member.key = endpoints[j].member.key
    BY <2>1
  <2> QED
    BY <2>2, <1>7
<1> QED
  BY <1>2, <1>4, <1>5, <1>6, <1>7, <1>8

\* A step that leaves every member and its service in its place.
LEMMA SamePlaces ==
  ASSUME IInv, endpoints' \in Seq(Endpoint), Len(endpoints') = Len(endpoints),
         \A i \in 1..Len(endpoints) :
           /\ endpoints'[i].member = endpoints[i].member
           /\ endpoints'[i].service = endpoints[i].service,
         UNCHANGED <<directory, snapshot, revision>>
  PROVE  /\ Members' = Members
         /\ Writer!IInv'
         /\ MembersAreDistinct'
         /\ AllocationsDoNotReturn'
         /\ PoolMirrors'
         /\ (\A q \in Request : future'[q] # None => future'[q] <= revision)
              => AllocationsAreDated'
<1>1. Members' = Members
  BY DEF Members
<1>2. Writer!IInv'
  BY WriterInvariant, WriterInvariantNext DEF IInv
<1>3. MembersAreDistinct'
  BY <1>1 DEF IInv, MembersAreDistinct
<1>4. AllocationsDoNotReturn'
  BY <1>1 DEF IInv, AllocationsDoNotReturn
<1>5. PoolMirrors'
  BY <1>1 DEF IInv, PoolMirrors
<1>6. (\A q \in Request : future'[q] # None => future'[q] <= revision)
        => AllocationsAreDated'
  BY <1>1 DEF IInv, AllocationsAreDated
<1> QED
  BY <1>1, <1>2, <1>3, <1>4, <1>5, <1>6

\* A step that changes nothing the invariant relates.
LEMMA Frame ==
  ASSUME IInv, TypeOK',
         UNCHANGED <<directory, snapshot, revision, endpoints, load, future, granted>>
  PROVE  IInv'
<1>1. endpoints' \in Seq(Endpoint)
  BY DEF TypeOK
<1>2. AllocationsAreDated'
  BY <1>1, SamePlaces DEF IInv, AllocationsAreDated
<1>3. ReservationsAreKept' /\ LoadIsOutstanding'
  BY DEF IInv, ReservationsAreKept, LoadIsOutstanding
<1> QED
  BY <1>1, <1>2, <1>3, SamePlaces DEF IInv

-----------------------------------------------------------------------------
(* Around the balancer.                                                    *)

LEMMA ChangeInvariant ==
  ASSUME IInv, NEW d, Change(d), Ops!WellFormed(d),
         d.revision = directory.revision + 1, Inherits(directory, d)
  PROVE  IInv'
<1>1. /\ directory' = d
      /\ UNCHANGED <<snapshot, revision, endpoints, load, future, granted>>
  BY DEF Change, clientVars
<1>2. /\ Ops!WellFormed(directory)
      /\ snapshot \in Writer!Snapshot
      /\ snapshot.revision <= directory.revision
  BY WriterInvariant DEF IInv
<1>3. /\ directory.revision \in Int
      /\ snapshot.revision \in Int
      /\ d \in Writer!Directory
      /\ \A j \in 1..Len(d.entries) : d.entries[j].backend \in Int
      /\ \A i \in 1..Len(directory.entries) : directory.entries[i].backend \in Int
  BY <1>2, WellFormedDirectory DEF Writer!Snapshot
<1>4. TypeOK'
  BY <1>3 DEF IInv, TypeOK, Change, streamVars, pollVars, clientVars
<1>5. Writer!IInv'
  BY <1>1, <1>2, <1>3, WriterInvariantNext
<1>6. MembersAreDistinct' /\ PoolMirrors'
  BY <1>1 DEF IInv, MembersAreDistinct, PoolMirrors, Members
<1>7. Members' = Members
  BY <1>1 DEF Members
<1>8. AllocationsAreDated'
  <2>1. MadeBy(d.entries, d.revision)
    BY <1>3 DEF Inherits, MadeBy, IInv, AllocationsAreDated
  <2> QED
    BY <2>1, <1>1, <1>7 DEF IInv, AllocationsAreDated
<1>9. AllocationsDoNotReturn'
  <2>1. Continues(snapshot.members, snapshot.revision, d.entries)
    BY <1>2, <1>3 DEF Inherits, Continues, IInv, AllocationsDoNotReturn
  <2> QED
    BY <2>1, <1>1, <1>7 DEF IInv, AllocationsDoNotReturn
<1>10. ReservationsAreKept' /\ LoadIsOutstanding'
  BY <1>1 DEF IInv, ReservationsAreKept, LoadIsOutstanding
<1> QED
  BY <1>4, <1>5, <1>6, <1>8, <1>9, <1>10 DEF IInv

LEMMA UpdateInvariant ==
  ASSUME IInv, NEW k \in Key, Update(k)
  PROVE  IInv'
<1>1. Ops!WellFormed(directory)
  BY WriterInvariant DEF IInv
<1>2. CASE /\ ~Writer!Exhausted(directory)
           /\ Change(Writer!Upserted(directory, k, directory.revision + 1))
  BY <1>1, <1>2, UpsertedInherits, ChangeInvariant
<1>3. CASE /\ ~Writer!Exhausted(directory)
           /\ Writer!CanDrain(directory, k)
           /\ Change(Writer!Drained(directory, k))
  BY <1>1, <1>3, DrainedInherits, ChangeInvariant
<1>4. CASE /\ ~Writer!Exhausted(directory)
           /\ Writer!CanRemove(directory, k)
           /\ Change(Writer!Removed(directory, k))
  BY <1>1, <1>4, RemovedInherits, ChangeInvariant
<1> QED
  BY <1>2, <1>3, <1>4 DEF Update

LEMMA PublishInvariant ==
  ASSUME IInv, Publish
  PROVE  IInv'
<1>1. /\ directory.revision > snapshot.revision
      /\ snapshot' = Writer!SnapshotOf(directory)
      /\ UNCHANGED <<directory, revision, endpoints, load, future, granted>>
  BY DEF Publish, clientVars
<1>2. /\ Ops!WellFormed(directory)
      /\ snapshot \in Writer!Snapshot
  BY WriterInvariant DEF IInv
<1>3. /\ directory.revision \in 0..MaxRevision
      /\ directory.entries \in Seq(Writer!Entry)
      /\ OnePerKey(directory.entries)
      /\ snapshot.revision \in 0..MaxRevision
      /\ revision \in None..MaxRevision
  BY <1>2, WellFormedDirectory DEF Writer!Snapshot, IInv, TypeOK
<1>4. /\ snapshot'.revision = directory.revision
      /\ snapshot'.members = directory.entries
      /\ snapshot' \in Writer!Snapshot
  BY <1>1, <1>3 DEF Writer!SnapshotOf, Writer!Snapshot
<1>5. TypeOK'
  BY <1>4 DEF IInv, TypeOK, Publish, Notify, clientVars
<1>6. Writer!IInv'
  BY <1>1, <1>2, <1>3, <1>4, WriterInvariantNext
<1>7. Members' = Members
  BY <1>1 DEF Members
<1>8. MembersAreDistinct'
  BY <1>3, <1>4, <1>7 DEF IInv, MembersAreDistinct
<1>9. AllocationsAreDated'
  BY <1>1, <1>4, <1>7 DEF IInv, AllocationsAreDated
<1>10. AllocationsDoNotReturn'
  <2>1. Continues(directory.entries, directory.revision, directory.entries)
    BY DEF Continues
  <2>2. Continues(Members, revision, directory.entries)
    <3> SUFFICES ASSUME NEW j \in 1..Len(directory.entries),
                        directory.entries[j].backend <= revision
                 PROVE  \E i \in 1..Len(Members) :
                          /\ Members[i].key = directory.entries[j].key
                          /\ Members[i].backend = directory.entries[j].backend
      BY DEF Continues
    <3>1. revision <= snapshot.revision
      BY DEF IInv, PoolMirrors
    <3>2. directory.entries[j].backend \in Int
      BY <1>2, WellFormedDirectory
    <3>3. directory.entries[j].backend <= snapshot.revision
      BY <1>3, <3>1, <3>2 DEF None
    <3>4. PICK m \in 1..Len(snapshot.members) :
            /\ snapshot.members[m].key = directory.entries[j].key
            /\ snapshot.members[m].backend = directory.entries[j].backend
      BY <3>3 DEF IInv, AllocationsDoNotReturn, Continues
    <3> QED
      BY <3>4 DEF IInv, AllocationsDoNotReturn, Continues
  <2> QED
    BY <2>1, <2>2, <1>1, <1>4, <1>7 DEF AllocationsDoNotReturn
<1>11. PoolMirrors'
  BY <1>1, <1>3, <1>4, <1>7 DEF IInv, PoolMirrors, None
<1>12. ReservationsAreKept' /\ LoadIsOutstanding'
  BY <1>1 DEF IInv, ReservationsAreKept, LoadIsOutstanding
<1> QED
  BY <1>5, <1>6, <1>8, <1>9, <1>10, <1>11, <1>12 DEF IInv

-----------------------------------------------------------------------------
(* Reconciliation.                                                         *)

\* The service a member is served by.
ServiceOf(member) == [key |-> member.key, backend |-> member.backend]

\* Every member of the snapshot gets an endpoint of its own service: the one
\* its generation has, or a new one that is idle.
LEMMA Reconciliation ==
  ASSUME IInv
  PROVE  LET pool == Reconciled(snapshot.members) IN
         /\ pool \in Seq(Endpoint)
         /\ Len(pool) = Len(snapshot.members)
         /\ \A j \in 1..Len(pool) :
              /\ pool[j].member = snapshot.members[j]
              /\ pool[j].service = ServiceOf(snapshot.members[j])
              /\ \/ \E i \in 1..Len(endpoints) :
                      /\ endpoints[i].service = pool[j].service
                      /\ endpoints[i].readiness = pool[j].readiness
                 \/ /\ \A i \in 1..Len(endpoints) :
                         endpoints[i].service # pool[j].service
                    /\ pool[j].readiness = "idle"
<1> DEFINE pool == Reconciled(snapshot.members)
           n == Len(snapshot.members)
<1>1. n \in Nat /\ \A j \in 1..n : snapshot.members[j] \in Writer!Entry
  BY DEF IInv, TypeOK, Writer!Snapshot
<1>2. ASSUME NEW j \in 1..n
      PROVE  /\ pool[j] \in Endpoint
             /\ pool[j].member = snapshot.members[j]
             /\ pool[j].service = ServiceOf(snapshot.members[j])
             /\ \/ \E i \in 1..Len(endpoints) :
                     /\ endpoints[i].service = pool[j].service
                     /\ endpoints[i].readiness = pool[j].readiness
                \/ /\ \A i \in 1..Len(endpoints) :
                        endpoints[i].service # pool[j].service
                   /\ pool[j].readiness = "idle"
  <2> DEFINE member == snapshot.members[j]
  <2>1. member \in Writer!Entry /\ ServiceOf(member) \in Service
    BY <1>1 DEF ServiceOf, Service, Writer!Entry
  <2>2. CASE Kept(member) # {}
    <3> DEFINE e == CHOOSE e \in Kept(member) : TRUE
    <3>1. e \in Kept(member)
      BY <2>2
    <3>2. PICK i \in 1..Len(endpoints) : e = endpoints[i]
      BY <3>1 DEF Kept
    <3>3. e.member.key = member.key /\ e.member.backend = member.backend
      BY <3>1 DEF Kept
    <3>4. pool[j] = [e EXCEPT !.member = member]
      BY <2>2 DEF Reconciled
    <3> HIDE DEF e, member, pool
    <3>5. e \in Endpoint /\ e.service = ServiceOf(member)
      BY <3>2, <3>3, PoolFacts DEF ServiceOf
    <3>6. /\ pool[j] \in Endpoint
          /\ pool[j].member = member
          /\ pool[j].service = e.service
          /\ pool[j].readiness = e.readiness
      BY <2>1, <3>4, <3>5 DEF Endpoint
    <3> QED
      BY <3>2, <3>5, <3>6 DEF member
  <2>3. CASE Kept(member) = {}
    <3>1. pool[j] = [member |-> member, service |-> ServiceOf(member),
                     readiness |-> "idle"]
      BY <2>3 DEF Reconciled, Built, ServiceOf
    <3> HIDE DEF pool, member
    <3>2. /\ pool[j] \in Endpoint
          /\ pool[j].member = member
          /\ pool[j].service = ServiceOf(member)
          /\ pool[j].readiness = "idle"
      BY <2>1, <3>1 DEF Endpoint
    <3>3. ASSUME NEW i \in 1..Len(endpoints),
                 endpoints[i].service = ServiceOf(member)
          PROVE  FALSE
      <4>1. ServiceOf(endpoints[i].member) = ServiceOf(member)
        BY <3>3, PoolFacts DEF ServiceOf
      <4>2. /\ endpoints[i].member.key = member.key
            /\ endpoints[i].member.backend = member.backend
        BY <4>1 DEF ServiceOf
      <4> QED
        BY <4>2, <2>3 DEF Kept
    <3> QED
      BY <3>2, <3>3 DEF member
  <2> QED
    BY <2>2, <2>3
<1>3. pool \in Seq(Endpoint) /\ Len(pool) = n
  <2>1. pool \in [1..n -> Endpoint]
    <3>1. pool = [j \in 1..n |-> pool[j]]
      BY DEF Reconciled
    <3> HIDE DEF pool, n
    <3> QED
      BY <3>1, <1>2
  <2> HIDE DEF pool, n
  <2> QED
    BY <2>1, <1>1, Sequence
<1> HIDE DEF pool
<1> QED
  BY <1>2, <1>3 DEF pool

LEMMA ApplyInvariant ==
  ASSUME IInv, Apply, TypeOK', UNCHANGED <<directory, snapshot, load, future>>
  PROVE  IInv'
<1> DEFINE n == Len(snapshot.members)
<1>1. /\ revision' = snapshot.revision
      /\ snapshot.revision > revision
      /\ granted' = granted \cap {endpoints'[j].service : j \in DOMAIN endpoints'}
  BY DEF Apply
<1>2. /\ endpoints' \in Seq(Endpoint)
      /\ Len(endpoints') = n
      /\ \A j \in 1..n :
           /\ endpoints'[j].member = snapshot.members[j]
           /\ endpoints'[j].service = ServiceOf(snapshot.members[j])
           /\ \/ \E i \in 1..Len(endpoints) :
                   /\ endpoints[i].service = endpoints'[j].service
                   /\ endpoints[i].readiness = endpoints'[j].readiness
              \/ /\ \A i \in 1..Len(endpoints) :
                      endpoints[i].service # endpoints'[j].service
                 /\ endpoints'[j].readiness = "idle"
  BY Reconciliation DEF Apply
<1>3. /\ snapshot.members \in Seq(Writer!Entry)
      /\ n \in Nat
      /\ snapshot.revision \in 0..MaxRevision
      /\ revision \in None..MaxRevision
  BY DEF IInv, TypeOK, Writer!Snapshot
<1>4. Members' = snapshot.members
  <2>1. Members' = [j \in 1..n |-> snapshot.members[j]]
    BY <1>2 DEF Members
  <2> QED
    BY <2>1, <1>3
<1>5. Writer!IInv'
  BY WriterInvariant, WriterInvariantNext DEF IInv
<1>6. MembersAreDistinct'
  BY <1>4 DEF IInv, MembersAreDistinct
<1>7. AllocationsAreDated'
  <2>1. \A q \in Request : future[q] # None => future[q] <= snapshot.revision
    <3> SUFFICES ASSUME NEW q \in Request, future[q] # None
                 PROVE  future[q] <= snapshot.revision
      OBVIOUS
    <3>1. future[q] <= revision /\ future[q] \in Int
      BY DEF IInv, AllocationsAreDated, TypeOK, Allocations, None
    <3> QED
      BY <3>1, <1>1, <1>3 DEF None
  <2> QED
    BY <2>1, <1>1, <1>4 DEF IInv, AllocationsAreDated
<1>8. AllocationsDoNotReturn'
  <2>1. Continues(snapshot.members, snapshot.revision, snapshot.members)
    BY DEF Continues
  <2> QED
    BY <2>1, <1>1, <1>4 DEF IInv, AllocationsDoNotReturn
<1>9. PoolMirrors'
  <2>1. revision' <= snapshot'.revision
    BY <1>1, <1>3
  <2>2. \A i \in 1..Len(endpoints') :
          endpoints'[i].service = [key     |-> endpoints'[i].member.key,
                                   backend |-> endpoints'[i].member.backend]
    BY <1>2 DEF ServiceOf
  <2> QED
    BY <2>1, <2>2, <1>4 DEF PoolMirrors
<1>10. ReservationsAreKept'
  <2> DEFINE ready == {endpoints'[i].service :
                         i \in {j \in 1..n : endpoints'[j].readiness = "ready"}}
  <2>0. DOMAIN endpoints' = 1..n
    BY <1>2
  <2>1. granted = {endpoints[i].service :
                     i \in {j \in 1..Len(endpoints) : endpoints[j].readiness = "ready"}}
    BY DEF IInv, ReservationsAreKept
  <2>2. ASSUME NEW j \in 1..n, endpoints'[j].readiness = "ready"
        PROVE  endpoints'[j].service \in granted
    <3>1. PICK i \in 1..Len(endpoints) :
            /\ endpoints[i].service = endpoints'[j].service
            /\ endpoints[i].readiness = endpoints'[j].readiness
      BY <1>2, <2>2
    <3> QED
      BY <3>1, <2>1, <2>2
  <2>3. ASSUME NEW j \in 1..n, endpoints'[j].service \in granted
        PROVE  endpoints'[j].readiness = "ready"
    <3>1. PICK i \in 1..Len(endpoints) :
            /\ endpoints[i].service = endpoints'[j].service
            /\ endpoints[i].readiness = "ready"
      BY <2>1, <2>3
    <3>2. PICK h \in 1..Len(endpoints) :
            /\ endpoints[h].service = endpoints'[j].service
            /\ endpoints[h].readiness = endpoints'[j].readiness
      BY <3>1, <1>2
    <3>3. h = i
      BY <3>1, <3>2, PoolFacts
    <3> QED
      BY <3>1, <3>2, <3>3
  <2>4. granted' = ready
    BY <1>1, <2>0, <2>2, <2>3
  <2> QED
    BY <2>4, <1>2 DEF ReservationsAreKept
<1>11. LoadIsOutstanding'
  BY DEF IInv, LoadIsOutstanding
<1> QED
  BY <1>5, <1>6, <1>7, <1>8, <1>9, <1>10, <1>11 DEF IInv

\* The steps that reconcile: endpoints, revision and grants as Apply leaves
\* them, or as they were.
LEMMA ApplyType ==
  ASSUME IInv, Apply
  PROVE  /\ endpoints' \in Seq(Endpoint)
         /\ revision' \in None..MaxRevision
         /\ granted' \subseteq Service
<1>1. endpoints' \in Seq(Endpoint)
  BY Reconciliation DEF Apply
<1> QED
  BY <1>1 DEF Apply, IInv, TypeOK, Writer!Snapshot, None

LEMMA SyncInvariant ==
  ASSUME IInv, Sync
  PROVE  IInv'
<1>1. Apply /\ UNCHANGED <<writerVars, streamVars, pollVars, end_policy, clientVars>>
  BY DEF Sync
<1>2. TypeOK'
  BY <1>1, ApplyType
     DEF IInv, TypeOK, writerVars, streamVars, pollVars, clientVars
<1> QED
  BY <1>1, <1>2, ApplyInvariant DEF writerVars, clientVars

LEMMA TakeUpdateInvariant ==
  ASSUME IInv, TakeUpdate
  PROVE  IInv'
<1>1. /\ polled < MaxUpdatesPerPoll
      /\ last_seen' = snapshot.revision
      /\ UNCHANGED <<directory, snapshot, open, down, armed, updates_closed, woken,
                     end_policy, load, future>>
      /\ \/ polled' = polled + 1 /\ UNCHANGED <<pc, result>>
         \/ polled' = 0 /\ pc' = "rest" /\ result' = "error"
      /\ Apply \/ UNCHANGED <<endpoints, revision, granted>>
  BY DEF TakeUpdate, AlreadyApplied, BuildFails, Return, writerVars, clientVars
<1>2. /\ endpoints' \in Seq(Endpoint)
      /\ revision' \in None..MaxRevision
      /\ granted' \subseteq Service
  BY <1>1, ApplyType DEF IInv, TypeOK
<1>3. TypeOK'
  BY <1>1, <1>2 DEF IInv, TypeOK, Writer!Snapshot, None
<1> QED
  BY <1>1, <1>3, ApplyInvariant, Frame

-----------------------------------------------------------------------------
(* Readiness, and dispatch.                                                *)

\* Whatever a scan is answered, the reservations are those of ready services.
LEMMA ScanInvariant ==
  ASSUME IInv, Scan
  PROVE  IInv'
<1> DEFINE n == Len(endpoints)
           Asked == {i \in 1..n : /\ Selectable(endpoints[i])
                                  /\ endpoints[i].readiness = "idle"}
<1>1. PICK answer \in [1..n -> {"idle", "ready", "failed"}] :
        /\ \A i \in 1..n : i \notin Asked => answer[i] = endpoints[i].readiness
        /\ endpoints' = [i \in 1..n |-> [endpoints[i] EXCEPT !.readiness = answer[i]]]
        /\ granted' = granted \cup {endpoints[i].service :
                                      i \in {j \in Asked : answer[j] = "ready"}}
        /\ pc' = "rest" /\ polled' = 0
        /\ result' \in {"ready", "pending", "error"}
  BY DEF Scan, Return
<1>2. UNCHANGED <<writerVars, streamVars, woken, end_policy, revision, clientVars>>
  BY DEF Scan
<1>3. n \in Nat /\ \A i \in 1..n : endpoints[i] \in Endpoint
  BY PoolFacts
<1>4. \A i \in 1..n : /\ endpoints'[i] \in Endpoint
                      /\ endpoints'[i].member = endpoints[i].member
                      /\ endpoints'[i].service = endpoints[i].service
                      /\ endpoints'[i].readiness = answer[i]
  BY <1>1, <1>3 DEF Endpoint
<1>5. endpoints' \in Seq(Endpoint) /\ Len(endpoints') = n
  <2>1. endpoints' \in [1..n -> Endpoint]
    BY <1>1, <1>4
  <2> QED
    BY <2>1, <1>3, Sequence
<1>6. granted' \subseteq Service
  BY <1>1, <1>3 DEF IInv, TypeOK, Endpoint
<1>7. TypeOK'
  <2>1. polled' \in 0..MaxUpdatesPerPoll
    BY <1>1
  <2>2. /\ pc' \in {"rest", "updating", "scanning"}
        /\ result' \in {"none", "ready", "pending", "error"}
    BY <1>1
  <2> QED
    BY <1>2, <1>5, <1>6, <2>1, <2>2
       DEF IInv, TypeOK, writerVars, streamVars, clientVars
<1>8. ReservationsAreKept'
  <2>1. granted = {endpoints[i].service :
                     i \in {j \in 1..n : endpoints[j].readiness = "ready"}}
    BY DEF IInv, ReservationsAreKept
  <2>2. granted' = {endpoints[i].service : i \in {j \in 1..n : answer[j] = "ready"}}
    BY <2>1, <1>1
  <2> QED
    BY <2>2, <1>4, <1>5 DEF ReservationsAreKept
<1>9. AllocationsAreDated' /\ LoadIsOutstanding'
  BY <1>2, <1>4, <1>5, SamePlaces
     DEF IInv, AllocationsAreDated, LoadIsOutstanding, writerVars, clientVars
<1> QED
  BY <1>2, <1>4, <1>5, <1>7, <1>8, <1>9, SamePlaces DEF IInv, writerVars

\* An endpoint that gives up its reservation, or its failure.
LEMMA MadeIdle ==
  ASSUME IInv, NEW i \in 1..Len(endpoints),
         endpoints' = [endpoints EXCEPT ![i].readiness = "idle"],
         granted' = granted \ {endpoints[i].service}
  PROVE  /\ endpoints' \in Seq(Endpoint)
         /\ Len(endpoints') = Len(endpoints)
         /\ \A j \in 1..Len(endpoints) :
              /\ endpoints'[j].member = endpoints[j].member
              /\ endpoints'[j].service = endpoints[j].service
         /\ granted' \subseteq Service
         /\ ReservationsAreKept'
<1> DEFINE n == Len(endpoints)
<1>1. n \in Nat /\ \A j \in 1..n : endpoints[j] \in Endpoint
  BY PoolFacts
<1>2. endpoints \in Seq(Endpoint) /\ granted \subseteq Service
  BY DEF IInv, TypeOK
<1>3. [endpoints[i] EXCEPT !.readiness = "idle"] \in Endpoint
  BY <1>1 DEF Endpoint
<1>4. endpoints' \in Seq(Endpoint) /\ Len(endpoints') = n
  BY <1>2, <1>3
<1>5. \A j \in 1..n :
        /\ endpoints'[j].member = endpoints[j].member
        /\ endpoints'[j].service = endpoints[j].service
        /\ endpoints'[j].readiness = IF j = i THEN "idle" ELSE endpoints[j].readiness
  BY <1>1, <1>2 DEF Endpoint
<1>6. granted = {endpoints[h].service :
                   h \in {j \in 1..n : endpoints[j].readiness = "ready"}}
  BY DEF IInv, ReservationsAreKept
<1>7. \A j \in 1..n : endpoints[j].service = endpoints[i].service => j = i
  BY PoolFacts
<1>8. granted' = {endpoints[h].service :
                    h \in {j \in 1..n : endpoints'[j].readiness = "ready"}}
  BY <1>5, <1>6, <1>7
<1>9. ReservationsAreKept'
  BY <1>4, <1>5, <1>8 DEF ReservationsAreKept
<1> QED
  BY <1>2, <1>4, <1>5, <1>9

LEMMA ResetInvariant ==
  ASSUME IInv, NEW i \in 1..Len(endpoints), Reset(i)
  PROVE  IInv'
<1>1. /\ endpoints' = [endpoints EXCEPT ![i].readiness = "idle"]
      /\ granted' = granted \ {endpoints[i].service}
      /\ UNCHANGED <<writerVars, streamVars, pollVars, end_policy, revision, clientVars>>
  BY DEF Reset
<1>2. UNCHANGED <<directory, snapshot, revision, load, future>>
  BY <1>1 DEF writerVars, clientVars
<1>3. TypeOK'
  BY <1>1, MadeIdle
     DEF IInv, TypeOK, writerVars, streamVars, pollVars, clientVars
<1>4. \A q \in Request : future'[q] # None => future'[q] <= revision
  BY <1>2 DEF IInv, AllocationsAreDated
<1>5. LoadIsOutstanding'
  BY <1>2 DEF IInv, LoadIsOutstanding
<1> QED
  BY <1>1, <1>2, <1>3, <1>4, <1>5, MadeIdle, SamePlaces DEF IInv

\* A dispatch takes the reservation and is counted.
LEMMA CallInvariant ==
  ASSUME IInv, NEW q \in Request, Call(q)
  PROVE  IInv'
<1>1. PICK i \in 1..Len(endpoints) :
        LET b == endpoints[i].service.backend IN
        /\ load[b] < Limit
        /\ load' = [load EXCEPT ![b] = @ + 1]
        /\ future' = [future EXCEPT ![q] = b]
        /\ endpoints' = [endpoints EXCEPT ![i].readiness = "idle"]
        /\ granted' = granted \ {endpoints[i].service}
  BY DEF Call
<1> DEFINE b == endpoints[i].service.backend
           Of(c) == {r \in Request : future[r] = c}
<1>2. /\ future[q] = None
      /\ UNCHANGED <<writerVars, streamVars, pollVars, end_policy, revision>>
  BY DEF Call
<1>3. b \in Allocations /\ b <= revision
  <2>1. /\ endpoints[i] \in Endpoint
        /\ endpoints[i].service = ServiceOf(endpoints[i].member)
        /\ endpoints[i].member.backend <= revision
    BY PoolFacts DEF ServiceOf
  <2> QED
    BY <2>1 DEF Endpoint, Service, ServiceOf
<1>4. load \in [Allocations -> 0..Limit] /\ future \in [Request -> Allocations \cup {None}]
  BY DEF IInv, TypeOK
<1> HIDE DEF b
<1>5. load' \in [Allocations -> 0..Limit] /\ future' \in [Request -> Allocations \cup {None}]
  BY <1>1, <1>3, <1>4 DEF b
<1>6. TypeOK'
  BY <1>1, <1>2, <1>5, MadeIdle
     DEF IInv, TypeOK, writerVars, streamVars, pollVars
<1>7. LoadIsOutstanding'
  <2> SUFFICES ASSUME NEW c \in Allocations
               PROVE  load'[c] = Cardinality({r \in Request : future'[r] = c})
    BY DEF LoadIsOutstanding
  <2>1. IsFiniteSet(Of(c)) /\ load[c] = Cardinality(Of(c))
    BY RequestAssumption, FS_Subset DEF IInv, LoadIsOutstanding
  <2>2. CASE c = b
    <3>1. {r \in Request : future'[r] = c} = Of(c) \cup {q} /\ q \notin Of(c)
      BY <1>1, <1>2, <1>3, <1>4, <2>2 DEF b, Allocations, None
    <3>2. Cardinality(Of(c) \cup {q}) = Cardinality(Of(c)) + 1
      BY <2>1, <3>1, FS_AddElement
    <3>3. load'[c] = load[c] + 1
      BY <1>1, <1>3, <1>4, <2>2 DEF b
    <3> QED
      BY <2>1, <3>1, <3>2, <3>3
  <2>3. CASE c # b
    <3>1. {r \in Request : future'[r] = c} = Of(c)
      BY <1>1, <1>2, <1>3, <1>4, <2>3 DEF b, Allocations, None
    <3>2. load'[c] = load[c]
      BY <1>1, <1>4, <2>3 DEF b
    <3> QED
      BY <2>1, <3>1, <3>2
  <2> QED
    BY <2>2, <2>3
<1>8. \A r \in Request : future'[r] # None => future'[r] <= revision
  BY <1>1, <1>3, <1>4 DEF IInv, AllocationsAreDated, b
<1>9. UNCHANGED <<directory, snapshot, revision>>
  BY <1>2 DEF writerVars
<1> QED
  BY <1>1, <1>6, <1>7, <1>8, <1>9, MadeIdle, SamePlaces DEF IInv

\* A future that ends is counted no more, whatever became of its endpoint.
LEMMA EndFutureInvariant ==
  ASSUME IInv, NEW q \in Request, EndFuture(q)
  PROVE  IInv'
<1> DEFINE b == future[q]
           Of(c) == {r \in Request : future[r] = c}
<1>1. /\ b # None
      /\ load' = [load EXCEPT ![b] = @ - 1]
      /\ future' = [future EXCEPT ![q] = None]
      /\ UNCHANGED <<writerVars, streamVars, pollVars, end_policy, revision,
                     endpoints, granted>>
  BY DEF EndFuture
<1>2. load \in [Allocations -> 0..Limit] /\ future \in [Request -> Allocations \cup {None}]
  BY DEF IInv, TypeOK
<1>3. b \in Allocations
  BY <1>1, <1>2
<1> HIDE DEF b
<1>4. \A c \in Allocations : /\ IsFiniteSet(Of(c))
                             /\ Cardinality(Of(c)) \in Nat
                             /\ load[c] = Cardinality(Of(c))
  BY RequestAssumption, FS_Subset, FS_CardinalityType DEF IInv, LoadIsOutstanding
<1>5. /\ q \in Of(b)
      /\ Cardinality(Of(b) \ {q}) = Cardinality(Of(b)) - 1
      /\ Cardinality(Of(b) \ {q}) \in Nat
  <2>1. q \in Of(b)
    BY DEF b
  <2>2. IsFiniteSet(Of(b))
    BY <1>3, <1>4
  <2> HIDE DEF Of
  <2> QED
    BY <2>1, <2>2, FS_RemoveElement, FS_CardinalityType
<1>6. load' \in [Allocations -> 0..Limit] /\ future' \in [Request -> Allocations \cup {None}]
  <2>1. load[b] - 1 \in 0..Limit
    BY <1>2, <1>3, <1>4, <1>5
  <2> QED
    BY <2>1, <1>1, <1>2
<1>7. TypeOK'
  BY <1>1, <1>6 DEF IInv, TypeOK, writerVars, streamVars, pollVars
<1>8. LoadIsOutstanding'
  <2> SUFFICES ASSUME NEW c \in Allocations
               PROVE  load'[c] = Cardinality({r \in Request : future'[r] = c})
    BY DEF LoadIsOutstanding
  <2>1. CASE c = b
    <3>1. {r \in Request : future'[r] = c} = Of(c) \ {q}
      BY <1>1, <1>2, <1>3, <2>1 DEF Allocations, None
    <3>2. load'[c] = load[c] - 1
      BY <1>1, <1>2, <1>3, <2>1
    <3> QED
      BY <1>4, <1>5, <2>1, <3>1, <3>2
  <2>2. CASE c # b
    <3>1. {r \in Request : future'[r] = c} = Of(c)
      BY <1>1, <1>2, <2>2 DEF b, Allocations, None
    <3>2. load'[c] = load[c]
      BY <1>1, <1>2, <2>2
    <3> QED
      BY <1>4, <3>1, <3>2
  <2> QED
    BY <2>1, <2>2
<1>9. UNCHANGED <<directory, snapshot, revision, endpoints, granted>>
  BY <1>1 DEF writerVars
<1>10. \A r \in Request : future'[r] # None => future'[r] <= revision
  BY <1>1, <1>2 DEF IInv, AllocationsAreDated
<1>11. endpoints' \in Seq(Endpoint) /\ ReservationsAreKept'
  BY <1>9 DEF IInv, TypeOK, ReservationsAreKept
<1> QED
  BY <1>7, <1>8, <1>9, <1>10, <1>11, SamePlaces DEF IInv

-----------------------------------------------------------------------------
(* The invariant.                                                          *)

\* The directory the writer begins with is well formed.
LEMMA PopulatedWellFormed ==
  /\ Ops!WellFormed(Populated)
  /\ MadeBy(Populated.entries, Populated.revision)
<1> DEFINE n == Len(Initial)
           keys == {Initial[i] : i \in 1..n}
           place(k) == CHOOSE i \in 1..n : Initial[i] = k
           entries == [i \in 1..n |-> Writer!Active(Initial[i], i)]
           positions == [k \in keys |-> place(k)]
<1>1. /\ n \in Nat /\ n <= MaxRevision
      /\ \A i \in 1..n : Initial[i] \in Key
      /\ \A i, j \in 1..n : Initial[i] = Initial[j] => i = j
  BY InitialAssumption
<1>2. \A i \in 1..n : /\ Writer!Active(Initial[i], i) \in Writer!Entry
                      /\ Writer!Active(Initial[i], i).key = Initial[i]
                      /\ Writer!Active(Initial[i], i).backend = i
  <2>1. \A i \in 1..n : i \in Allocations
    BY <1>1 DEF Allocations
  <2> QED
    BY <2>1, <1>1 DEF Writer!Active, Writer!Entry, Writer!Memberships
<1>3. entries \in Seq(Writer!Entry) /\ Len(entries) = n
  <2>1. entries \in [1..n -> Writer!Entry]
    BY <1>2
  <2> HIDE DEF entries, n
  <2> QED
    BY <2>1, <1>1, Sequence
<1>4. \A k \in keys : place(k) \in 1..n /\ Initial[place(k)] = k
  OBVIOUS
<1>5. \A i \in 1..n : Initial[i] \in keys /\ place(Initial[i]) = i
  <2> SUFFICES ASSUME NEW i \in 1..n
               PROVE  Initial[i] \in keys /\ place(Initial[i]) = i
    OBVIOUS
  <2>1. Initial[i] \in keys
    OBVIOUS
  <2>2. place(Initial[i]) \in 1..n /\ Initial[place(Initial[i])] = Initial[i]
    BY <2>1, <1>4
  <2> HIDE DEF place, keys
  <2> QED
    BY <2>1, <2>2, <1>1
<1>6. positions \in Ops!Positions
  <2>1. keys \in SUBSET Key
    BY <1>1
  <2>2. \A k \in keys : place(k) \in 1..MaxRevision
    BY <1>1, <1>4
  <2> HIDE DEF place, keys
  <2>3. positions \in [keys -> 1..MaxRevision]
    BY <2>2
  <2> QED
    BY <2>1, <2>3 DEF Ops!Positions
<1>7. Populated = [revision |-> n, entries |-> entries, positions |-> positions]
  BY DEF Populated
<1>8. /\ Populated.revision = n
      /\ Populated.entries = entries
      /\ Populated.positions = positions
      /\ DOMAIN positions = keys
      /\ \A k \in keys : positions[k] = place(k)
      /\ \A i \in 1..n : entries[i].key = Initial[i] /\ entries[i].backend = i
  <2>1. \A i \in 1..n : entries[i] = Writer!Active(Initial[i], i)
    OBVIOUS
  <2> QED
    BY <2>1, <1>2, <1>7
<1> HIDE DEF n, keys, place, entries, positions
<1>9. Populated \in Ops!Directory
  <2>1. Writer!Entry = Ops!Entry
    BY DEF Writer!Entry, Ops!Entry, Writer!Memberships, Ops!Memberships
  <2>2. n \in 0..MaxRevision
    BY <1>1
  <2> QED
    BY <2>1, <2>2, <1>3, <1>6, <1>7 DEF Ops!Directory
<1>10. Ops!IsExact(Populated)
  BY <1>3, <1>4, <1>5, <1>8 DEF Ops!IsExact, Ops!Places, Ops!Known, Ops!Found
<1> QED
  BY <1>1, <1>3, <1>8, <1>9, <1>10 DEF Ops!WellFormed, MadeBy

LEMMA InitInvariant == Init => IInv
<1> SUFFICES ASSUME Init PROVE IInv
  OBVIOUS
<1>1. /\ directory = Populated
      /\ Ops!WellFormed(directory)
      /\ MadeBy(directory.entries, directory.revision)
      /\ snapshot = Writer!SnapshotOf(directory)
  BY PopulatedWellFormed DEF Init
<1>2. /\ directory \in Writer!Directory
      /\ directory.revision \in 0..MaxRevision
      /\ directory.entries \in Seq(Writer!Entry)
      /\ OnePerKey(directory.entries)
  BY <1>1, WellFormedDirectory
<1>3. /\ snapshot \in Writer!Snapshot
      /\ snapshot.revision = directory.revision
      /\ snapshot.members = directory.entries
  BY <1>1, <1>2 DEF Writer!SnapshotOf, Writer!Snapshot
<1>4. /\ endpoints = <<>> /\ Len(endpoints) = 0
      /\ Members = <<>> /\ Len(Members) = 0
      /\ revision = -1
      /\ load = [b \in Allocations |-> 0]
      /\ future = [q \in Request |-> None]
      /\ granted = {}
  <2>1. endpoints = <<>> /\ Len(endpoints) = 0
    BY DEF Init
  <2>2. Members = <<>>
    BY <2>1 DEF Members
  <2> QED
    BY <2>1, <2>2 DEF Init, None
<1>5. TypeOK
  <2>1. last_seen \in None..MaxRevision /\ revision \in None..MaxRevision
    BY DEF Init, None
  <2>2. polled \in 0..MaxUpdatesPerPoll
    BY DEF Init
  <2>3. load \in [Allocations -> 0..Limit] /\ future \in [Request -> Allocations \cup {None}]
    BY <1>4
  <2>4. /\ open \in BOOLEAN /\ armed \in BOOLEAN /\ woken \in BOOLEAN
        /\ updates_closed \in BOOLEAN
    BY DEF Init
  <2>5. endpoints \in Seq(Endpoint) /\ granted \subseteq Service
    BY <1>4
  <2>6. /\ down \subseteq Flaky
        /\ pc \in {"rest", "updating", "scanning"}
        /\ result \in {"none", "ready", "pending", "error"}
        /\ end_policy \in {"last_known_good", "fail_closed"}
    BY DEF Init
  <2> QED
    BY <1>2, <1>3, <2>1, <2>2, <2>3, <2>4, <2>5, <2>6 DEF TypeOK
<1>6. Writer!IInv
  BY <1>1, <1>2, <1>3, WriterInvariant
<1>7. MembersAreDistinct
  BY <1>2, <1>3, <1>4 DEF MembersAreDistinct, OnePerKey
<1>8. AllocationsAreDated
  BY <1>1, <1>3, <1>4 DEF AllocationsAreDated, MadeBy
<1>9. AllocationsDoNotReturn
  <2>1. Continues(snapshot.members, snapshot.revision, directory.entries)
    BY <1>3 DEF Continues
  <2>2. \A j \in 1..Len(snapshot.members) : ~(snapshot.members[j].backend <= revision)
    <3>1. \A e \in Writer!Entry : ~(e.backend <= -1)
      BY DEF Writer!Entry, Allocations
    <3> QED
      BY <3>1, <1>2, <1>3, <1>4
  <2> QED
    BY <2>1, <2>2 DEF AllocationsDoNotReturn, Continues
<1>10. PoolMirrors
  BY <1>2, <1>3, <1>4 DEF PoolMirrors
<1>11. ReservationsAreKept
  BY <1>4 DEF ReservationsAreKept
<1>12. LoadIsOutstanding
  <2>1. \A b \in Allocations : {q \in Request : future[q] = b} = {}
    BY <1>4 DEF Allocations, None
  <2> QED
    BY <2>1, <1>4, FS_EmptySet DEF LoadIsOutstanding
<1> QED
  BY <1>5, <1>6, <1>7, <1>8, <1>9, <1>10, <1>11, <1>12 DEF IInv

\* Every step preserves the invariant.
LEMMA NextInvariant == IInv /\ [Next]_vars => IInv'
<1> SUFFICES ASSUME IInv, [Next]_vars PROVE IInv'
  OBVIOUS
<1>1. ASSUME NEW k \in Flaky, Flip(k) PROVE IInv'
  <2>1. TypeOK'
    BY <1>1 DEF IInv, TypeOK, Flip, streamVars, pollVars, clientVars
  <2> QED
    BY <1>1, <2>1, Frame DEF Flip, clientVars
<1>2. CASE ClosePublisher
  <2>1. TypeOK'
    BY <1>2 DEF IInv, TypeOK, ClosePublisher, Notify, clientVars
  <2> QED
    BY <1>2, <2>1, Frame DEF ClosePublisher, clientVars
<1>3. CASE ServiceWakes
  <2>1. TypeOK'
    BY <1>3 DEF IInv, TypeOK, ServiceWakes, writerVars, streamVars, clientVars
  <2> QED
    BY <1>3, <2>1, Frame DEF ServiceWakes, writerVars, clientVars
<1>4. CASE PollReady
  <2>1. /\ polled' \in 0..MaxUpdatesPerPoll
        /\ pc' \in {"rest", "updating", "scanning"}
        /\ woken' \in BOOLEAN
    <3>1. polled' \in 0..MaxUpdatesPerPoll
      BY <1>4 DEF PollReady
    <3>2. woken' \in BOOLEAN /\ pc' \in {"updating", "scanning"}
      BY <1>4, Zenon DEF PollReady
    <3> QED
      BY <3>1, <3>2
  <2>2. TypeOK'
    BY <1>4, <2>1
       DEF IInv, TypeOK, PollReady, writerVars, streamVars, clientVars
  <2> QED
    BY <1>4, <2>2, Frame DEF PollReady, writerVars, clientVars
<1>5. CASE BudgetSpent
  <2>1. TypeOK'
    BY <1>5 DEF IInv, TypeOK, BudgetSpent, Return, writerVars, streamVars, clientVars
  <2> QED
    BY <1>5, <2>1, Frame DEF BudgetSpent, writerVars, clientVars
<1>6. CASE Settle
  <2>1. TypeOK'
    BY <1>6 DEF IInv, TypeOK, Settle, writerVars, clientVars
  <2> QED
    BY <1>6, <2>1, Frame DEF Settle, writerVars, clientVars
<1>7. CASE Refuse
  <2>1. TypeOK'
    BY <1>7 DEF IInv, TypeOK, Refuse, Return, writerVars, streamVars, clientVars
  <2> QED
    BY <1>7, <2>1, Frame DEF Refuse, writerVars, clientVars
<1>8. CASE UNCHANGED vars
  <2>1. TypeOK'
    BY <1>8 DEF IInv, TypeOK, vars, writerVars, streamVars, pollVars, clientVars
  <2> QED
    BY <1>8, <2>1, Frame DEF vars, writerVars, clientVars
<1> QED
  BY <1>1, <1>2, <1>3, <1>4, <1>5, <1>6, <1>7, <1>8, UpdateInvariant,
     PublishInvariant, SyncInvariant, TakeUpdateInvariant, ScanInvariant,
     CallInvariant, EndFutureInvariant, ResetInvariant
     DEF Next, PollStep

-----------------------------------------------------------------------------
(* Theorems.                                                               *)

\* The inductive invariant of the balancer and what is around it.
THEOREM Invariance == Spec => []IInv
BY InitInvariant, NextInvariant, PTL DEF Spec

\* The directory, the pool, the trackers and the poll have their types: no
\* tracker passes its limit or goes below zero, and no poll takes more
\* snapshots than its budget (poll_ready, call).
THEOREM TypeCorrect == Spec => []TypeOK
<1>1. IInv => TypeOK
  BY DEF IInv
<1> QED
  BY <1>1, Invariance, PTL

\* The pool is the snapshot of the revision it claims, whatever was kept, built
\* and reordered to get there, and each service is the one built for its member
\* (apply_snapshot).
THEOREM PoolIsMirrored == Spec => []PoolMirrors
<1>1. IInv => PoolMirrors
  BY DEF IInv
<1> QED
  BY <1>1, Invariance, PTL

\* The reservations not used yet are those of exactly the services in the pool
\* that are ready, through reconciliations, scans, calls and resets.
THEOREM ReservationsKept == Spec => []ReservationsAreKept
<1>1. IInv => ReservationsAreKept
  BY DEF IInv
<1> QED
  BY <1>1, Invariance, PTL

\* Each tracker counts exactly the futures dispatched to its generation, also
\* after its endpoint left the pool (ResponseFuture).
THEOREM LoadOutstanding == Spec => []LoadIsOutstanding
<1>1. IInv => LoadIsOutstanding
  BY DEF IInv
<1> QED
  BY <1>1, Invariance, PTL

\* Steps that reconcile nothing leave every member in its place.
LEMMA MembersStay ==
  ASSUME IInv, [Next]_vars
  PROVE  Apply \/ (revision' = revision /\ Members' = Members)
<1>1. CASE UNCHANGED <<revision, endpoints>>
  BY <1>1 DEF Members
<1>2. CASE Sync
  BY <1>2 DEF Sync
<1>3. CASE TakeUpdate
  BY <1>1, <1>3 DEF TakeUpdate, AlreadyApplied, BuildFails
<1>4. CASE Scan
  <2> DEFINE n == Len(endpoints)
  <2>1. PICK answer \in [1..n -> {"idle", "ready", "failed"}] :
          endpoints' = [i \in 1..n |-> [endpoints[i] EXCEPT !.readiness = answer[i]]]
    BY <1>4 DEF Scan
  <2>2. n \in Nat /\ \A i \in 1..n : endpoints[i] \in Endpoint
    BY PoolFacts
  <2>3. endpoints' \in [1..n -> Endpoint]
    BY <2>1, <2>2 DEF Endpoint
  <2>4. Len(endpoints') = n
    BY <2>2, <2>3, Sequence
  <2>5. \A i \in 1..n : endpoints'[i].member = endpoints[i].member
    BY <2>1, <2>2 DEF Endpoint
  <2> QED
    BY <1>4, <2>4, <2>5 DEF Members, Scan
<1>5. ASSUME NEW q \in Request, Call(q)
      PROVE  revision' = revision /\ Members' = Members
  BY <1>5, MadeIdle DEF Call, Members
<1>6. ASSUME NEW i \in 1..Len(endpoints), Reset(i)
      PROVE  revision' = revision /\ Members' = Members
  BY <1>6, MadeIdle DEF Reset, Members
<1>7. CASE \/ \E k \in Key : Update(k)
           \/ \E k \in Flaky : Flip(k)
           \/ Publish \/ ClosePublisher \/ ServiceWakes
           \/ PollReady \/ BudgetSpent \/ Settle \/ Refuse
           \/ \E q \in Request : EndFuture(q)
           \/ UNCHANGED vars
  BY <1>1, <1>7
     DEF Update, Change, Flip, Publish, ClosePublisher, ServiceWakes, PollReady,
         BudgetSpent, Settle, Refuse, EndFuture, vars
<1> QED
  BY <1>2, <1>3, <1>4, <1>5, <1>6, <1>7 DEF Next, PollStep

\* What GenerationsAreRetained says of one step.
Retained ==
  /\ revision' = revision => Members' = Members
  /\ revision' # revision =>
       \A j \in 1..Len(endpoints') :
         LET new == endpoints'[j] IN
         IF new.service \in Services
           THEN \E i \in 1..Len(endpoints) :
                  /\ endpoints[i].service = new.service
                  /\ endpoints[i].readiness = new.readiness
           ELSE new.readiness = "idle" /\ load[new.service.backend] = 0

\* A new generation was never in the pool before: nothing was dispatched to it.
LEMMA ApplyRetains ==
  ASSUME IInv, Apply
  PROVE  Retained
<1>1. /\ revision' # revision
      /\ endpoints' = Reconciled(snapshot.members)
  BY DEF Apply, IInv, TypeOK, Writer!Snapshot, None
<1>2. ASSUME NEW j \in 1..Len(endpoints'), endpoints'[j].service \in Services
      PROVE  \E i \in 1..Len(endpoints) :
               /\ endpoints[i].service = endpoints'[j].service
               /\ endpoints[i].readiness = endpoints'[j].readiness
  BY <1>1, <1>2, Reconciliation DEF Services
<1>3. ASSUME NEW j \in 1..Len(endpoints'), endpoints'[j].service \notin Services
      PROVE  /\ endpoints'[j].readiness = "idle"
             /\ load[endpoints'[j].service.backend] = 0
  <2> DEFINE member == snapshot.members[j]
             b == member.backend
  <2>1. /\ j \in 1..Len(snapshot.members)
        /\ endpoints'[j].readiness = "idle"
        /\ endpoints'[j].service = ServiceOf(member)
        /\ \A i \in 1..Len(endpoints) : endpoints[i].service # ServiceOf(member)
    BY <1>1, <1>3, Reconciliation DEF Services
  <2>2. endpoints'[j].service.backend = b
    BY <2>1 DEF ServiceOf
  <2>3. b \in Allocations
    <3>1. member \in Writer!Entry
      BY <2>1 DEF IInv, TypeOK, Writer!Snapshot
    <3> QED
      BY <3>1 DEF Writer!Entry
  <2>4. ~(b <= revision)
    <3> SUFFICES ASSUME b <= revision PROVE FALSE
      OBVIOUS
    <3>1. PICK i \in 1..Len(Members) : /\ Members[i].key = member.key
                                       /\ Members[i].backend = b
      BY <2>1 DEF IInv, AllocationsDoNotReturn, Continues
    <3>2. /\ i \in 1..Len(endpoints)
          /\ endpoints[i].service = ServiceOf(endpoints[i].member)
          /\ endpoints[i].member = Members[i]
      BY <3>1, PoolFacts DEF ServiceOf
    <3>3. ServiceOf(Members[i]) = ServiceOf(member)
      BY <3>1 DEF ServiceOf
    <3> QED
      BY <2>1, <3>2, <3>3
  <2>5. {q \in Request : future[q] = b} = {}
    BY <2>3, <2>4 DEF IInv, AllocationsAreDated, Allocations, None
  <2>6. load[b] = 0
    BY <2>3, <2>5, FS_EmptySet DEF IInv, LoadIsOutstanding
  <2> QED
    BY <2>1, <2>2, <2>6
<1> QED
  BY <1>1, <1>2, <1>3 DEF Retained

\* Members change only with the revision; a generation that stays keeps its
\* service, its reservation and its failure, and a new one starts idle and
\* unloaded (apply_snapshot).
THEOREM GenerationsRetained == Spec => GenerationsAreRetained
<1>1. IInv /\ [Next]_vars => Retained
  <2> SUFFICES ASSUME IInv, [Next]_vars PROVE Retained
    OBVIOUS
  <2>1. CASE Apply
    BY <2>1, ApplyRetains
  <2>2. CASE revision' = revision /\ Members' = Members
    BY <2>2 DEF Retained
  <2> QED
    BY <2>1, <2>2, MembersStay
<1>2. Retained <=>
        /\ revision' = revision => Members' = Members
        /\ revision' # revision =>
             \A j \in 1..Len(endpoints') :
               LET new == endpoints'[j] IN
               IF new.service \in Services
                 THEN \E i \in 1..Len(endpoints) :
                        /\ endpoints[i].service = new.service
                        /\ endpoints[i].readiness = new.readiness
                 ELSE new.readiness = "idle" /\ load[new.service.backend] = 0
  BY DEF Retained
<1> QED
  BY <1>1, <1>2, Invariance, PTL DEF Spec, GenerationsAreRetained

\* A request is dispatched only to a service whose reservation it takes, for a
\* member that is neither draining nor ineligible at that moment (call).
THEOREM EligibleDispatches == Spec => DispatchesAreEligible
<1> DEFINE A == \A q \in Request :
                  future[q] = None /\ future'[q] # None =>
                    \E i \in 1..Len(endpoints) :
                      /\ endpoints[i].service.backend = future'[q]
                      /\ endpoints[i].service \in granted \ granted'
                      /\ endpoints[i].member.membership = "active"
                      /\ endpoints[i].member.key \notin down
<1>1. IInv /\ [Next]_vars => A
  <2> SUFFICES ASSUME IInv, [Next]_vars PROVE A
    OBVIOUS
  <2>1. CASE UNCHANGED future
    BY <2>1
  <2>2. ASSUME NEW r \in Request, Call(r)
        PROVE  A
    <3>1. PICK i \in 1..Len(endpoints) :
            /\ Eligible(endpoints[i])
            /\ future' = [future EXCEPT ![r] = endpoints[i].service.backend]
            /\ granted' = granted \ {endpoints[i].service}
      BY <2>2 DEF Call
    <3>2. endpoints[i].service \in granted
      BY <3>1 DEF Eligible, IInv, ReservationsAreKept
    <3>3. future \in [Request -> Allocations \cup {None}]
      BY DEF IInv, TypeOK
    <3> QED
      BY <3>1, <3>2, <3>3 DEF Eligible, Selectable
  <2>3. ASSUME NEW r \in Request, EndFuture(r)
        PROVE  A
    <3>1. /\ future \in [Request -> Allocations \cup {None}]
          /\ future' = [future EXCEPT ![r] = None]
      BY <2>3 DEF EndFuture, IInv, TypeOK
    <3>2. \A q \in Request : future'[q] = None \/ future'[q] = future[q]
      BY <3>1
    <3> QED
      BY <3>2
  <2>4. CASE \/ \E k \in Key : Update(k)
             \/ \E k \in Flaky : Flip(k)
             \/ Publish \/ ClosePublisher \/ ServiceWakes \/ Sync
             \/ PollReady \/ PollStep
             \/ \E i \in 1..Len(endpoints) : Reset(i)
             \/ UNCHANGED vars
    BY <2>1, <2>4
       DEF Update, Change, Flip, Publish, ClosePublisher, ServiceWakes, Sync,
           PollReady, PollStep, BudgetSpent, TakeUpdate, Settle, Refuse, Scan,
           Reset, clientVars, vars
  <2> QED
    BY <2>2, <2>3, <2>4 DEF Next
<1> QED
  BY <1>1, Invariance, PTL DEF Spec, DispatchesAreEligible

=============================================================================
