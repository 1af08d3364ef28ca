-------------------------- MODULE DirectoryProofs --------------------------
(***************************************************************************)
(* Proofs about Directory, for any keys, any backends and any last         *)
(* revision: the index and the entries agree after any sequence of calls,  *)
(* revisions identify contents, failed calls leave no trace, and members   *)
(* are drained before they are removed.                                    *)
(***************************************************************************)
EXTENDS Directory, TLAPS

USE MaxRevisionAssumption

-----------------------------------------------------------------------------
(* Directories.                                                            *)

\* A directory whose index is exact and whose entries all cost a revision.
WellFormed(d) ==
  /\ d \in Directory
  /\ Len(d.entries) <= d.revision
  /\ IsExact(d)

\* A function from keys to places is an index.
LEMMA PositionsType ==
  ASSUME NEW f
  PROVE  f \in Positions <=>
           /\ f = [k \in DOMAIN f |-> f[k]]
           /\ DOMAIN f \subseteq Key
           /\ \A k \in DOMAIN f : f[k] \in 1..MaxRevision
<1>1. ASSUME f \in Positions
      PROVE  /\ f = [k \in DOMAIN f |-> f[k]]
             /\ DOMAIN f \subseteq Key
             /\ \A k \in DOMAIN f : f[k] \in 1..MaxRevision
  <2>1. PICK K \in SUBSET Key : f \in [K -> 1..MaxRevision]
    BY <1>1 DEF Positions
  <2> QED
    BY <2>1
<1>2. ASSUME /\ f = [k \in DOMAIN f |-> f[k]]
             /\ DOMAIN f \subseteq Key
             /\ \A k \in DOMAIN f : f[k] \in 1..MaxRevision
      PROVE  f \in Positions
  <2>1. f \in [DOMAIN f -> 1..MaxRevision]
    BY <1>2
  <2> QED
    BY <1>2, <2>1 DEF Positions
<1> QED
  BY <1>1, <1>2

\* The places of an exact directory, and the keys found there.
LEMMA Exact ==
  ASSUME NEW d, WellFormed(d)
  PROVE  /\ d.revision \in 0..MaxRevision
         /\ Len(d.entries) \in Nat
         /\ DOMAIN d.positions \subseteq Key
         /\ \A i \in Places(d) :
              /\ d.entries[i] \in Entry
              /\ d.entries[i].key \in DOMAIN d.positions
              /\ d.positions[d.entries[i].key] = i
         /\ \A k \in DOMAIN d.positions :
              /\ d.positions[k] \in Places(d)
              /\ d.entries[d.positions[k]].key = k
         /\ \A i, j \in Places(d) : d.entries[i].key = d.entries[j].key => i = j
<1>1. d \in Directory
  BY DEF WellFormed
<1>2. /\ d.revision \in 0..MaxRevision
      /\ d.entries \in Seq(Entry)
      /\ d.positions \in Positions
  BY <1>1 DEF Directory
<1>3. DOMAIN d.positions \subseteq Key
  BY <1>2, PositionsType
<1>4. \A i \in Places(d) : d.entries[i] \in Entry
  BY <1>2 DEF Places
<1> QED
  BY <1>2, <1>3, <1>4 DEF WellFormed, IsExact, Known, Found

\* An empty directory is well formed.
LEMMA NewWellFormed ==
  ASSUME NEW r \in 0..MaxRevision
  PROVE  WellFormed(New(r))
<1> DEFINE none == [k \in {} |-> 1]
<1>1. none \in Positions
  <2>1. none = [k \in DOMAIN none |-> none[k]] /\ DOMAIN none = {}
    OBVIOUS
  <2> QED
    BY <2>1, PositionsType
<1>2. New(r) \in Directory
  BY <1>1 DEF New, Directory
<1>3. Len(<<>>) = 0
  OBVIOUS
<1> QED
  BY <1>2, <1>3 DEF New, WellFormed, IsExact, Places

\* Replacing the entry of a known key by one of the same key moves nothing.
LEMMA WithEntryWellFormed ==
  ASSUME NEW d, WellFormed(d), ~Exhausted(d),
         NEW k \in DOMAIN d.positions, NEW entry \in Entry, entry.key = k
  PROVE  LET e == WithEntry(d, k, entry) IN
         /\ WellFormed(e)
         /\ e.revision = d.revision + 1
         /\ e.positions = d.positions
         /\ Len(e.entries) = Len(d.entries)
         /\ \A i \in Places(d) : e.entries[i].key = d.entries[i].key
<1> DEFINE e == WithEntry(d, k, entry)
           at == d.positions[k]
<1>1. /\ d.revision \in 0..MaxRevision
      /\ d.revision # MaxRevision
      /\ Len(d.entries) <= d.revision
      /\ d.entries \in Seq(Entry)
      /\ d.positions \in Positions
  BY DEF WellFormed, Directory, Exhausted
<1>2. /\ at \in Places(d)
      /\ d.entries[at].key = k
      /\ \A i \in Places(d) :
           /\ d.entries[i].key \in DOMAIN d.positions
           /\ d.positions[d.entries[i].key] = i
      /\ \A x \in DOMAIN d.positions :
           /\ d.positions[x] \in Places(d)
           /\ d.entries[d.positions[x]].key = x
  BY Exact
<1>3. /\ e.revision = d.revision + 1
      /\ e.positions = d.positions
      /\ e.entries = [d.entries EXCEPT ![at] = entry]
  BY DEF WithEntry
<1>4. /\ e.entries \in Seq(Entry)
      /\ Len(e.entries) = Len(d.entries)
      /\ \A i \in Places(d) :
           e.entries[i] = IF i = at THEN entry ELSE d.entries[i]
  BY <1>1, <1>2, <1>3 DEF Places
<1>5. e \in Directory
  <2>1. d.revision + 1 \in 0..MaxRevision
    BY <1>1
  <2> QED
    BY <2>1, <1>1, <1>3, <1>4 DEF WithEntry, Directory
<1>6. \A i \in Places(d) : e.entries[i].key = d.entries[i].key
  BY <1>2, <1>4
<1>7. Places(e) = Places(d)
  BY <1>4 DEF Places
<1> HIDE DEF e, at
<1>8. IsExact(e)
  BY <1>2, <1>3, <1>6, <1>7 DEF IsExact, Known, Found
<1>9. Len(e.entries) <= e.revision
  BY <1>1, <1>3, <1>4
<1> QED
  BY <1>3, <1>4, <1>5, <1>6, <1>8, <1>9 DEF WellFormed, e

\* A new member is appended, and indexed at the last place.
LEMMA AppendedWellFormed ==
  ASSUME NEW d, WellFormed(d), ~Exhausted(d),
         NEW k \in Key, ~Known(d, k), NEW b \in Backend
  PROVE  LET e == Upserted(d, k, b) IN
         /\ WellFormed(e)
         /\ e.revision = d.revision + 1
         /\ DOMAIN e.positions = DOMAIN d.positions \cup {k}
         /\ \A x \in DOMAIN d.positions : e.positions[x] = d.positions[x]
         /\ Len(e.entries) = Len(d.entries) + 1
         /\ \A i \in Places(d) : e.entries[i] = d.entries[i]
<1> DEFINE e == Upserted(d, k, b)
           last == Len(d.entries) + 1
           new == Active(k, b)
<1>1. /\ d.revision \in 0..MaxRevision
      /\ d.revision # MaxRevision
      /\ Len(d.entries) <= d.revision
      /\ d.entries \in Seq(Entry)
      /\ Len(d.entries) \in Nat
      /\ d.positions \in Positions
      /\ k \notin DOMAIN d.positions
  BY DEF WellFormed, Directory, Exhausted, Known
<1>2. /\ \A i \in Places(d) :
           /\ d.entries[i].key \in DOMAIN d.positions
           /\ d.positions[d.entries[i].key] = i
      /\ \A x \in DOMAIN d.positions :
           /\ d.positions[x] \in Places(d)
           /\ d.entries[d.positions[x]].key = x
  BY Exact
<1>3. new \in Entry /\ new.key = k
  BY DEF Active, Entry, Memberships
<1>4. e = [revision |-> d.revision + 1, entries |-> Append(d.entries, new),
           positions |-> Indexed(d.positions, k, last)]
  BY DEF Upserted
<1>5. /\ e.revision = d.revision + 1
      /\ e.entries = Append(d.entries, new)
      /\ e.positions = Indexed(d.positions, k, last)
  BY <1>4
<1>6. /\ e.entries \in Seq(Entry)
      /\ Len(e.entries) = last
      /\ \A i \in Places(d) : e.entries[i] = d.entries[i]
      /\ e.entries[last] = new
  <2> HIDE DEF new, e
  <2> QED
    BY <1>1, <1>3, <1>5 DEF Places
<1>7. /\ DOMAIN e.positions = DOMAIN d.positions \cup {k}
      /\ e.positions[k] = last
      /\ \A x \in DOMAIN d.positions : e.positions[x] = d.positions[x]
      /\ e.positions = [x \in DOMAIN e.positions |-> e.positions[x]]
  BY <1>1, <1>5 DEF Indexed
<1>8. /\ Places(e) = Places(d) \cup {last}
      /\ \A i \in Places(d) : i \in 1..MaxRevision
      /\ last \in 1..MaxRevision
  BY <1>1, <1>6 DEF Places
<1> HIDE DEF new, last, e
<1>9. e.positions \in Positions
  <2>1. DOMAIN d.positions \subseteq Key
    BY Exact
  <2>2. DOMAIN e.positions \subseteq Key
    BY <2>1, <1>7
  <2>3. \A x \in DOMAIN e.positions : e.positions[x] \in 1..MaxRevision
    BY <1>2, <1>7, <1>8
  <2> QED
    BY <2>2, <2>3, <1>7, PositionsType
<1>10. e \in Directory
  <2>1. d.revision + 1 \in 0..MaxRevision
    BY <1>1
  <2> QED
    BY <2>1, <1>4, <1>5, <1>6, <1>9 DEF Directory
<1>11. IsExact(e)
  <2>1. \A i \in Places(e) :
          /\ e.entries[i].key \in DOMAIN e.positions
          /\ e.positions[e.entries[i].key] = i
    BY <1>2, <1>3, <1>6, <1>7, <1>8, SMTT(20)
  <2>2. \A x \in DOMAIN e.positions :
          /\ e.positions[x] \in Places(e)
          /\ e.entries[e.positions[x]].key = x
    BY <1>2, <1>3, <1>6, <1>7, <1>8
  <2> QED
    BY <2>1, <2>2 DEF IsExact, Known, Found
<1>12. Len(e.entries) <= e.revision
  BY <1>1, <1>5, <1>6 DEF last
<1> QED
  BY <1>5, <1>6, <1>7, <1>10, <1>11, <1>12 DEF WellFormed, e, last

\* Whatever upsert and begin_drain do, no member moves.
LEMMA UpsertedWellFormed ==
  ASSUME NEW d, WellFormed(d), ~Exhausted(d), NEW k \in Key, NEW b \in Backend
  PROVE  LET e == Upserted(d, k, b) IN
         /\ WellFormed(e)
         /\ e.revision = d.revision + 1
         /\ \A x \in DOMAIN d.positions :
              x \in DOMAIN e.positions /\ e.positions[x] = d.positions[x]
<1>1. CASE Known(d, k)
  <2>1. Active(k, b) \in Entry /\ Active(k, b).key = k
    BY DEF Active, Entry, Memberships
  <2>2. Upserted(d, k, b) = WithEntry(d, k, Active(k, b))
    BY <1>1 DEF Upserted
  <2>3. k \in DOMAIN d.positions
    BY <1>1 DEF Known
  <2> QED
    BY <2>1, <2>2, <2>3, WithEntryWellFormed
<1>2. CASE ~Known(d, k)
  BY <1>2, AppendedWellFormed
<1> QED
  BY <1>1, <1>2

LEMMA DrainedWellFormed ==
  ASSUME NEW d, WellFormed(d), ~Exhausted(d), NEW k, CanDrain(d, k)
  PROVE  LET e == Drained(d, k) IN
         /\ WellFormed(e)
         /\ e.revision = d.revision + 1
         /\ \A x \in DOMAIN d.positions :
              x \in DOMAIN e.positions /\ e.positions[x] = d.positions[x]
<1> DEFINE entry == [Found(d, k) EXCEPT !.membership = "draining"]
<1>1. k \in DOMAIN d.positions
  BY DEF CanDrain, Known
<1>2. Found(d, k) \in Entry /\ Found(d, k).key = k
  BY <1>1, Exact DEF Found
<1>3. entry \in Entry /\ entry.key = k
  BY <1>2 DEF Entry, Memberships
<1>4. Drained(d, k) = WithEntry(d, k, entry)
  BY DEF Drained
<1> HIDE DEF entry
<1> QED
  BY <1>1, <1>3, <1>4, WithEntryWellFormed

\* Without the entry of k, those behind it are one place further up, and the
\* index says so.
LEMMA RemovedWellFormed ==
  ASSUME NEW d, WellFormed(d), ~Exhausted(d), NEW k \in DOMAIN d.positions
  PROVE  LET e == Removed(d, k) IN
         /\ WellFormed(e)
         /\ e.revision = d.revision + 1
         /\ Len(e.entries) = Len(d.entries) - 1
         /\ DOMAIN e.positions = DOMAIN d.positions \ {k}
         /\ \A x \in DOMAIN e.positions :
              e.positions[x] = IF d.positions[x] < d.positions[k]
                                 THEN d.positions[x] ELSE d.positions[x] - 1
<1> DEFINE e == Removed(d, k)
           i == d.positions[k]
           n == Len(d.entries)
           w == Without(d.entries, i)
           rest == [x \in DOMAIN d.positions \ {k} |-> d.positions[x]]
           at(x) == IF d.positions[x] < i
                      THEN d.positions[x] ELSE d.positions[x] - 1
           p == Reindexed(rest, w, i)
<1>1. /\ d.revision \in 0..MaxRevision
      /\ d.revision # MaxRevision
      /\ n <= d.revision
      /\ d.entries \in Seq(Entry)
      /\ n \in Nat
  BY DEF WellFormed, Directory, Exhausted
<1>2. /\ \A j \in 1..n :
           /\ d.entries[j] \in Entry
           /\ d.entries[j].key \in DOMAIN d.positions
           /\ d.positions[d.entries[j].key] = j
      /\ \A x \in DOMAIN d.positions :
           /\ d.positions[x] \in 1..n
           /\ d.entries[d.positions[x]].key = x
  BY Exact DEF Places
<1>3. e = [revision |-> d.revision + 1, entries |-> w, positions |-> p]
  BY DEF Removed
<1>4. /\ w = [j \in 1..(n - 1) |-> IF j < i THEN d.entries[j]
                                            ELSE d.entries[j + 1]]
      /\ w \in Seq(Entry)
      /\ Len(w) = n - 1
      /\ n - 1 \in Nat
  <2>1. w = [j \in 1..(n - 1) |-> IF j < i THEN d.entries[j]
                                           ELSE d.entries[j + 1]]
    BY DEF Without
  <2>2. n - 1 \in Nat
    BY <1>1, <1>2
  <2>3. \A j \in 1..(n - 1) : w[j] \in Entry
    <3> SUFFICES ASSUME NEW j \in 1..(n - 1)
                 PROVE  w[j] \in Entry
      OBVIOUS
    <3>1. j \in 1..n /\ j + 1 \in 1..n
      BY <1>1
    <3> QED
      BY <3>1, <2>1, <1>2
  <2> DEFINE f(j) == IF j < i THEN d.entries[j] ELSE d.entries[j + 1]
  <2>4. \A j \in 1..(n - 1) : f(j) \in Entry
    BY <2>1, <2>3
  <2>5. w = [j \in 1..(n - 1) |-> f(j)]
    BY <2>1
  <2>6. w \in Seq(Entry) /\ Len(w) = n - 1
    <3> HIDE DEF w, f, n
    <3> QED
      BY <2>2, <2>4, <2>5
  <2> QED
    BY <2>1, <2>2, <2>6
<1>5. ASSUME NEW x \in DOMAIN d.positions, x # k
      PROVE  /\ d.positions[x] # i
             /\ at(x) \in 1..(n - 1)
             /\ w[at(x)].key = x
  <2>1. d.positions[x] \in 1..n /\ i \in 1..n /\ d.positions[x] # i
    BY <1>2, <1>5
  <2>2. at(x) \in 1..(n - 1)
    BY <2>1, <1>1
  <2>3. w[at(x)] = d.entries[d.positions[x]]
    <3>1. CASE d.positions[x] < i
      BY <3>1, <2>1, <2>2, <1>4
    <3>2. CASE ~(d.positions[x] < i)
      <4>1. at(x) = d.positions[x] - 1 /\ ~(at(x) < i)
        BY <3>2, <2>1, <1>1
      <4>2. at(x) + 1 = d.positions[x]
        BY <4>1, <2>1, <1>1
      <4> HIDE DEF at, w, i
      <4> QED
        BY <4>1, <4>2, <2>2, <1>4
    <3> QED
      BY <3>1, <3>2
  <2> QED
    BY <2>1, <2>2, <2>3, <1>2
<1>6. ASSUME NEW j \in 1..(n - 1)
      PROVE  /\ w[j].key \in DOMAIN d.positions \ {k}
             /\ at(w[j].key) = j
  <2>1. i \in 1..n /\ d.positions[k] = i
    BY <1>2
  <2>2. CASE j < i
    <3>1. w[j] = d.entries[j] /\ j \in 1..n
      BY <2>2, <1>1, <1>4
    <3>2. w[j].key \in DOMAIN d.positions /\ d.positions[w[j].key] = j
      BY <3>1, <1>2
    <3> QED
      BY <3>2, <2>1, <2>2
  <2>3. CASE ~(j < i)
    <3>1. w[j] = d.entries[j + 1] /\ j + 1 \in 1..n
      BY <2>3, <1>1, <1>4
    <3>2. w[j].key \in DOMAIN d.positions /\ d.positions[w[j].key] = j + 1
      BY <3>1, <1>2
    <3> HIDE DEF w, i
    <3> QED
      BY <3>2, <2>1, <2>3
  <2> QED
    BY <2>2, <2>3
<1>7. /\ DOMAIN p = DOMAIN d.positions \ {k}
      /\ p = [x \in DOMAIN p |-> p[x]]
      /\ \A x \in DOMAIN p : p[x] = at(x)
  <2> DEFINE moved == {j \in 1..Len(w) : j >= i}
  <2>1. DOMAIN rest = DOMAIN d.positions \ {k}
    BY DEF rest
  <2>2. p = [x \in DOMAIN rest \cup {w[j].key : j \in moved} |->
               IF \E j \in moved : w[j].key = x
                 THEN CHOOSE j \in moved : w[j].key = x
                 ELSE rest[x]]
    BY DEF Reindexed, p, moved
  <2>3. \A j \in moved : j \in 1..(n - 1)
    BY <1>4
  <2>4. {w[j].key : j \in moved} \subseteq DOMAIN rest
    <3> HIDE DEF w, rest, moved, i
    <3> QED
      BY <2>1, <2>3, <1>6
  <2>5. DOMAIN p = DOMAIN rest
    <3> HIDE DEF rest, moved, p, w
    <3> QED
      BY <2>2, <2>4
  <2>6. ASSUME NEW x \in DOMAIN rest
        PROVE  p[x] = at(x)
    <3>1. x \in DOMAIN d.positions /\ x # k
      BY <2>1, <2>6
    <3>2. CASE \E j \in moved : w[j].key = x
      <4>1. PICK j \in moved : w[j].key = x /\ p[x] = j
        <5> HIDE DEF rest, moved, p, w, i
        <5> QED
          BY <3>2, <2>2, <2>6
      <4>2. at(w[j].key) = j
        BY <2>3, <1>6, <4>1
      <4> QED
        BY <4>1, <4>2
    <3>3. CASE ~\E j \in moved : w[j].key = x
      <4>1. p[x] = rest[x]
        <5> HIDE DEF rest, moved, p, w, i
        <5> QED
          BY <3>3, <2>2, <2>6
      <4>2. rest[x] = d.positions[x]
        BY <2>6
      <4>3. at(x) \in 1..(n - 1) /\ at(x) \notin moved /\ d.positions[x] # i
        <5> HIDE DEF moved, w, i, at
        <5> QED
          BY <3>1, <3>3, <1>5
      <4>4. ~(at(x) >= i)
        BY <4>3, <1>4
      <4>5. d.positions[x] \in 1..n /\ i \in 1..n
        BY <3>1, <1>2
      <4>6. at(x) = d.positions[x]
        BY <4>3, <4>4, <4>5
      <4> QED
        BY <4>1, <4>2, <4>6
    <3> QED
      BY <3>2, <3>3
  <2> HIDE DEF p, rest, moved
  <2> QED
    BY <2>1, <2>2, <2>5, <2>6
<1>8. /\ e.revision = d.revision + 1
      /\ e.entries = w
      /\ e.positions = p
  BY <1>3
<1> HIDE DEF e, p, w, rest, at
<1>9. p \in Positions
  <2>1. DOMAIN p \subseteq Key
    BY <1>7, Exact
  <2>2. \A x \in DOMAIN p : p[x] \in 1..MaxRevision
    BY <1>1, <1>5, <1>7
  <2> QED
    BY <2>1, <2>2, <1>7, PositionsType
<1>10. e \in Directory
  <2>1. d.revision + 1 \in 0..MaxRevision
    BY <1>1
  <2> QED
    BY <2>1, <1>3, <1>4, <1>9 DEF Directory
<1>11. Places(e) = 1..(n - 1)
  BY <1>4, <1>8 DEF Places
<1>12. IsExact(e)
  <2>1. \A j \in Places(e) :
          /\ e.entries[j].key \in DOMAIN e.positions
          /\ e.positions[e.entries[j].key] = j
    BY <1>6, <1>7, <1>8, <1>11
  <2>2. \A x \in DOMAIN e.positions :
          /\ e.positions[x] \in Places(e)
          /\ e.entries[e.positions[x]].key = x
    BY <1>5, <1>7, <1>8, <1>11
  <2> QED
    BY <2>1, <2>2 DEF IsExact, Known, Found
<1>13. Len(e.entries) <= e.revision
  BY <1>1, <1>4, <1>8
<1>14. WellFormed(e)
  BY <1>10, <1>12, <1>13 DEF WellFormed
<1> QED
  BY <1>4, <1>7, <1>8, <1>14 DEF e, at

-----------------------------------------------------------------------------
(* The invariant.                                                          *)

\* The invariant, about directories instead of their fields.
LEMMA InvariantParts ==
  IInv <=> /\ WellFormed(directory)
           /\ WellFormed(staged)
           /\ staging \in BOOLEAN
           /\ published \in Snapshot
           /\ outcome \in Outcomes
           /\ RevisionIdentifies
           /\ StagedExtends
BY DEF IInv, TypeOK, EntriesCostRevisions, IndexIsExact, WellFormed

LEMMA InvariantPartsNext ==
  IInv' <=> /\ WellFormed(directory')
            /\ WellFormed(staged')
            /\ staging' \in BOOLEAN
            /\ published' \in Snapshot
            /\ outcome' \in Outcomes
            /\ RevisionIdentifies'
            /\ StagedExtends'
BY DEF IInv, TypeOK, EntriesCostRevisions, IndexIsExact, WellFormed, Snapshot,
       Directory, IsExact, Places, Known, Found, Outcomes, Entry, Memberships,
       Positions

LEMMA InitInvariant == Init => IInv
<1> SUFFICES ASSUME Init PROVE IInv
  OBVIOUS
<1>1. PICK r \in 0..MaxRevision : directory = New(r)
  BY DEF Init
<1>2. WellFormed(directory) /\ WellFormed(staged)
  BY <1>1, NewWellFormed DEF Init
<1>3. published \in Snapshot
  <2>1. directory.revision \in 0..MaxRevision /\ directory.entries \in Seq(Entry)
    BY <1>2 DEF WellFormed, Directory
  <2> QED
    BY <2>1 DEF Init, SnapshotOf, Snapshot
<1>4. RevisionIdentifies /\ StagedExtends
  <2>1. published.revision = directory.revision
        /\ published.members = directory.entries
    BY DEF Init, SnapshotOf
  <2>2. directory.revision \in Int
    BY <1>2 DEF WellFormed, Directory
  <2> QED
    BY <2>1, <2>2 DEF Init, RevisionIdentifies, StagedExtends
<1> QED
  BY <1>2, <1>3, <1>4, InvariantParts DEF Init, Outcomes

\* A change of the directory while no batch is applied: nobody else saw its
\* revision.
LEMMA Advanced ==
  ASSUME IInv, ~staging, WellFormed(directory'), outcome' \in Outcomes,
         directory'.revision = directory.revision + 1,
         UNCHANGED <<staging, staged, published>>
  PROVE  IInv'
<1>1. WellFormed(staged) /\ published \in Snapshot /\ RevisionIdentifies
  BY InvariantParts
<1>2. directory.revision \in Int /\ published.revision \in Int
  BY InvariantParts DEF WellFormed, Directory, Snapshot
<1>3. published.revision < directory'.revision
  BY <1>1, <1>2 DEF RevisionIdentifies
<1>4. RevisionIdentifies' /\ StagedExtends'
  <2>1. published'.revision < directory'.revision /\ ~staging'
    BY <1>3
  <2>2. directory'.revision \in Int /\ published'.revision \in Int
    BY <1>2
  <2> QED
    BY <2>1, <2>2 DEF RevisionIdentifies, StagedExtends
<1>5. /\ WellFormed(staged')
      /\ staging' \in BOOLEAN
      /\ published' \in Snapshot
  BY InvariantParts
<1> QED
  BY <1>4, <1>5, InvariantPartsNext

\* A change of the clone of a batch that moves no member.
LEMMA Staged ==
  ASSUME IInv, staging, WellFormed(staged'), outcome' \in Outcomes,
         staged'.revision = staged.revision + 1,
         \A k \in DOMAIN staged.positions :
           k \in DOMAIN staged'.positions
           /\ staged'.positions[k] = staged.positions[k],
         UNCHANGED <<directory, staging, published>>
  PROVE  IInv'
<1>1. /\ WellFormed(directory)
      /\ published \in Snapshot
      /\ RevisionIdentifies
      /\ StagedExtends
  BY InvariantParts
<1>2. directory.revision \in Int /\ staged.revision \in Int
  BY InvariantParts DEF WellFormed, Directory
<1>3. /\ directory'.revision < staged'.revision
      /\ directory'.revision \in Int
      /\ staged'.revision \in Int
  BY <1>1, <1>2 DEF RevisionIdentifies
<1>4. RevisionIdentifies'
  <2>1. /\ published'.revision <= directory'.revision
        /\ published'.revision = directory'.revision =>
             published'.members = directory'.entries
    BY <1>1 DEF RevisionIdentifies
  <2>2. directory'.revision <= staged'.revision
        /\ directory'.revision # staged'.revision
    BY <1>3
  <2> QED
    BY <2>1, <2>2 DEF RevisionIdentifies
<1>5. StagedExtends'
  BY <1>1 DEF StagedExtends, Known
<1>6. /\ WellFormed(directory')
      /\ staging' \in BOOLEAN
      /\ published' \in Snapshot
  BY <1>1
<1> QED
  BY <1>4, <1>5, <1>6, InvariantPartsNext

\* Only the outcome of a call changes.
LEMMA Refused ==
  ASSUME IInv, outcome' \in Outcomes,
         UNCHANGED <<directory, staging, staged, published>>
  PROVE  IInv'
<1>1. RevisionIdentifies' /\ StagedExtends'
  BY InvariantParts DEF RevisionIdentifies, StagedExtends, Known
<1> QED
  BY <1>1, InvariantParts, InvariantPartsNext

\* A batch is over, or begins: the clone is the directory.
LEMMA Synchronised ==
  ASSUME IInv, outcome' \in Outcomes, staging' \in BOOLEAN,
         WellFormed(directory'), staged' = directory', UNCHANGED published,
         published.revision <= directory'.revision,
         published.revision = directory'.revision =>
           published.members = directory'.entries
  PROVE  IInv'
<1>1. directory'.revision \in Int
  BY DEF WellFormed, Directory
<1>2. RevisionIdentifies'
  BY <1>1 DEF RevisionIdentifies
<1>3. StagedExtends'
  BY DEF StagedExtends, Known
<1> QED
  BY <1>2, <1>3, InvariantParts, InvariantPartsNext

\* Every step preserves the invariant.
LEMMA NextInvariant == IInv /\ [Next]_vars => IInv'
<1> SUFFICES ASSUME IInv, [Next]_vars PROVE IInv'
  OBVIOUS
<1>1. /\ WellFormed(directory)
      /\ WellFormed(staged)
      /\ published \in Snapshot
      /\ RevisionIdentifies
  BY InvariantParts
<1>2. ASSUME NEW k \in Key, NEW b \in Backend, Upsert(k, b)
      PROVE  IInv'
  <2>1. CASE Exhausted(directory)
    BY <1>2, <2>1, Refused DEF Upsert, Outcomes
  <2>2. CASE ~Exhausted(directory)
    <3>1. /\ ~staging
          /\ directory' = Upserted(directory, k, b)
          /\ outcome' = UpsertEffect(directory, k)
          /\ UNCHANGED <<staging, staged, published>>
      BY <1>2, <2>2 DEF Upsert
    <3>2. UpsertEffect(directory, k) \in Outcomes
      BY DEF UpsertEffect, Outcomes
    <3> QED
      BY <1>1, <2>2, <3>1, <3>2, UpsertedWellFormed, Advanced
  <2> QED
    BY <2>1, <2>2
<1>3. ASSUME NEW k \in Key, NEW b \in Backend, StageUpsert(k, b)
      PROVE  IInv'
  <2>1. CASE AbandonBatch
    BY <1>1, <2>1, Synchronised
       DEF AbandonBatch, Outcomes, RevisionIdentifies
  <2>2. CASE ~Exhausted(staged) /\ ~AbandonBatch
    <3>1. /\ staging
          /\ staged' = Upserted(staged, k, b)
          /\ outcome' = UpsertEffect(staged, k)
          /\ UNCHANGED <<directory, staging, published>>
      BY <1>3, <2>2 DEF StageUpsert
    <3>2. UpsertEffect(staged, k) \in Outcomes
      BY DEF UpsertEffect, Outcomes
    <3> QED
      BY <1>1, <2>2, <3>1, <3>2, UpsertedWellFormed, Staged
  <2> QED
    BY <1>3, <2>1, <2>2 DEF StageUpsert
<1>4. ASSUME NEW k \in Key, BeginDrain(k)
      PROVE  IInv'
  <2>1. CASE CanDrain(directory, k) /\ ~Exhausted(directory)
    <3>1. /\ ~staging
          /\ directory' = Drained(directory, k)
          /\ outcome' \in Outcomes
          /\ UNCHANGED <<staging, staged, published>>
      BY <1>4, <2>1 DEF BeginDrain, Outcomes
    <3> QED
      BY <1>1, <2>1, <3>1, DrainedWellFormed, Advanced
  <2>2. CASE ~(CanDrain(directory, k) /\ ~Exhausted(directory))
    BY <1>4, <2>2, Refused DEF BeginDrain, DrainRefusal, Outcomes
  <2> QED
    BY <2>1, <2>2
<1>5. ASSUME NEW k \in Key, FinishDrain(k)
      PROVE  IInv'
  <2>1. CASE CanRemove(directory, k) /\ ~Exhausted(directory)
    <3>1. /\ ~staging
          /\ directory' = Removed(directory, k)
          /\ outcome' \in Outcomes
          /\ UNCHANGED <<staging, staged, published>>
      BY <1>5, <2>1 DEF FinishDrain, Outcomes
    <3>2. k \in DOMAIN directory.positions
      BY <2>1 DEF CanRemove, Known
    <3> QED
      BY <1>1, <2>1, <3>1, <3>2, RemovedWellFormed, Advanced
  <2>2. CASE ~(CanRemove(directory, k) /\ ~Exhausted(directory))
    BY <1>5, <2>2, Refused DEF FinishDrain, RemovalRefusal, Outcomes
  <2> QED
    BY <2>1, <2>2
<1>6. ASSUME NEW k \in Key, StageDrain(k)
      PROVE  IInv'
  <2>1. CASE AbandonBatch
    BY <1>1, <2>1, Synchronised
       DEF AbandonBatch, Outcomes, RevisionIdentifies
  <2>2. CASE ~AbandonBatch /\ ~CanDrain(staged, k)
    BY <1>6, <2>2, Refused DEF StageDrain, DrainRefusal, Outcomes
  <2>3. CASE ~AbandonBatch /\ CanDrain(staged, k)
    <3>1. /\ staging
          /\ ~Exhausted(staged)
          /\ staged' = Drained(staged, k)
          /\ outcome' \in Outcomes
          /\ UNCHANGED <<directory, staging, published>>
      BY <1>6, <2>3 DEF StageDrain, Outcomes
    <3> QED
      BY <1>1, <2>3, <3>1, DrainedWellFormed, Staged
  <2> QED
    BY <2>1, <2>2, <2>3
<1>7. CASE Publish
  <2>1. CASE directory.revision > published.revision
    <3>1. /\ published' = SnapshotOf(directory)
          /\ outcome' \in Outcomes
          /\ ~staging'
          /\ UNCHANGED <<directory, staging, staged>>
      BY <1>7, <2>1 DEF Publish, Outcomes
    <3>2. directory.revision \in 0..MaxRevision
          /\ directory.entries \in Seq(Entry)
      BY <1>1 DEF WellFormed, Directory
    <3>3. published' \in Snapshot
      BY <3>1, <3>2 DEF SnapshotOf, Snapshot
    <3>4. RevisionIdentifies' /\ StagedExtends'
      BY <3>1, <3>2 DEF RevisionIdentifies, StagedExtends, SnapshotOf
    <3> QED
      BY <1>1, <1>7, <3>1, <3>3, <3>4, InvariantParts, InvariantPartsNext
         DEF Publish
  <2>2. CASE ~(directory.revision > published.revision)
    BY <1>7, <2>2, Refused DEF Publish, Outcomes
  <2> QED
    BY <2>1, <2>2
<1>8. CASE BeginBatch
  BY <1>1, <1>8, Synchronised DEF BeginBatch, Outcomes, RevisionIdentifies
<1>9. CASE CommitBatch
  <2>1. /\ directory.revision \in Int
        /\ staged.revision \in Int
        /\ published.revision \in Int
    BY <1>1 DEF WellFormed, Directory, Snapshot
  <2>2. /\ published.revision <= staged.revision
        /\ published.revision = staged.revision =>
             published.members = staged.entries
    BY <1>1, <1>9, <2>1 DEF CommitBatch, RevisionIdentifies
  <2> QED
    BY <1>1, <1>9, <2>2, Synchronised DEF CommitBatch, Outcomes
<1>10. CASE UNCHANGED vars
  BY <1>10, InvariantParts, Refused DEF vars
<1> QED
  BY <1>2, <1>3, <1>4, <1>5, <1>6, <1>7, <1>8, <1>9, <1>10 DEF Next

-----------------------------------------------------------------------------
(* Theorems.                                                               *)

\* The inductive invariant of the directory and its writer.
THEOREM Invariance == Spec => []IInv
BY InitInvariant, NextInvariant, PTL DEF Spec

\* Directories, snapshots and outcomes have their types, and the revision never
\* passes the last one (checked additions of the revision clock).
THEOREM TypeCorrect == Spec => []TypeOK
<1>1. IInv => TypeOK
  BY DEF IInv
<1> QED
  BY <1>1, Invariance, PTL

\* Each key has one entry, found where the index says, after any calls (upsert,
\* begin_drain, finish_drain, apply_batch).
THEOREM IndexExact == Spec => []IndexIsExact
<1>1. IInv => IndexIsExact
  BY DEF IInv
<1> QED
  BY <1>1, Invariance, PTL

\* Two memberships with the same revision are the same membership, for readers
\* and for a batch (RevisionClock, publish).
THEOREM RevisionsIdentify == Spec => []RevisionIdentifies
<1>1. IInv => RevisionIdentifies
  BY DEF IInv
<1> QED
  BY <1>1, Invariance, PTL

-----------------------------------------------------------------------------
(* Calls.                                                                  *)

\* A single operation makes one change or none, at the price of a revision.
LEMMA SingleCall ==
  ASSUME IInv, Begins, ~staging',
         \/ outcome' = "exhausted" /\ Exhausted(directory) /\ directory' = directory
         \/ outcome' \in Changed /\ directory'.revision = directory.revision + 1
         \/ outcome' \notin Changed \cup {"exhausted"} /\ directory' = directory
  PROVE  CallIInv'
<1>1. directory.revision \in 0..MaxRevision
  BY InvariantParts DEF WellFormed, Directory
<1>2. before' = directory
  BY DEF Begins
<1>3. changes' = IF outcome' \in Changed THEN 1 ELSE 0
  BY DEF Begins
<1>4. "exhausted" \notin Changed
  BY DEF Changed
<1>5. CallsAreAtomic'
  BY <1>1, <1>2, <1>3, <1>4 DEF CallsAreAtomic, Exhausted
<1> QED
  BY <1>1, <1>2, <1>3, <1>5 DEF CallIInv

\* A change of a batch is made on the clone alone, or ends the batch.
LEMMA StagedCall ==
  ASSUME IInv, CallIInv, staging, Continues,
         \/ AbandonBatch /\ Exhausted(staged)
         \/ /\ staging' /\ directory' = directory
            /\ outcome' \in Changed /\ staged'.revision = staged.revision + 1
         \/ /\ staging' /\ directory' = directory
            /\ outcome' \notin Changed \cup {"exhausted"} /\ staged' = staged
  PROVE  CallIInv'
<1>1. /\ before.revision \in 0..MaxRevision /\ changes \in Nat
      /\ staged.revision = before.revision + changes
      /\ directory = before
  BY DEF CallIInv, CallsAreAtomic
<1>2. before' = before /\ changes' = changes + IF outcome' \in Changed THEN 1 ELSE 0
  BY DEF Continues
<1>3. "exhausted" \notin Changed
  BY DEF Changed
<1>4. CASE AbandonBatch /\ Exhausted(staged)
  <2>1. ~staging' /\ directory' = directory /\ outcome' = "exhausted"
    BY <1>4 DEF AbandonBatch
  <2>2. changes' = changes
    BY <1>1, <1>2, <1>3, <2>1
  <2>3. CallsAreAtomic'
    BY <1>1, <1>2, <1>4, <2>1, <2>2 DEF CallsAreAtomic, Exhausted
  <2> QED
    BY <1>1, <1>2, <2>1, <2>2, <2>3 DEF CallIInv
<1>5. CASE ~(AbandonBatch /\ Exhausted(staged))
  <2>1. staging' /\ directory' = directory /\ outcome' # "exhausted"
    BY <1>3, <1>5
  <2>2. changes' \in Nat /\ staged'.revision = before'.revision + changes'
    <3>1. CASE outcome' \in Changed
      BY <1>1, <1>2, <1>5, <3>1
    <3>2. CASE outcome' \notin Changed
      BY <1>1, <1>2, <1>5, <3>2
    <3> QED
      BY <3>1, <3>2
  <2>3. CallsAreAtomic'
    BY <1>1, <1>2, <2>1 DEF CallsAreAtomic
  <2> QED
    BY <1>1, <1>2, <2>1, <2>2, <2>3 DEF CallIInv
<1> QED
  BY <1>4, <1>5

\* What a successful operation makes of the revision.
LEMMA ChangesCost ==
  ASSUME NEW d, NEW k, NEW b
  PROVE  /\ Upserted(d, k, b).revision = d.revision + 1
         /\ Drained(d, k).revision = d.revision + 1
         /\ Removed(d, k).revision = d.revision + 1
         /\ UpsertEffect(d, k) \in Changed
         /\ DrainRefusal(d, k) \notin Changed \cup {"exhausted"}
         /\ RemovalRefusal(d, k) \notin Changed \cup {"exhausted"}
BY DEF Upserted, Drained, Removed, WithEntry, UpsertEffect, DrainRefusal,
       RemovalRefusal, Changed

\* The calls keep their history.
LEMMA CallInvariance == Spec => []CallIInv
<1>1. Init => CallIInv
  <2> SUFFICES ASSUME Init PROVE CallIInv
    OBVIOUS
  <2>1. directory.revision \in 0..MaxRevision
    BY InitInvariant, InvariantParts DEF WellFormed, Directory
  <2> QED
    BY <2>1 DEF Init, CallIInv, CallsAreAtomic
<1>2. IInv /\ IInv' /\ CallIInv /\ [Next]_vars => CallIInv'
  <2> SUFFICES ASSUME IInv, IInv', CallIInv, [Next]_vars PROVE CallIInv'
    OBVIOUS
  <2>1. ASSUME NEW k \in Key, NEW b \in Backend, Upsert(k, b)
        PROVE  CallIInv'
    BY <2>1, SingleCall, ChangesCost DEF Upsert
  <2>2. ASSUME NEW k \in Key, BeginDrain(k)
        PROVE  CallIInv'
    BY <2>2, SingleCall, ChangesCost DEF BeginDrain, Changed
  <2>3. ASSUME NEW k \in Key, FinishDrain(k)
        PROVE  CallIInv'
    BY <2>3, SingleCall, ChangesCost DEF FinishDrain, Changed
  <2>4. ASSUME NEW k \in Key, NEW b \in Backend, StageUpsert(k, b)
        PROVE  CallIInv'
    <3>1. staging /\ Continues
      BY <2>4 DEF StageUpsert
    <3>2. CASE Exhausted(staged)
      BY <2>4, <3>1, <3>2, StagedCall DEF StageUpsert
    <3>3. CASE ~Exhausted(staged)
      <4>1. staged' = Upserted(staged, k, b) /\ outcome' = UpsertEffect(staged, k)
            /\ UNCHANGED <<directory, staging, published>>
        BY <2>4, <3>3 DEF StageUpsert
      <4>2. staged'.revision = staged.revision + 1 /\ outcome' \in Changed
        BY <4>1, ChangesCost
      <4> QED
        BY <3>1, <4>1, <4>2, StagedCall
    <3> QED
      BY <3>2, <3>3
  <2>5. ASSUME NEW k \in Key, StageDrain(k)
        PROVE  CallIInv'
    BY <2>5, StagedCall, ChangesCost DEF StageDrain, Changed
  <2>6. CASE Publish
    BY <2>6, SingleCall DEF Publish, Changed
  <2>7. CASE BeginBatch
    <3>1. directory.revision \in 0..MaxRevision
      BY InvariantParts DEF WellFormed, Directory
    <3>2. /\ before' = directory /\ directory' = directory /\ staged' = directory
          /\ staging' /\ outcome' = "none" /\ changes' = 0
      BY <2>7 DEF BeginBatch, Begins, Changed
    <3> QED
      BY <3>1, <3>2 DEF CallIInv, CallsAreAtomic
  <2>8. CASE CommitBatch
    <3>1. /\ before' = before /\ directory' = staged /\ ~staging'
          /\ outcome' = "committed" /\ changes' = changes + 0 /\ staging
      BY <2>8 DEF CommitBatch, Continues, Changed
    <3> QED
      BY <3>1 DEF CallIInv, CallsAreAtomic
  <2>9. CASE UNCHANGED vars
    BY <2>9 DEF vars, CallIInv, CallsAreAtomic
  <2> QED
    BY <2>1, <2>2, <2>3, <2>4, <2>5, <2>6, <2>7, <2>8, <2>9 DEF Next
<1> QED
  BY <1>1, <1>2, Invariance, PTL DEF Spec

\* A call changes the directory at its end or not at all: a batch that fails at
\* any of its changes leaves what it found (apply_batch), a call fails only when
\* the clock is used up, and what changes is told by a revision of its own.
THEOREM AtomicCalls == Spec => []CallsAreAtomic
<1>1. CallIInv => CallsAreAtomic
  BY DEF CallIInv
<1> QED
  BY <1>1, CallInvariance, PTL

-----------------------------------------------------------------------------
(* Removals.                                                               *)

\* The keys with an entry are those of the index.
LEMMA KeysAreIndexed ==
  ASSUME NEW d, WellFormed(d)
  PROVE  Keys(d) = DOMAIN d.positions
BY Exact DEF Keys

\* What DrainsBeforeRemoval says of one step.
OrderlyStep(d, e) ==
  /\ \A i \in Places(d) :
       d.entries[i].key \notin Keys(e) =>
         /\ d.entries[i].membership = "draining"
         /\ Len(e.entries) = Len(d.entries) - 1
  /\ \A i, j \in Places(d) :
       LET a == d.entries[i].key
           b == d.entries[j].key
       IN  i < j /\ {a, b} \subseteq Keys(e) => e.positions[a] < e.positions[b]

LEMMA ExtensionIsOrderly ==
  ASSUME NEW d, NEW e, WellFormed(d), WellFormed(e),
         \A x \in DOMAIN d.positions :
           x \in DOMAIN e.positions /\ e.positions[x] = d.positions[x]
  PROVE  OrderlyStep(d, e)
<1>1. \A i \in Places(d) :
        /\ d.entries[i].key \in Keys(e)
        /\ e.positions[d.entries[i].key] = i
  BY Exact, KeysAreIndexed
<1> QED
  BY <1>1 DEF OrderlyStep

LEMMA RemovalIsOrderly ==
  ASSUME NEW d, WellFormed(d), ~Exhausted(d), NEW k, CanRemove(d, k)
  PROVE  OrderlyStep(d, Removed(d, k))
<1> DEFINE e == Removed(d, k)
<1>1. /\ k \in DOMAIN d.positions
      /\ d.entries[d.positions[k]].membership = "draining"
  BY DEF CanRemove, Known, Found
<1>2. /\ Keys(e) = DOMAIN d.positions \ {k}
      /\ Len(e.entries) = Len(d.entries) - 1
      /\ \A x \in DOMAIN d.positions \ {k} :
           e.positions[x] = IF d.positions[x] < d.positions[k]
                              THEN d.positions[x] ELSE d.positions[x] - 1
  BY <1>1, RemovedWellFormed, KeysAreIndexed
<1>3. /\ Len(d.entries) \in Nat
      /\ d.positions[k] \in Places(d)
      /\ \A i \in Places(d) :
           /\ d.entries[i].key \in DOMAIN d.positions
           /\ d.positions[d.entries[i].key] = i
  BY <1>1, Exact
<1> HIDE DEF e
<1>4. ASSUME NEW i \in Places(d), d.entries[i].key \notin Keys(e)
      PROVE  /\ d.entries[i].membership = "draining"
             /\ Len(e.entries) = Len(d.entries) - 1
  <2>1. d.entries[i].key = k
    BY <1>2, <1>3, <1>4
  <2> QED
    BY <2>1, <1>1, <1>2, <1>3
<1>5. ASSUME NEW i \in Places(d), NEW j \in Places(d), i < j,
             d.entries[i].key \in Keys(e), d.entries[j].key \in Keys(e)
      PROVE  e.positions[d.entries[i].key] < e.positions[d.entries[j].key]
  <2> DEFINE a == d.entries[i].key
             b == d.entries[j].key
             m == d.positions[k]
  <2>1. /\ a \in DOMAIN d.positions \ {k} /\ d.positions[a] = i
        /\ b \in DOMAIN d.positions \ {k} /\ d.positions[b] = j
    BY <1>2, <1>3, <1>5
  <2>2. /\ e.positions[a] = IF i < m THEN i ELSE i - 1
        /\ e.positions[b] = IF j < m THEN j ELSE j - 1
    BY <2>1, <1>2
  <2>3. j # m
    BY <2>1, <1>3, Exact, <1>1
  <2>4. i \in Int /\ j \in Int /\ m \in Int
    BY <1>3 DEF Places
  <2> HIDE DEF a, b, m
  <2> QED
    BY <2>2, <2>3, <2>4, <1>5 DEF a, b
<1> QED
  BY <1>4, <1>5 DEF OrderlyStep, e

\* A member leaves only by a finish_drain of its own, when draining, and the
\* others keep their order.
THEOREM DrainedBeforeRemoval == Spec => DrainsBeforeRemoval
<1>1. IInv /\ [Next]_vars => OrderlyStep(directory, directory')
  <2> SUFFICES ASSUME IInv, [Next]_vars
               PROVE  OrderlyStep(directory, directory')
    OBVIOUS
  <2>1. WellFormed(directory) /\ WellFormed(directory') /\ WellFormed(staged)
    BY NextInvariant, InvariantParts, InvariantPartsNext
  <2>2. CASE UNCHANGED directory
    BY <2>1, <2>2, ExtensionIsOrderly
  <2>3. ASSUME NEW k \in Key, NEW b \in Backend,
               Upsert(k, b) \/ StageUpsert(k, b), directory' # directory
        PROVE  OrderlyStep(directory, directory')
    <3>1. ~Exhausted(directory) /\ directory' = Upserted(directory, k, b)
      BY <2>3 DEF Upsert, StageUpsert, AbandonBatch
    <3> QED
      BY <2>1, <3>1, UpsertedWellFormed, ExtensionIsOrderly
  <2>4. ASSUME NEW k \in Key, BeginDrain(k) \/ StageDrain(k),
               directory' # directory
        PROVE  OrderlyStep(directory, directory')
    <3>1. /\ ~Exhausted(directory)
          /\ CanDrain(directory, k)
          /\ directory' = Drained(directory, k)
      BY <2>4 DEF BeginDrain, StageDrain, AbandonBatch
    <3> QED
      BY <2>1, <3>1, DrainedWellFormed, ExtensionIsOrderly
  <2>5. ASSUME NEW k \in Key, FinishDrain(k), directory' # directory
        PROVE  OrderlyStep(directory, directory')
    <3>1. /\ ~Exhausted(directory)
          /\ CanRemove(directory, k)
          /\ directory' = Removed(directory, k)
      BY <2>5 DEF FinishDrain
    <3> QED
      BY <2>1, <3>1, RemovalIsOrderly
  <2>6. CASE CommitBatch
    <3>1. directory' = staged /\ StagedExtends /\ staging
      BY <2>6, InvariantParts DEF CommitBatch
    <3> QED
      BY <2>1, <3>1, ExtensionIsOrderly DEF StagedExtends, Known
  <2>7. CASE Publish \/ BeginBatch
    BY <2>2, <2>7 DEF Publish, BeginBatch
  <2> QED
    BY <2>2, <2>3, <2>4, <2>5, <2>6, <2>7 DEF Next, vars
<1>2. OrderlyStep(directory, directory') <=>
        /\ \A i \in Places(directory) :
             directory.entries[i].key \notin Keys(directory') =>
               /\ directory.entries[i].membership = "draining"
               /\ Len(directory'.entries) = Len(directory.entries) - 1
        /\ \A i, j \in Places(directory) :
             LET a == directory.entries[i].key
                 b == directory.entries[j].key
             IN  i < j /\ {a, b} \subseteq Keys(directory') =>
                   directory'.positions[a] < directory'.positions[b]
  BY DEF OrderlyStep
<1> QED
  BY <1>1, <1>2, Invariance, PTL DEF Spec, DrainsBeforeRemoval

=============================================================================
