----------------------------- MODULE Directory -----------------------------
(***************************************************************************)
(* The membership directory of poise-discovery (Directory), and the        *)
(* snapshots its single writer publishes.                                  *)
(*                                                                         *)
(* A directory is a record: its revision, its entries in insertion order,  *)
(* and the index positions from a key to the place of its entry.  A batch  *)
(* works on a staged clone, one change at a time; the writer holds the     *)
(* directory exclusively meanwhile, and readers see published snapshots.   *)
(*                                                                         *)
(* MaxRevision stands for u64::MAX: the revision clock can be exhausted.   *)
(***************************************************************************)
EXTENDS Integers, Sequences

CONSTANTS
  Key,           \* the keys of members
  Backend,       \* their backends
  MaxRevision    \* the last revision of the clock

ASSUME MaxRevisionAssumption == MaxRevision \in Nat

VARIABLES
  directory,    \* the directory
  staging,      \* a batch is being applied
  staged,       \* the clone it is applied to, while staging
  published,    \* the snapshot readers see
  outcome,      \* what the last operation returned
  before,       \* history: the directory when the current or last call began
  changes       \* history: how many changes that call has made

vars == <<directory, staging, staged, published, outcome, before, changes>>

Memberships == {"active", "draining"}
Outcomes    == {"none", "inserted", "updated", "revived", "drain_started",
                "already_draining", "drain_finished", "not_draining",
                "not_found", "exhausted", "published", "refused", "committed"}

\* The outcomes of a change that was made (Effect::changed).
Changed == {"inserted", "updated", "revived", "drain_started", "drain_finished"}

Entry     == [key : Key, backend : Backend, membership : Memberships]
Snapshot  == [revision : 0..MaxRevision, members : Seq(Entry)]
Positions == UNION {[K -> 1..MaxRevision] : K \in SUBSET Key}
Directory == [revision : 0..MaxRevision, entries : Seq(Entry),
              positions : Positions]

TypeOK ==
  /\ directory \in Directory
  /\ staging \in BOOLEAN
  /\ staged \in Directory
  /\ published \in Snapshot
  /\ outcome \in Outcomes

SnapshotOf(d) == [revision |-> d.revision, members |-> d.entries]

\* A directory starts empty, at a revision that may have been restored.
New(r) == [revision |-> r, entries |-> <<>>, positions |-> [k \in {} |-> 1]]

Init ==
  /\ \E r \in 0..MaxRevision : directory = New(r)
  /\ staging = FALSE
  /\ staged = directory
  /\ published = SnapshotOf(directory)
  /\ outcome = "none"
  /\ before = directory
  /\ changes = 0

-----------------------------------------------------------------------------
(* The operations, as functions of the directory they change.              *)

Exhausted(d) == d.revision = MaxRevision

Known(d, k) == k \in DOMAIN d.positions

Found(d, k) == d.entries[d.positions[k]]

\* The entry of a known key, replaced.
WithEntry(d, k, entry) ==
  [revision  |-> d.revision + 1,
   entries   |-> [d.entries EXCEPT ![d.positions[k]] = entry],
   positions |-> d.positions]

Active(k, b) == [key |-> k, backend |-> b, membership |-> "active"]

\* The map positions with k inserted.
Indexed(positions, k, i) ==
  [x \in DOMAIN positions \cup {k} |-> IF x = k THEN i ELSE positions[x]]

\* upsert: the clock is advanced first, so an exhausted one refuses every call.
Upserted(d, k, b) ==
  IF Known(d, k)
    THEN WithEntry(d, k, Active(k, b))
    ELSE [revision  |-> d.revision + 1,
          entries   |-> Append(d.entries, Active(k, b)),
          positions |-> Indexed(d.positions, k, Len(d.entries) + 1)]

UpsertEffect(d, k) ==
  IF ~Known(d, k) THEN "inserted"
  ELSE IF Found(d, k).membership = "draining" THEN "revived"
  ELSE "updated"

\* begin_drain: what needs no change needs no revision.
Drained(d, k) ==
  WithEntry(d, k, [Found(d, k) EXCEPT !.membership = "draining"])

DrainRefusal(d, k) == IF ~Known(d, k) THEN "not_found" ELSE "already_draining"

CanDrain(d, k) == Known(d, k) /\ Found(d, k).membership # "draining"

\* The sequence without its i-th entry.
Without(entries, i) ==
  [j \in 1..Len(entries) - 1 |-> IF j < i THEN entries[j] ELSE entries[j + 1]]

\* Mutant of Reindexed: the entries that moved up keep their old places.
ReindexedNot(positions, entries, i) == positions

\* The entries from place i on are inserted into the index again.
Reindexed(positions, entries, i) ==
  LET moved == {j \in 1..Len(entries) : j >= i} IN
  [k \in DOMAIN positions \cup {entries[j].key : j \in moved} |->
     IF \E j \in moved : entries[j].key = k
       THEN CHOOSE j \in moved : entries[j].key = k
       ELSE positions[k]]

\* Mutant of Removed: the revision is not advanced.
RemovedSilently(d, k) ==
  LET i == d.positions[k]
      rest == [x \in DOMAIN d.positions \ {k} |-> d.positions[x]]
  IN
  [revision  |-> d.revision,
   entries   |-> Without(d.entries, i),
   positions |-> Reindexed(rest, Without(d.entries, i), i)]

\* finish_drain: the entry is removed and those behind it move up.
Removed(d, k) ==
  LET i == d.positions[k]
      rest == [x \in DOMAIN d.positions \ {k} |-> d.positions[x]]
  IN
  [revision  |-> d.revision + 1,
   entries   |-> Without(d.entries, i),
   positions |-> Reindexed(rest, Without(d.entries, i), i)]

\* Mutant of CanRemove: an active member is removed as well.
CanRemoveActive(d, k) == Known(d, k)

CanRemove(d, k) == Known(d, k) /\ Found(d, k).membership = "draining"

RemovalRefusal(d, k) == IF ~Known(d, k) THEN "not_found" ELSE "not_draining"

-----------------------------------------------------------------------------
(* Single operations.                                                      *)

\* History: a call that is over at once, or begins.
Begins ==
  /\ before' = directory
  /\ changes' = IF outcome' \in Changed THEN 1 ELSE 0

Upsert(k, b) ==
  /\ ~staging
  /\ IF Exhausted(directory)
       THEN outcome' = "exhausted" /\ UNCHANGED directory
       ELSE /\ directory' = Upserted(directory, k, b)
            /\ outcome' = UpsertEffect(directory, k)
  /\ Begins
  /\ UNCHANGED <<staging, staged, published>>

BeginDrain(k) ==
  /\ ~staging
  /\ IF ~CanDrain(directory, k)
       THEN outcome' = DrainRefusal(directory, k) /\ UNCHANGED directory
       ELSE IF Exhausted(directory)
              THEN outcome' = "exhausted" /\ UNCHANGED directory
              ELSE /\ directory' = Drained(directory, k)
                   /\ outcome' = "drain_started"
  /\ Begins
  /\ UNCHANGED <<staging, staged, published>>

FinishDrain(k) ==
  /\ ~staging
  /\ IF ~CanRemove(directory, k)
       THEN outcome' = RemovalRefusal(directory, k) /\ UNCHANGED directory
       ELSE IF Exhausted(directory)
              THEN outcome' = "exhausted" /\ UNCHANGED directory
              ELSE /\ directory' = Removed(directory, k)
                   /\ outcome' = "drain_finished"
  /\ Begins
  /\ UNCHANGED <<staging, staged, published>>

\* publish: the channel refuses a snapshot that is not newer than its own.
Publish ==
  /\ ~staging
  /\ IF directory.revision > published.revision
       THEN published' = SnapshotOf(directory) /\ outcome' = "published"
       ELSE UNCHANGED published /\ outcome' = "refused"
  /\ Begins
  /\ UNCHANGED <<directory, staging, staged>>

-----------------------------------------------------------------------------
(* apply_batch: every change succeeds on the clone, or none is kept.       *)

BeginBatch ==
  /\ ~staging
  /\ staging' = TRUE
  /\ staged' = directory
  /\ outcome' = "none"
  /\ Begins
  /\ UNCHANGED <<directory, published>>

\* History: one change more of the batch.
Continues ==
  /\ before' = before
  /\ changes' = changes + IF outcome' \in Changed THEN 1 ELSE 0

AbandonBatch ==
  /\ staging' = FALSE
  /\ staged' = directory
  /\ outcome' = "exhausted"
  /\ UNCHANGED <<directory, published>>

\* Mutant of StageUpsert: the batch works on the directory itself.
StageUpsertInPlace(k, b) ==
  /\ staging
  /\ \/ /\ Exhausted(staged)
        /\ AbandonBatch
     \/ /\ ~Exhausted(staged)
        /\ staged' = Upserted(staged, k, b)
        /\ directory' = staged'
        /\ outcome' = UpsertEffect(staged, k)
        /\ UNCHANGED <<staging, published>>
  /\ Continues

StageUpsert(k, b) ==
  /\ staging
  /\ \/ /\ Exhausted(staged)
        /\ AbandonBatch
     \/ /\ ~Exhausted(staged)
        /\ staged' = Upserted(staged, k, b)
        /\ outcome' = UpsertEffect(staged, k)
        /\ UNCHANGED <<directory, staging, published>>
  /\ Continues

StageDrain(k) ==
  /\ staging
  /\ \/ /\ ~CanDrain(staged, k)
        /\ outcome' = DrainRefusal(staged, k)
        /\ UNCHANGED <<directory, staging, staged, published>>
     \/ /\ CanDrain(staged, k)
        /\ Exhausted(staged)
        /\ AbandonBatch
     \/ /\ CanDrain(staged, k)
        /\ ~Exhausted(staged)
        /\ staged' = Drained(staged, k)
        /\ outcome' = "drain_started"
        /\ UNCHANGED <<directory, staging, published>>
  /\ Continues

CommitBatch ==
  /\ staging
  /\ staging' = FALSE
  /\ directory' = staged
  /\ staged' = staged
  /\ outcome' = "committed"
  /\ Continues
  /\ UNCHANGED published

-----------------------------------------------------------------------------
Next ==
  \/ \E k \in Key :
       \/ \E b \in Backend : Upsert(k, b) \/ StageUpsert(k, b)
       \/ BeginDrain(k)
       \/ FinishDrain(k)
       \/ StageDrain(k)
  \/ Publish
  \/ BeginBatch
  \/ CommitBatch

Spec == Init /\ [][Next]_vars

-----------------------------------------------------------------------------
(* Properties.                                                             *)

Places(d) == 1..Len(d.entries)

IsExact(d) ==
  /\ \A i \in Places(d) :
       Known(d, d.entries[i].key) /\ d.positions[d.entries[i].key] = i
  /\ \A k \in DOMAIN d.positions :
       d.positions[k] \in Places(d) /\ Found(d, k).key = k

\* The index and the entries agree after any sequence of calls: each key has one
\* entry, found where the index says, however entries moved when others were
\* removed (upsert, finish_drain; also on the clone of a batch).
IndexIsExact == IsExact(directory) /\ IsExact(staged)

\* A revision identifies contents: readers who compare revisions only never
\* mistake one membership for another, and none of them sees the future.
RevisionIdentifies ==
  /\ published.revision <= directory.revision
  /\ published.revision = directory.revision =>
       published.members = directory.entries
  /\ staging => /\ directory.revision <= staged.revision
                /\ directory.revision = staged.revision =>
                     staged.entries = directory.entries

\* A call is a transaction.  Until it ends the directory is the one it found,
\* so that a batch leaves no trace if it fails at any of its changes, however
\* many it has made; it fails only when its changes have used up the clock; and
\* each change of a call that succeeds has advanced the clock by one (the Errors
\* sections of apply_batch, upsert, begin_drain and finish_drain).
CallsAreAtomic ==
  /\ staging \/ outcome = "exhausted" => directory = before
  /\ outcome = "exhausted" => before.revision + changes = MaxRevision
  /\ ~staging /\ outcome # "exhausted" =>
       directory.revision = before.revision + changes

Keys(d) == {d.entries[i].key : i \in Places(d)}

\* A member leaves only by a step of its own, when draining; the members that
\* stay keep their order (begin_drain, finish_drain, the insertion order of
\* snapshots).
DrainsBeforeRemoval ==
  [][/\ \A i \in Places(directory) :
          directory.entries[i].key \notin Keys(directory') =>
            /\ directory.entries[i].membership = "draining"
            /\ Len(directory'.entries) = Len(directory.entries) - 1
     /\ \A i, j \in Places(directory) :
          LET a == directory.entries[i].key
              b == directory.entries[j].key
          IN  i < j /\ {a, b} \subseteq Keys(directory') =>
                directory'.positions[a] < directory'.positions[b]
    ]_vars

-----------------------------------------------------------------------------
(* The inductive strengthening.                                            *)

\* Every entry cost a revision.
EntriesCostRevisions ==
  /\ Len(directory.entries) <= directory.revision
  /\ Len(staged.entries) <= staged.revision

\* A batch moves no member.
StagedExtends ==
  staging => \A k \in DOMAIN directory.positions :
               Known(staged, k) /\ staged.positions[k] = directory.positions[k]

\* What the changes of a call have cost so far.
CallIInv ==
  /\ before.revision \in 0..MaxRevision
  /\ changes \in Nat
  /\ staging => /\ outcome # "exhausted"
                /\ staged.revision = before.revision + changes
  /\ CallsAreAtomic

IInv ==
  /\ TypeOK
  /\ EntriesCostRevisions
  /\ IndexIsExact
  /\ RevisionIdentifies
  /\ StagedExtends

=============================================================================
