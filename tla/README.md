# A TLA+ model of Poise

Poise is a set of load-balancing primitives: nothing in it runs by itself.
Threads, tasks and clients of an application share its values, call them at any
moment, and drop its guards, permits, streams and futures wherever they like.
What is hard about it is therefore what happens *between* calls, and between
the shared accesses of one call.  This directory holds TLA+ models of those
parts, their TLC configurations, and TLAPS proofs about them.

Paths below are relative to `src/crates/`, and `src/docs/` for the engineering
book.

## 1. Inventory

| Component | Source | State it keeps | Operations | Modelled in |
|---|---|---|---|---|
| Membership directory | `poise-discovery/src/directory.rs`, `revision.rs` | revision, ordered entries, index from keys to places | `upsert`, `begin_drain`, `finish_drain`, `apply_batch`, `snapshot`, `publish` | `Directory` |
| Discovered member | `poise-discovery/src/member.rs` | key, shared backend, membership | eligibility masked by membership | `ServicePool` |
| Snapshot channel | `poise-discovery/src/snapshot.rs` | the current snapshot, the alive flag, the list of waiters; per stream the last revision and its waker | `publish`, drop, `subscribe`, `changes`, `poll_next` | `SnapshotChannel`, abstract `StateFeed` |
| Passive circuit breaker | `poise-health/src/circuit.rs` | the mode with its counts, under a lock | `try_acquire`, `is_available`, `snapshot`, `force_open`, `force_close`, `record`/drop of a permit | `CircuitBreaker` |
| Active health | `poise-health/src/active.rs` | status, streaks, `in_flight`, generation, last completion, under a lock | `try_start_probe_at`, `finish_at`, `force_status`, drop of a probe | `ActiveHealth` |
| Tokio probe runner | `poise-tokio/src/health.rs` | one reservation per future | `run_once`: sleep, reserve, probe under a timeout | `ActiveHealth` |
| Probe pool | `poise-core/src/probe.rs` | bounded observations with remaining uses | `record_at`, `decide_at`, `decide_among_at`, `len_at`, `clear` | `ProbePool` |
| In-flight counter, peak EWMA | `poise-core/src/load.rs` | an atomic counter; an estimate and its instant, under a lock | `start`, `observe`, `complete`, `cancel`, drop, `score` | `PeakEwma` |
| Tower balancer | `poise-tower/src/balance.rs`, `endpoint.rs`, `future.rs` | endpoints with readiness | `poll_ready`, `call`, response futures, `reset_readiness` | `ServicePool` (partly) |
| Discovery balancer | `poise-tower/src/discovery.rs` | applied revision, factory | `apply_snapshot`, `sync` | `ServicePool` (partly) |
| Streaming balancer | `poise-tower/src/streaming.rs` | stream, end policy, `updates_closed` | `poll_updates`, `poll_ready`, `call` | `ServicePool` |
| Tokio snapshot adapter | `poise-tokio/src/snapshot.rs` | - | `next_snapshot`, `wait_for_revision` | `SnapshotChannel` |
| Health-checked candidate | `poise-health/src/candidate.rs` | a signal, shared | `is_eligible`, `status` | `Candidates`, `WeightedRandomScan` |
| Outcome window | `poise-health/src/outcome_window.rs` | a deque of the last outcomes and running totals, under a lock | `record`, `stats`, `clear` | `OutcomeWindows` |
| Outlier detector | `poise-health/src/outlier.rs` | configuration | `evaluate` | `Outliers`, `OutcomeWindows` |
| Basic policies | `poise-core/src/policy/` | a cursor | `pick` | `SelectionPolicies`, `Routing` |
| Smooth weighted round robin | `poise-core/src/policy/smooth_weighted_round_robin.rs` | credits by identity, an epoch | `pick`, `reset` | `SelectionPolicies`, `Routing` |
| Hashing policies, bounded load | `rendezvous.rs`, `weighted_rendezvous.rs`, `bounded_load.rs`, `ring_hash.rs`, `maglev.rs` | the last two: a table and the members it was built from | `pick`, `reconcile`, `reset` | `AffinityPolicies`, `Routing` |
| Priority and locality | `priority.rs`, `locality.rs` | scratch buffers | `decide`, `pick` | `PriorityRouting`, `Routing` |
| Observability | `poise-observe/src/` | relaxed counters; per attempt, whether it has finished | `Attempt::complete`, drop, `ObservedPolicy::pick`, `TowerObserver`, `Fanout`, `Metrics::snapshot` | `Observability`, `Application` |
| Backend, error types | `poise-core/src/backend.rs`, `error.rs` | plain data | - | `Candidates` |

How they interact:

    discovery source --> Directory --publish--> snapshot channel --wake--> streaming balancer
                                                                              | apply_snapshot
    probe runner --> ActiveHealth --\                                         v
    permits --> CircuitBreaker ------+-- is_eligible --> endpoints <-- poll_ready / call
    guards --> InFlight, PeakEwma --/-- load ----------> policy            |
                                                                           v
                                                     response future owns a load guard

- Directory to channel: by value; a snapshot is immutable, and shares the
  backend allocations of the entries.
- Channel to stream: one pointer swap, one flag and one list of wakers, each
  read on its own.  `poll_next` is a sequence of four shared reads and one
  critical section.
- Health and load to policy: by reading, at selection time, values other
  threads are changing.
- Dispatch to health and load: by guards and permits, which outlive the
  endpoint they came from.
- Dispatch to windows and counters: by outcomes and events.  A window is read by
  the outlier detector and, as a penalty, by policies; a counter by snapshots.

The hard behaviours, and the properties that make each component correct:

| Component | Hard behaviour | What makes it correct |
|---|---|---|
| Channel | lost wake-ups between check and registration; end of stream racing with the last publication | no consumer sleeps on news; revisions strictly increase; the stream ends only after the publisher |
| Circuit | permits that outlive the mode that issued them; an instant read outside the lock; cancelled probes | half-open slots are never leaked, the cooldown is served, a result counts only in its own epoch |
| Active health | forced statuses and dropped futures while a probe is under way; racing runners | one reservation, stale probes are ignored, completions are spaced, a hung probe ends |
| Probe pool | instants in any order, out-of-order completions, a full pool | a bounded number of bounded-use observations, none used when stale, the freshest kept |
| Directory | removals that move the entries behind them; batches that fail late; an exhausted clock | the index is exact, a revision identifies a membership, a call happens as a whole or not at all |
| In flight, EWMA | racing increments; samples in any order; a score of two reads | the counter is the number of guards; the estimate is explained by the samples |
| Policies | slices that change and are reordered between picks; state kept from older slices; rounded shares; hash collisions | a pick is justified by its slice, turns are exact, tables are current, traffic is covered, only what changed moves |
| Windows, outliers | totals kept beside what they count; two caps and a floating-point threshold | the totals are those of the last outcomes; the caps hold and the worst go first |
| Metrics | events recorded by several additions, snapshots by several loads, drops after completions | each event once; a snapshot is an interval |
| Tower stack | reconciliation while reservations and futures are out; a poll cut short by its budget or by an error | the pool is the snapshot it claims; reservations and loads follow their generation; every publication is taken |

`PROJECT.json` lists each hazard at its line with the properties aimed at it.

## 2. Modules

An instance for TLC is a module `MC<X>.tla` where definitions are needed for
constants, and a `.cfg`; the proofs about `X` are in `<X>Proofs.tla`.

**StateFeed** is what a consumer of the channel is promised: a latest value and
observers that each take strictly newer values, until the feed is closed and
they end.  It says nothing of locks, waiters or wakers.

**SnapshotChannel** is the channel as the code has it: every atomic access and
every critical section is a step.  `Publish` and `DropPublisher` store and start
`wake_subscribers`, which goes `LockWaiters`, `VisitWaiter` for each listed
stream, `UnlockWaiters`, `Wake` for each waker it collected; a poll goes `PollLoad`,
`PollAlive`, `PollRegister`, `PollReload` and `PollRecheckAlive`, with
`PollDisarm` when the second look found news after the waker was stored.  Streams begin with `Subscribe`, or
`Changes` and `OpenChanges` (the revision is read before the waiter is listed),
and may be dropped between polls.  `next_snapshot` is a poll, and
`wait_for_revision` a subscription polled until `WaitOver` and then dropped.  It implements `StateFeed`
(`ImplementsFeed`), under the refinement that an observer is a stream, the
latest value the stored snapshot's revision.

**CircuitBreaker** is `PassiveHealth` and its permits.  A caller reads the clock
(`Enter`) and acquires the lock later (`TryAcquire`, `IsAvailable`, `ForceOpen`,
`Finish`), as `self.clock.now()` comes before `self.lock()` in the code; the
clock may move in between.  `Refreshed` is `refresh`, `AfterAttempt` and
`AfterProbe` the two halves of `finish`.  Dropping a permit is `Finish` with
`Cancelled`, as in `Drop`.

**ActiveHealth** is `ActiveHealth` with the runners of the Tokio adapter over it.
A runner reads the clock, finds that it must sleep or try, reserves, awaits its
probe and either gets an answer, times out (recording a failure or cancelling,
by its `TimeoutPolicy`) or is dropped at an await.  `FinishAt` is `finish_at`
with its generation test; `ForceStatus` advances the generation.

**ProbePool** is the pool with its lock held for a whole call, so that each call
is one action; instants come from the callers and may go backwards.  Entries are
numbered in the order of their recording, which is what the ties of
`oldest_index` depend on.  The ranking function of a decision is the caller's:
it may take any entry it was offered, or none.

**Directory** has the entries in order and the index `positions` as the code has
them, so that the reindexing loop of `finish_drain` is really modelled.  A
batch works on a clone (`BeginBatch`), and is installed (`CommitBatch`) or
dropped at its first error (`AbandonBatch`, a part of each failing staged
operation).  The published snapshot is the one in the channel.  Two history
variables say what a call is answerable for: `before`, the directory when it
began, and `changes`, how many changes it has made since (`Changed` is
`Effect::changed`); `Begins` and `Continues` keep them, and no guard reads them.
`CallsAreAtomic` relates them to the directory through every step of a batch, so
that a batch that worked on the directory itself and failed late would be seen.

**PeakEwma** is the counter and the estimate.  `start` is `Start` (the load) and
`Exchange` (the compare-and-exchange, which on failure tries again from what it
read).  `complete` reads the clock, observes under the lock, then releases;
`score` is two reads with anything between them.  Latencies are natural numbers
and decay is an operator `Decay(c, t)` of which only the laws of an exponential
are assumed (`DecayAssumption`): the proofs hold for every such operator, TLC
uses halving.

**ServicePool** composes: the writer is an `INSTANCE` of `Directory` (its operators
`Upserted`, `Drained`, `Removed`, `SnapshotOf`), the stream is a `StateFeed`
(`News`, `TakeUpdate`, the end of the stream), and the balancer polls, reconciles,
scans and dispatches.  Publication and its wake-ups are one step here; that
they may be is what `NoLostWakeup` of the channel says.  A backend allocation
is named by the revision whose upsert made it, so that `Arc::ptr_eq` is
equality.  One task owns the balancer (`&mut self`), so `Call`, `Sync` and
`Reset` happen between polls, and everything else may happen inside one.

**Candidates** is what a policy sees of a slice: for each place an identity, a
weight, a load, a status, a health signal, a priority and a locality, each valid
by the constructor of its wrapper.  `Eligible` is `is_eligible` through the
wrappers.

**SelectionPolicies**, **AffinityPolicies** and **PriorityRouting** are the policies as
operators.  Each takes a slice and the state the policy had, and gives the
result and the state it leaves, the failing picks included: smooth weighted
round robin starts anew after a repeated identity, and a failed rebuild leaves
the table that was.  What a random generator may draw is the set of results with a
positive weight.  A hash builder is data: scores, owners, ring points, Maglev's
offsets and skips, chosen so that some collide.

**Routing** is a balancer that owns one policy and picks with it again and again
from any slice of a set, so that every sequence of memberships is a
behaviour.  Its state is the policy's (`cursor`, `smooth`, `cache`), the last
pick, and a history of who was served in the current cycle.

**Outliers** is one evaluation, in whole numbers on a common denominator.
**OutcomeWindows** gives it the statistics to evaluate: the windows of a group
of hosts after any sequence of outcomes and clears.

**Observability** is attempts, events and two `Metrics` in a `Fanout`.  An event is told by
its teller addition by addition, to the first sink and then the next; a snapshot
loads one counter after the other (those of the decisions in one step, since
nothing relates them).

**Application** puts the three together as an application does: `ObservedPick` is
`ObservedPolicy::pick`, a `Pick` of `Routing` whose result is noticed by
`Observability`.  A `workload` fixes what an application uses, so that the parts that share
nothing are not multiplied with one another.

**WeightedRandomScan** is one `WeightedRandom::pick` with every call of `is_eligible` a
step and health signals that change in between.

### State and actions against the code

`PROJECT.json` maps each definition to its lines.  What is abstracted
throughout: keys, backends and callers are model values; instants are small
naturals, and `Tick` moves them; a lock held for the whole of a function makes
it one action; poisoned locks are recovered by the code and do not appear;
saturating counters that cannot reach `u64::MAX` in practice are plain, except the
revision, whose exhaustion is an error path and is modelled with a small last
revision, and the counters of the metrics, whose saturation is a rule and which are
modelled with a small largest number.

In the policies: a pick is one action, so its slice does not change in the middle
(`WeightedRandomScan` drops that for the policy where it matters most);
`u64::MAX` is `MaxU64`, the epoch's `u64::MAX` is `MaxEpoch`; the floating-point score of
weighted rendezvous is a table of costs by hash (`LogCost`), decreasing as
the logarithm's magnitude is; traffic has `TrafficUnits` units rather than 10^6; an
allocator does not fail.  Sums of weights are checked where the code checks them:
of the eligible (`weighted_random.rs`, `bounded_load.rs`), of the members of a priority and
of those that share a panic (`Overweight`, `GlobalPanic`), and of the effective weights
of localities (`LocalityTotal`, `locality.rs:321`), which are `u32` weights times up to a
million and overflow with some 4,295 localities of the largest weight.  `MaxU64` is small, so
that runs take each of these errors, and `Excused` says of which slices it is a
reason: for localities, of those whose weights would not fit if all their members were
available.  In the outlier detector the mean and the deviation
are exact, and a tie with the threshold may be rounded either way.

## 3. What the runs check

Every passing run checks deadlock except those of the channel, where everything
may stop: the publisher is gone and every stream has ended.

| Run | Module | Checks | Shows |
|---|---|---|---|
| `channel` | SnapshotChannel | `NoLostWakeup`, `ImplementsFeed`, `StreamsCatchUp` | a pending stream that has news, or whose publisher is gone, has been or will be woken, whichever of two wakers it was polled with; the channel implements the feed; a stream whose task polls when woken catches up with every revision, and ends |
| `channel_end` | SnapshotChannel | `EndsAfterLatest` violated | finding 2 |
| `circuit` | MCCircuitBreaker | `TypeOK`, `NoLeakedSlot`, `CooldownIsServed`, `SlotsAreFreed` | half-open slots are held by permits and given back; the open state is left after its cooldown or by force; a half-open circuit that is full does not stay full |
| `circuit_epoch` | MCCircuitBreaker | `EpochIsolation` violated | finding 1 |
| `active` | ActiveHealth | `TypeOK`, `OneReservation`, `StreakDecides`, `StaleProbesAreIgnored`, `CompletionsAreSpaced`, `HungProbesEnd` | reservations, streaks, generations and spacing survive forced statuses, races of runners, time-outs and dropped futures |
| `pool` | ProbePool | `BudgetIsKept`, `DecisionsAreFresh`, `FreshestSurvives` | no observation is used too often or too late, and a full pool keeps what is freshest |
| `directory` | MCDirectory | `IndexIsExact`, `RevisionIdentifies`, `CallsAreAtomic`, `DrainsBeforeRemoval` | single operations and batches up to the exhaustion of the clock |
| `ewma` | MCPeakEwma | `SlotsAreHeld`, `EstimateIsEarned` | the counter counts, never passes its limit, and the estimate is never more than some sample explains |
| `ewma_score` | MCPeakEwma | `ScoreIsConservative` violated | finding 3 |
| `service_pool` | MCServicePool | `TypeOK`, `PoolMirrors`, `ReservationsAreKept`, `LoadIsOutstanding`, `GenerationsAreRetained`, `DispatchesAreEligible`, `EventuallyTaken` | reconciliation is a transaction that follows generations, dispatch respects the reservations and the eligibility of the moment, and no publication is missed |
| `application` | MCApplication | `TypeOK`, `PicksAreJustified`, `LoadIsRespected`, `CyclesAreExact`, `TablesAreCurrent`, `OnlyChangedKeysMove`, `TrafficIsCovered`, `EachEventIsCountedOnce`, `SnapshotsAreIntervals`, `WindowIsExact`, `EjectionsAreCapped` | the policies keep their promises through every sequence of slices; events are counted once and snapshots are intervals; windows are exact and ejections capped |
| `weighted_random` | MCWeightedRandomScan | `TicketIsBounded` violated | finding 4 |

### Bounds

- *Channel*: three revisions beyond the first let a stream skip some and let a
  publication fall into every gap of a poll that an earlier one started; two
  wakers let a stream be re-polled by another task.  One stream is enough for
  TLC: streams share only the list of waiters, and the safety properties are
  proved for any number of them (section 4).  `StreamsCatchUp` is about each stream
  by itself, and the others can only wake, not hold, it.
- *Circuit*: three callers with two slots and thresholds of two let a slot be
  taken by a call that waits for the lock, by a permit and by a late one at
  once; four instants (`MaxTime` = 3) with a cooldown of one are two full
  openings, which is what an old permit needs.  The violation runs need only one
  slot and a failure threshold of one.
- *Active health*: two runners, of which one cancels on time-out; an interval
  longer than the time-out; thresholds 2 and 1, so that a streak may be
  interrupted; one forced status on top of the first generation, which makes
  probes stale; five instants, two intervals and a remainder.
- *Pool*: a capacity of two and four recordings let an entry be evicted, be refused
  and be refreshed; instants 0 to 3 with a maximal age of two let one expire between calls.
- *Directory*: three keys, since a removal has to move two entries for a wrong
  reindexing to differ from a right one at each place; five revisions, since three
  upserts, a drain and a removal exhaust the clock and every earlier start
  (`with_revision`) exhausts it sooner.
- *PeakEwma*: three threads and two slots make one be refused and one retry;
  three instants let an old sample be recorded after a newer one.
- *Application*: slices of up to three candidates, in any order, from sets chosen per
  policy: among them equal and unequal weights, loads near `MaxU64`, a draining, a
  sick and a repeated identity.  Each policy meets every sequence of these slices,
  since only its own state and its last pick are remembered.  `MaxCursor` = 3 starts a cursor
  everywhere in and once beyond a slice; `MaxU64` = 1000 is reached by one load,
  exceeded by two weights, and by the effective weights of localities of 6 and 5 at full
  availability but not of 6 and 4; slices that differ in the weights alone follow one another
  on a ring, some with the same divisor and some not;
  `MaxEpoch` = 5 is one cycle of weight three and the wrap; factors of 100 and 150 percent are
  the strict and a loose bound; rings of at most six points and tables of two
  and five slots are exceeded, full and roomy; a hash builder that collides
  stands beside one that does not.  `TrafficUnits` = 100 rounds a share as often
  as it can, and a member of weight 200 makes one round to nothing.  Two attempts
  and one sampled sink interleave every addition with every other and with every load; `MaxCount` = 3 is
  exceeded by two attempts that take two units of time each.  Windows of one, two and three
  outcomes evict at once, late and after partial filling; groups of zero to four hosts meet
  percentages that round to no host, to some and to all.  `Generations` = 2
  wraps the number of a table at every second rebuild.
- *WeightedRandomScan*: two candidates of unequal weight; one is enough for the
  panic, two also show the scan that ends normally.
- *ServicePool*: two members, of which one changes health, four revisions (two are
  taken by the initial members, leaving two changes after the balancer began), a
  budget of one so that every poll that takes a snapshot spends it, one future.

### Fairness, and why the code justifies it

Nobody has to publish, call, poll without a reason, force or drop.  What is fair:

- `SnapshotChannel`: a publisher inside `publish` finishes it; a `poll_next`
  that has begun returns; a task that was woken (or subscribed, or just got
  an item) polls again.  This is the contract of `Future`, not of Poise, and it is the
  one consumers of a stream live by.
- `CircuitBreaker`: a call that reached the lock gets it, and permits that are held are eventually
  finished or dropped: the permit's `Drop` cannot be skipped by a caller that
  returns.
- `ActiveHealth`: time passes, a runner woken from its sleep goes on, a time-out
  that is due fires, and a finished probe is recorded.  A probe never has to answer.
- `ServicePool`: a poll that has begun returns; a task that was woken, or that got
  an error, polls again.

### Findings

1. *A stale permit acts in the current epoch* (`circuit_epoch`).  `finish`
   compares only the kind of a permit with the kind of the mode
   (`poise-health/src/circuit.rs:255-292`); a probe of an earlier half-open
   period closes, opens or frees a slot of the current one, and an attempt of an earlier
   closed period counts in the current one.  The comment at line 292,
   `src/docs/health-and-circuits.md:52` and `src/docs/failure-semantics.md:66`
   promise the contrary.  The same step lets more probes run in half-open state than its
   limit, although the *counted* slots never exceed it, which is what
   `NoLeakedSlot` says.
2. *A stream may end without its last snapshot* (`channel_end`).
   `poll_next` loads the snapshot and then the flag; a publication and the drop of
   the publisher between the two end the stream without it.  `wait_for_revision`
   then returns `None` for a revision that was published before the close.
3. *A score may be lower than both the estimate before and after a completion
   justify* (`ewma_score`).  The writer publishes the latency before it
   releases its slot, as the comment at `poise-core/src/load.rs:478` says, but the
   reader reads the estimate first.
4. *A pick may panic* (`weighted_random`).  `WeightedRandom::pick` sums the
   weights in one scan and looks for its ticket in another, and `is_eligible` of a
   `HealthChecked` candidate reads a signal that others change.  The text of the
   panic says that this cannot be
   (`poise-core/src/policy/weighted_random.rs:89`).

Noticed on the way and not run, because no document says otherwise or because
they follow from the above:

- `observe` may move `updated_at` backwards when two samples cross between clock
  and lock, and the same time then decays the estimate twice.
- `force_status` clears `in_flight`, so that a probe of the earlier generation
  and a new one may be under way together.
- `force_open` reads the clock before the lock; when another caller opens the
  circuit in between, the forced opening overwrites a later instant with an
  earlier one, and the cooldown is shorter than that caller's by the
  difference.
- `RingHash::reconcile` also reads eligibility in several scans: when the only
  eligible candidate becomes so after the scan that takes the greatest common
  divisor, the next one divides by zero.
- In a shortage, a priority whose members refuse panic traffic makes a pick
  fail with `NoEligibleCandidates` although one of them is eligible, when the
  effective availability of every priority rounds to zero; localities guard against this
  rounding (`locality.rs:442`), priorities do not.
- With a deviation factor of zero, hosts with the same success rate may all be
  outliers: the mean of three rates of 1/10 is rounded above 1/10.

## 4. What is proved

TLAPS checks the following for every value of the constants that satisfies the
assumptions in the modules.  All are of the form `Spec => []Inv` or
`Spec => [][A]_vars`, by an inductive invariant that the module states, which
TLC also accepts on the instances above.  Every safety invariant and every action
property of the passing runs is the statement of one of these theorems.

| Module | Theorems | The inductive invariant, and why it is needed |
|---|---|---|
| `SnapshotChannelProofs` | `TypeCorrect`, `NoWakeupIsLost`, `Refinement` | a poll in progress is of a live stream, a live stream is listed, a registered waker stays until it is collected, and what a second look missed came after it: without the control points nothing says that a publication falls before one look or after the registration |
| `CircuitBreakerProofs` | `TypeCorrect`, `NoSlotIsLeaked`, `CooldownServed` | instants read are past, and a permit in a call is the one that call finishes |
| `ActiveHealthProofs` | `TypeCorrect`, `OneReservationCounts`, `StreaksDecide`, `StaleIgnored`, `CompletionsSpaced` | staleness is having an older generation; a reservation that counts was made when the last completion was an interval old |
| `ProbePoolProofs` | `TypeCorrect`, `BudgetKept`, `DecisionsFresh`, `FreshestKept` | entries have distinct numbers, and uses spent and left add up to the budget |
| `DirectoryProofs` | `TypeCorrect`, `IndexExact`, `RevisionsIdentify`, `AtomicCalls`, `DrainedBeforeRemoval` | there are no more entries than revisions (which bounds them for `TypeOK`), and a batch extends the directory it cloned.  `CallIInv`: while a batch is staged the directory is the one it began with, and the clone is ahead of it by the changes made |
| `PeakEwmaProofs` | `TypeCorrect`, `SlotsHeld`, `EstimateEarned` | an exchange expects a count below the limit, and instants read are past |
| `ServicePoolProofs` | `TypeCorrect`, `PoolIsMirrored`, `ReservationsKept`, `LoadOutstanding`, `GenerationsRetained`, `EligibleDispatches` | the directory's own `IInv`; a pool and a snapshot name a key once; an allocation is dated by a revision that has been, for endpoints and for the futures that outlive them; an allocation that left is not in any later membership |
| `ApplicationProofs` | `TypeCorrect`, and below | four invariants, one for each part of the state |

`ServicePoolProofs` is where the last clause of its invariant is needed:
`reconcile` keeps the readiness and the load of an endpoint by `Arc::ptr_eq`, so a
backend that left and came back in a skipped snapshot must not be taken for the
one that stayed.  `AllocationsDoNotReturn` relates the three memberships that are
apart at any moment (the pool's, the channel's and the writer's), and the
exactness of the index comes from `DirectoryProofs` by instance.

`ApplicationProofs` is about the state of `Application`, in its parts:

| Theorem | States | Invariant and argument |
|---|---|---|
| `WindowsExact` | `WindowIsExact` | `WindowsIInv`: a window is `WindowOf` the tail of its history, so that each total is a count; an eviction takes from the totals what the tail loses |
| `EjectionsCapped` | `EjectionsAreCapped` | from the same: totals that are counts make rates on a common denominator comparable; what is worse than an outlier is an outlier, and the ejected are those whom fewer precede than the cap allows, so there are no more of them than that |
| `CountedExactlyOnce` | `EachEventIsCountedOnce` | `ObservabilityIInv`: for each sink and counter there are amounts `added`, one per teller, such that the counter is their sum and the truth of each teller is what it added and what it has still to tell, both capped by `MaxCount`: a saturating counter forgets who filled it, so the amounts are existential |
| `SnapshotsBetween` | `SnapshotsAreIntervals` | `SnapshotIInv`: what was loaded lies between the counter when the snapshot began and the truth; counters only grow |
| `PicksJustified` | `PicksAreJustified` | `PicksIInv`: the cache was built from a slice the balancer was given, states are stamped no later than the epoch, and the last result is the owner, the winner or the decision its slice determines |
| `LoadRespected` | `LoadIsRespected` | from the same.  That a bounded load finds room is an average: if every eligible candidate were at its capacity the loads would add up to more than they do |
| `TablesStayCurrent` | `TablesAreCurrent` | from the same: the cache is that of the members of the last slice, with their places and, on a ring, their weights, or a pick failed.  The first point clockwise comes before every other going round from the position (`OwnerPasses`), and a slot has one entry, so who answers is the owner.  Maglev's table is full because its size is prime: the offsets and skips of a candidate run through all places, so a candidate whose turn it is finds a free one |
| `OnlyChangedKeys` | `OnlyChangedKeysMove` | if the owner before and the owner after stand alike in both slices, each of them wins against the other, which only a collision allows; on a ring winning is having the first point after the hash, and the points of a member depend on its own weight and the common divisor (`SameScale`) |
| `TrafficStaysCovered` | `TrafficIsCovered` | from the last result being a decision of its slice.  A priority takes its availability from what those before it left, so the shares telescope to the total unless there is a shortage, which is the only thing that makes a priority panic.  An error outside a shortage is a contradiction in the slice or a checked sum that overflows, and each such sum is at most the one `Excused` names |
| `CyclesStayExact` | `CyclesAreExact` | `StreakIInv`: of a cursor, the candidates it served are those it comes to last from where it is; of smooth weights, a credit is turns x share - served x all shares, and above minus all shares |

The invariant of `CyclesStayExact` deserves its words.  After a decision the credits
add up to zero, so before the winner pays they add up to a positive total, and
the greatest of them is positive: the winner never falls to minus the
total.  At the end of a cycle of as many turns as there are shares, a credit
is a multiple of the total that exceeds minus the total, so that nobody was
served more often than its share; as the services add up to the shares, each
was served exactly its share.

Sums, products, cardinalities, greatest and least members of finite sets are
proved from the definitions of the community modules' folds at the head of
`ApplicationProofs`.  The induction is over the subsets of a set, by a least
counterexample (`NatLessThanWellFounded` and `WFMin`), which needs no operator as a
parameter of a theorem.  The one loop that is a recursive function in the
models, the filling of Maglev's table, is treated likewise.

### Assumptions

- The sets that are counted are finite, those of requests (`RequestAssumption`) and
  attempts (`AttemptAssumption`) included; the ranges of configurations are those of
  the code's `NonZero` types and `validate` functions.
- `Decay` maps costs to costs, never raises one, is monotone, and decaying twice is
  decaying once for longer.
- A slice is a finite sequence of candidates as their constructors accept them, no
  longer than a `usize` counts (`SlicesAssumption`); a cursor starts within
  `usize` (`MaxCursorAssumption`).
- A hash builder makes a number of everything it is asked about (`ValidHash`, in
  `PoliciesAssumption`), and a higher score has no higher cost
  (`LogCostAssumption`).  Nothing is assumed of collisions: the theorems hold for
  a hash that maps everything to one value.
- A workload uses attempts and sinks that there are (`WorkloadsAssumption`).

### Only model-checked

- Liveness (`StreamsCatchUp`, `SlotsAreFreed`, `HungProbesEnd`, `EventuallyTaken`),
  which rests on fairness and is beyond the prover.
- The four violations, each a counterexample.
- `WeightedRandomScan`, whose one run is a violation.

The type invariants of the channel, the probe pool, the directory and the
counter are proved and not run: the other properties of their runs use what
they say.

## 5. Not modelled

- Formatting, the tracing observer, error text, `Debug` implementations, and the
  builders and accessors of configurations beyond what they accept; the
  benchmarks, fuzz targets, the site and the showcase.
- Memory orderings weaker than sequential consistency: the channel uses
  acquire/release pairs and `ArcSwap`, the counter acquire/release exchanges, the
  metrics relaxed additions, and each shared access is one atomic step taken in
  program order.
- Of the Tower balancer, `push`, `remove` and mutable access to the endpoints,
  but for `reset_readiness` and `service_mut`: of a pool edited by hand
  `DiscoveryBalance::balance_mut` says that reconciliation may reject it.  Of the discovery balancer, the report of a reconciliation and the
  errors for duplicate identities, which a directory cannot cause.
- The arithmetic of hashing: avalanche functions, and floating-point
  logarithms beyond their order.  How evenly a hash spreads requests is a statement about
  probabilities.

## 6. Plan

What is left:

1. `ImplementsFeed` for the composition: that `ServicePool`'s stream and channel
   implement `StateFeed` for any membership, which would make the one-step
   publication of `ServicePool` a theorem rather than an argument.
2. What a correct scan promises: that the ticket of `WeightedRandomScan` is
   bounded when no signal changes during a pick.
3. The greatest common divisor of `RingHash` under a changing eligibility, the
   one hazard of `PROJECT.json` that no property covers.
