---------------------------- MODULE ServicePool ----------------------------
(***************************************************************************)
(* The streaming balancer of poise-tower: StreamingDiscoveryBalance, the   *)
(* DiscoveryBalance that reconciles its endpoints, and the Balance that    *)
(* polls and calls them, between the writer of a Directory and the clients *)
(* that hold its response futures.                                         *)
(*                                                                         *)
(* The balancer is owned by one task; the writer publishes, the backends   *)
(* change health and futures end at any moment, also in the middle of a    *)
(* poll.  The snapshot stream is the feed of StateFeed: it yields the      *)
(* latest snapshot, and may end with one unseen.                           *)
(*                                                                         *)
(* A backend allocation is named by the revision whose upsert made it.     *)
(***************************************************************************)
EXTENDS Integers, Sequences, FiniteSets

CONSTANTS
  Key,                 \* the keys of members
  Initial,             \* those upserted before the channel was made, in order
  Flaky,               \* those whose backends change health (bounds the model)
  Request,             \* the response futures clients may hold at once
  Limit,               \* the limit of every load tracker
  MaxUpdatesPerPoll,   \* max_updates_per_poll
  MaxRevision          \* the last revision of the directory (bounds the model)

ASSUME InitialAssumption ==
  /\ Initial \in Seq(Key)
  /\ Len(Initial) <= MaxRevision
  /\ \A i, j \in 1..Len(Initial) : Initial[i] = Initial[j] => i = j
ASSUME ConfigAssumption ==
  Limit \in Nat \ {0} /\ MaxUpdatesPerPoll \in Nat \ {0} /\ MaxRevision \in Nat
ASSUME FlakyAssumption == Flaky \subseteq Key
ASSUME RequestAssumption == IsFiniteSet(Request)

VARIABLES
  directory,       \* the writer's directory
  snapshot,        \* the snapshot in the channel
  open,            \* its publisher is alive
  down,            \* the keys whose backends report themselves ineligible
  last_seen,       \* the last revision the stream yielded
  armed,           \* the task's waker is registered with the stream
  woken,           \* the task has been woken
  pc,              \* where the task is in poll_ready
  polled,          \* snapshots taken by this poll
  result,          \* what its last poll_ready returned
  updates_closed,
  end_policy,
  revision,        \* the revision last applied, or None
  endpoints,       \* the pool
  load,            \* the tracker built for each allocation
  future,          \* the allocation each response future was dispatched to
  granted          \* the services that granted a call not made yet

writerVars  == <<directory, snapshot, open, down>>
streamVars  == <<last_seen, armed, updates_closed>>
pollVars    == <<woken, pc, polled, result>>
clientVars  == <<load, future>>
vars == <<writerVars, streamVars, pollVars, end_policy, revision, endpoints,
          clientVars, granted>>

None        == -1
Allocations == 1..MaxRevision

\* The directory of the writer, and its operations.
Writer == INSTANCE Directory WITH
  Backend <- Allocations, staging <- FALSE, staged <- directory,
  published <- snapshot, outcome <- "none", before <- directory, changes <- 0

Service  == [key : Key, backend : Allocations]
Endpoint == [member : Writer!Entry, service : Service,
             readiness : {"idle", "ready", "failed"}]

TypeOK ==
  /\ directory \in Writer!Directory
  /\ snapshot \in Writer!Snapshot
  /\ open \in BOOLEAN
  /\ down \subseteq Flaky
  /\ last_seen \in None..MaxRevision
  /\ armed \in BOOLEAN
  /\ woken \in BOOLEAN
  /\ pc \in {"rest", "updating", "scanning"}
  /\ polled \in 0..MaxUpdatesPerPoll
  /\ result \in {"none", "ready", "pending", "error"}
  /\ updates_closed \in BOOLEAN
  /\ end_policy \in {"last_known_good", "fail_closed"}
  /\ revision \in None..MaxRevision
  /\ endpoints \in Seq(Endpoint)
  /\ load \in [Allocations -> 0..Limit]
  /\ future \in [Request -> Allocations \cup {None}]
  /\ granted \subseteq Service

\* What upserting the initial members leads to.
Populated ==
  [revision  |-> Len(Initial),
   entries   |-> [i \in 1..Len(Initial) |-> Writer!Active(Initial[i], i)],
   positions |-> [k \in {Initial[i] : i \in 1..Len(Initial)} |->
                    CHOOSE i \in 1..Len(Initial) : Initial[i] = k]]

Init ==
  /\ directory = Populated
  /\ snapshot = Writer!SnapshotOf(directory)
  /\ open = TRUE
  /\ down = {}
  /\ last_seen = None
  /\ armed = FALSE
  /\ woken = FALSE
  /\ pc = "rest"
  /\ polled = 0
  /\ result = "none"
  /\ updates_closed = FALSE
  /\ end_policy \in {"last_known_good", "fail_closed"}
  /\ revision = None
  /\ endpoints = <<>>
  /\ load = [b \in Allocations |-> 0]
  /\ future = [q \in Request |-> None]
  /\ granted = {}

-----------------------------------------------------------------------------
(* Around the balancer: the writer, and the backends.                      *)

Change(d) ==
  /\ open
  /\ directory' = d
  /\ UNCHANGED <<snapshot, open, down, streamVars, pollVars, end_policy,
                 revision, endpoints, clientVars, granted>>

Update(k) ==
  \/ /\ ~Writer!Exhausted(directory)
     /\ Change(Writer!Upserted(directory, k, directory.revision + 1))
  \/ /\ ~Writer!Exhausted(directory)
     /\ Writer!CanDrain(directory, k)
     /\ Change(Writer!Drained(directory, k))
  \/ /\ ~Writer!Exhausted(directory)
     /\ Writer!CanRemove(directory, k)
     /\ Change(Writer!Removed(directory, k))

\* A publication, or the end of them, wakes the task if it is registered.
Notify ==
  /\ armed' = FALSE
  /\ woken' = (woken \/ armed)

Publish ==
  /\ open
  /\ directory.revision > snapshot.revision
  /\ snapshot' = Writer!SnapshotOf(directory)
  /\ Notify
  /\ UNCHANGED <<directory, open, down, last_seen, updates_closed, pc, polled,
                 result, end_policy, revision, endpoints, clientVars, granted>>

ClosePublisher ==
  /\ open
  /\ open' = FALSE
  /\ Notify
  /\ UNCHANGED <<directory, snapshot, down, last_seen, updates_closed, pc,
                 polled, result, end_policy, revision, endpoints, clientVars,
                 granted>>

\* The health of a backend changes.
Flip(k) ==
  /\ down' = IF k \in down THEN down \ {k} ELSE down \cup {k}
  /\ UNCHANGED <<directory, snapshot, open, streamVars, pollVars, end_policy,
                 revision, endpoints, clientVars, granted>>

\* A service that was pending wakes the task.
ServiceWakes ==
  /\ result = "pending"
  /\ woken' = TRUE
  /\ UNCHANGED <<writerVars, streamVars, pc, polled, result, end_policy,
                 revision, endpoints, clientVars, granted>>

-----------------------------------------------------------------------------
(* Reconciliation (DiscoveryBalance::apply_snapshot).                      *)

\* The live endpoint a member keeps: same key, same allocation.
Kept(member) ==
  {e \in {endpoints[i] : i \in 1..Len(endpoints)} :
     e.member.key = member.key /\ e.member.backend = member.backend}

Built(member) ==
  [member    |-> member,
   service   |-> [key |-> member.key, backend |-> member.backend],
   readiness |-> "idle"]

\* Mutants of Reconciled: endpoints are kept by their place ...
ReconciledByPlace(members) ==
  [j \in 1..Len(members) |->
     IF Kept(members[j]) # {} /\ j <= Len(endpoints)
       THEN [endpoints[j] EXCEPT !.member = members[j]]
       ELSE Built(members[j])]

\* ... or every member is built anew.
ReconciledAnew(members) == [j \in 1..Len(members) |-> Built(members[j])]

\* The endpoints of a snapshot, in its order.
Reconciled(members) ==
  [j \in 1..Len(members) |->
     IF Kept(members[j]) # {}
       THEN [(CHOOSE e \in Kept(members[j]) : TRUE) EXCEPT !.member = members[j]]
       ELSE Built(members[j])]

\* A newer snapshot is applied as a whole.
Apply ==
  /\ snapshot.revision > revision
  /\ endpoints' = Reconciled(snapshot.members)
  /\ revision' = snapshot.revision
  /\ granted' = granted \cap {endpoints'[j].service : j \in DOMAIN endpoints'}

\* The factory fails on one of the members it has to build.
BuildFails ==
  /\ snapshot.revision > revision
  /\ \E j \in 1..Len(snapshot.members) : Kept(snapshot.members[j]) = {}
  /\ UNCHANGED <<endpoints, revision, granted>>

\* A revision already applied is a no-op.  (The channel never goes back, so an
\* older one, which is an error, is not met here.)
AlreadyApplied ==
  /\ snapshot.revision <= revision
  /\ UNCHANGED <<endpoints, revision, granted>>

\* sync(), called on the inner balancer between two polls.
Sync ==
  /\ pc = "rest"
  /\ Apply
  /\ UNCHANGED <<writerVars, streamVars, pollVars, end_policy, clientVars>>

-----------------------------------------------------------------------------
(* poll_ready of the streaming balancer.                                   *)

News == snapshot.revision > last_seen

PollReady ==
  /\ pc = "rest"
  /\ pc' = IF updates_closed THEN "scanning" ELSE "updating"
  /\ polled' = 0
  /\ woken' = FALSE
  /\ UNCHANGED <<writerVars, streamVars, result, end_policy, revision,
                 endpoints, clientVars, granted>>

Return(answer) ==
  /\ pc' = "rest"
  /\ polled' = 0
  /\ result' = answer

\* Mutant of BudgetSpent: the task does not wake itself.
BudgetSpentSilently ==
  /\ pc = "updating"
  /\ polled = MaxUpdatesPerPoll
  /\ Return("pending")
  /\ UNCHANGED <<writerVars, streamVars, woken, end_policy, revision,
                 endpoints, clientVars, granted>>

\* The budget is spent: the task wakes itself and yields.
BudgetSpent ==
  /\ pc = "updating"
  /\ polled = MaxUpdatesPerPoll
  /\ Return("pending")
  /\ woken' = TRUE
  /\ UNCHANGED <<writerVars, streamVars, end_policy, revision, endpoints,
                 clientVars, granted>>

\* Mutant of TakeUpdate: the budget is not looked at.
TakeUpdateUnbounded ==
  /\ pc = "updating"
  /\ News
  /\ last_seen' = snapshot.revision
  /\ \/ /\ Apply \/ AlreadyApplied
        /\ polled' = polled + 1
        /\ UNCHANGED <<pc, result>>
     \/ /\ BuildFails
        /\ Return("error")
  /\ UNCHANGED <<writerVars, armed, updates_closed, woken, end_policy,
                 clientVars>>

\* The stream yields the latest snapshot, which is applied, or of which a
\* service cannot be built.
TakeUpdate ==
  /\ pc = "updating"
  /\ polled < MaxUpdatesPerPoll
  /\ News
  /\ last_seen' = snapshot.revision
  /\ \/ /\ Apply \/ AlreadyApplied
        /\ polled' = polled + 1
        /\ UNCHANGED <<pc, result>>
     \/ /\ BuildFails
        /\ Return("error")
  /\ UNCHANGED <<writerVars, armed, updates_closed, woken, end_policy,
                 clientVars>>

\* The stream is pending and has registered the waker, or has ended.
Settle ==
  /\ pc = "updating"
  /\ polled < MaxUpdatesPerPoll
  /\ \/ /\ open
        /\ ~News
        /\ armed' = TRUE
        /\ UNCHANGED updates_closed
     \/ /\ ~open
        /\ updates_closed' = TRUE
        /\ UNCHANGED armed
  /\ pc' = "scanning"
  /\ UNCHANGED <<writerVars, last_seen, woken, polled, result, end_policy,
                 revision, endpoints, clientVars, granted>>

Refuse ==
  /\ pc = "scanning"
  /\ \/ updates_closed /\ end_policy = "fail_closed"
     \/ endpoints = <<>>
  /\ Return("error")
  /\ UNCHANGED <<writerVars, streamVars, woken, end_policy, revision,
                 endpoints, clientVars, granted>>

\* A member that is neither draining nor down.
Selectable(e) == e.member.membership = "active" /\ e.member.key \notin down

\* Balance::poll_ready: every selectable idle service is polled.
Scan ==
  /\ pc = "scanning"
  /\ ~(updates_closed /\ end_policy = "fail_closed")
  /\ endpoints # <<>>
  /\ \E answer \in [1..Len(endpoints) -> {"idle", "ready", "failed"}] :
       LET Asked == {i \in 1..Len(endpoints) :
                       Selectable(endpoints[i]) /\ endpoints[i].readiness = "idle"}
       IN
       /\ \A i \in 1..Len(endpoints) : i \notin Asked => answer[i] = endpoints[i].readiness
       /\ endpoints' = [i \in 1..Len(endpoints) |->
                          [endpoints[i] EXCEPT !.readiness = answer[i]]]
       /\ granted' = granted \cup {endpoints[i].service :
                                     i \in {j \in Asked : answer[j] = "ready"}}
       /\ Return(IF \E i \in 1..Len(endpoints) :
                       Selectable(endpoints[i]) /\ answer[i] = "ready"
                   THEN "ready"
                 ELSE IF \E i \in Asked : answer[i] = "idle" THEN "pending"
                 ELSE "error")
  /\ UNCHANGED <<writerVars, streamVars, woken, end_policy, revision,
                 clientVars>>

-----------------------------------------------------------------------------
(* Dispatch.                                                               *)

\* Mutant of Eligible: a reservation is enough.
EligibleOnceReady(e) == e.readiness = "ready"

Eligible(e) == e.readiness = "ready" /\ Selectable(e)

\* Mutant of Call: the reservation is not given up.
CallKeeping(q) ==
  /\ pc = "rest"
  /\ future[q] = None
  /\ \E i \in 1..Len(endpoints) :
       LET b == endpoints[i].service.backend IN
       /\ Eligible(endpoints[i])
       /\ load[b] < Limit
       /\ load' = [load EXCEPT ![b] = @ + 1]
       /\ future' = [future EXCEPT ![q] = b]
       /\ granted' = granted \ {endpoints[i].service}
  /\ UNCHANGED <<writerVars, streamVars, pollVars, end_policy, revision,
                 endpoints>>

\* The policy picks any eligible endpoint.  A call that finds none, or whose
\* tracker is at its limit, returns a failed future and changes nothing.
Call(q) ==
  /\ pc = "rest"
  /\ future[q] = None
  /\ \E i \in 1..Len(endpoints) :
       LET b == endpoints[i].service.backend IN
       /\ Eligible(endpoints[i])
       /\ load[b] < Limit
       /\ load' = [load EXCEPT ![b] = @ + 1]
       /\ future' = [future EXCEPT ![q] = b]
       /\ endpoints' = [endpoints EXCEPT ![i].readiness = "idle"]
       /\ granted' = granted \ {endpoints[i].service}
  /\ UNCHANGED <<writerVars, streamVars, pollVars, end_policy, revision>>

\* Mutant of EndFuture: a future that is dropped keeps its guard.
EndFutureLeaking(q) ==
  /\ future[q] # None
  /\ future' = [future EXCEPT ![q] = None]
  /\ UNCHANGED <<writerVars, streamVars, pollVars, end_policy, revision,
                 endpoints, load, granted>>

\* A response future completes or is dropped, whatever became of its endpoint.
EndFuture(q) ==
  /\ future[q] # None
  /\ load' = [load EXCEPT ![future[q]] = @ - 1]
  /\ future' = [future EXCEPT ![q] = None]
  /\ UNCHANGED <<writerVars, streamVars, pollVars, end_policy, revision,
                 endpoints, granted>>

\* reset_readiness, or service_mut: a failure is forgiven, and a reservation
\* is given up, for the service will be polled again before it is called.
Reset(i) ==
  /\ pc = "rest"
  /\ endpoints[i].readiness # "idle"
  /\ endpoints' = [endpoints EXCEPT ![i].readiness = "idle"]
  /\ granted' = granted \ {endpoints[i].service}
  /\ UNCHANGED <<writerVars, streamVars, pollVars, end_policy, revision,
                 clientVars>>

-----------------------------------------------------------------------------
PollStep == BudgetSpent \/ TakeUpdate \/ Settle \/ Refuse \/ Scan

Next ==
  \/ \E k \in Key : Update(k)
  \/ \E k \in Flaky : Flip(k)
  \/ Publish
  \/ ClosePublisher
  \/ ServiceWakes
  \/ Sync
  \/ PollReady
  \/ PollStep
  \/ \E q \in Request : Call(q) \/ EndFuture(q)
  \/ \E i \in 1..Len(endpoints) : Reset(i)

Spec == Init /\ [][Next]_vars

(***************************************************************************)
(* Fairness.  A poll that has begun runs to its end, and a task that was   *)
(* woken polls again, which is the contract of Future; one that got an     *)
(* error tries again, and a new balancer is polled once.  Nobody has to    *)
(* publish, to call, or to poll without a reason.                          *)
(***************************************************************************)
PollWhenScheduled == (woken \/ result = "error" \/ last_seen = None) /\ PollReady

Fairness == WF_vars(PollStep) /\ WF_vars(PollWhenScheduled)

FairSpec == Spec /\ Fairness

-----------------------------------------------------------------------------
(* Properties.                                                             *)

Members  == [i \in 1..Len(endpoints) |-> endpoints[i].member]
Services == {endpoints[i].service : i \in 1..Len(endpoints)}

\* The pool is the snapshot of the revision it claims, whatever was kept, built
\* and reordered to get there, and each service is the one built for the
\* allocation its member now has (apply_snapshot).
PoolMirrors ==
  /\ revision <= snapshot.revision
  /\ revision = snapshot.revision => Members = snapshot.members
  /\ \A i \in 1..Len(endpoints) :
       endpoints[i].service = [key     |-> endpoints[i].member.key,
                               backend |-> endpoints[i].member.backend]

\* A reservation granted by a service is used by exactly one call: it survives
\* reconciliations, drains and failures elsewhere, is never taken for one of
\* another service, and is gone once the service was called (tower.md,
\* readiness lifecycle).
ReservationsAreKept ==
  granted = {endpoints[i].service :
               i \in {j \in 1..Len(endpoints) : endpoints[j].readiness = "ready"}}

\* Each tracker counts the futures dispatched to its generation, also after the
\* endpoint was drained, rebuilt or removed (ResponseFuture owns its guard).
LoadIsOutstanding ==
  \A b \in Allocations : load[b] = Cardinality({q \in Request : future[q] = b})

\* Reconciliation is a transaction: members change only with the revision, and
\* a generation that stays keeps its service, its reservation and its failure,
\* while a new one starts idle and unloaded (discovery-tower.md).
GenerationsAreRetained ==
  [][/\ revision' = revision => Members' = Members
     /\ revision' # revision =>
          \A j \in 1..Len(endpoints') :
            LET new == endpoints'[j] IN
            IF new.service \in Services
              THEN \E i \in 1..Len(endpoints) :
                     /\ endpoints[i].service = new.service
                     /\ endpoints[i].readiness = new.readiness
              ELSE new.readiness = "idle" /\ load[new.service.backend] = 0
    ]_vars

\* A request is dispatched only to a service that granted the call, for a member
\* that is neither draining nor ineligible at that moment, whatever happened
\* since poll_ready answered (Candidate for Endpoint, Balance::call).
DispatchesAreEligible ==
  [][\A q \in Request :
       future[q] = None /\ future'[q] # None =>
         \E i \in 1..Len(endpoints) :
           /\ endpoints[i].service.backend = future'[q]
           /\ endpoints[i].service \in granted \ granted'
           /\ endpoints[i].member.membership = "active"
           /\ endpoints[i].member.key \notin down
    ]_vars

\* No publication is missed: it is taken by some poll, even if the budget of one
\* is spent or the building of another fails, unless the stream ended.
EventuallyTaken == News ~> (~News \/ updates_closed)

-----------------------------------------------------------------------------
(* The inductive strengthening.                                            *)

\* A member list has one member for each key, ...
OnePerKey(members) ==
  \A i, j \in 1..Len(members) : members[i].key = members[j].key => i = j

\* ... none of an allocation made after revision r, ...
MadeBy(members, r) == \A i \in 1..Len(members) : members[i].backend <= r

\* ... and what a later list has of the allocations made by then was in it: an
\* allocation that left never comes back.
Continues(members, r, later) ==
  \A j \in 1..Len(later) :
    later[j].backend <= r =>
      \E i \in 1..Len(members) : /\ members[i].key = later[j].key
                                 /\ members[i].backend = later[j].backend

MembersAreDistinct == OnePerKey(snapshot.members) /\ OnePerKey(Members)

AllocationsAreDated ==
  /\ MadeBy(directory.entries, directory.revision)
  /\ MadeBy(snapshot.members, snapshot.revision)
  /\ MadeBy(Members, revision)
  /\ \A q \in Request : future[q] # None => future[q] <= revision

AllocationsDoNotReturn ==
  /\ Continues(snapshot.members, snapshot.revision, directory.entries)
  /\ Continues(Members, revision, snapshot.members)

IInv ==
  /\ TypeOK
  /\ Writer!IInv
  /\ MembersAreDistinct
  /\ AllocationsAreDated
  /\ AllocationsDoNotReturn
  /\ PoolMirrors
  /\ ReservationsAreKept
  /\ LoadIsOutstanding

=============================================================================
