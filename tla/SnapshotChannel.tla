-------------------------- MODULE SnapshotChannel --------------------------
(***************************************************************************)
(* The snapshot channel of poise-discovery: one publisher replaces an      *)
(* atomically swapped snapshot, and any number of streams observe it,      *)
(* coalescing the revisions they were too slow to see.                     *)
(*                                                                         *)
(* Every access to shared memory is a step of its own: the snapshot cell   *)
(* (an ArcSwap), the flag publisher_alive, the list of waiters with its    *)
(* mutex, and the waker slot of each waiter with its mutex.  A snapshot is *)
(* immutable and is represented by its revision; a stream that has yielded *)
(* nothing has last_seen = Unseen, which is below every revision.          *)
(***************************************************************************)
EXTENDS Integers

CONSTANTS
  Stream,        \* the streams that may be created
  Waker,         \* the task wakers a stream may be polled with
  NoWaker,       \* an empty waker slot
  MaxRevision    \* the largest revision the publisher uses (bounds the model)

ASSUME NoWakerAssumption == NoWaker \notin Waker
ASSUME MaxRevisionAssumption == MaxRevision \in Nat

VARIABLES
  current,       \* revision held by the snapshot cell
  alive,         \* publisher_alive
  publisher,     \* where the publisher is: see PublisherStates
  toVisit,       \* waiters wake_subscribers has still to visit
  collected,     \* <<stream, waker>> taken out of their slots, not yet woken
  waiters,       \* streams whose waiter is in the shared list
  waker,         \* the waker slot of each stream's waiter
  phase,         \* life of a stream: see Phases
  pc,            \* where a stream's poll is: see PollStates
  context,       \* the waker of the stream's last poll
  result,        \* what the last finished poll returned: see Results
  last_seen,     \* last revision yielded, or Unseen
  terminated,    \* the stream has returned None
  woken          \* wakers signalled since the stream's last poll began

channelVars == <<current, alive, publisher, toVisit, collected, waiters>>
streamVars  == <<phase, pc, context, result, last_seen, terminated>>
vars        == <<channelVars, streamVars, waker, woken>>

Unseen == -1

PublisherStates == {"idle", "stored", "collecting", "waking", "dropped"}
Phases          == {"unborn", "opening", "live", "dropped"}
PollStates      == {"rest", "alive1", "register", "load2", "alive2",
                    "disarm_ready", "disarm_end"}
Results         == {"none", "ready", "pending", "end"}

TypeOK ==
  /\ current \in 0..MaxRevision
  /\ alive \in BOOLEAN
  /\ publisher \in PublisherStates
  /\ toVisit \subseteq Stream
  /\ collected \subseteq Stream \X Waker
  /\ waiters \subseteq Stream
  /\ waker \in [Stream -> Waker \cup {NoWaker}]
  /\ phase \in [Stream -> Phases]
  /\ pc \in [Stream -> PollStates]
  /\ context \in [Stream -> Waker \cup {NoWaker}]
  /\ result \in [Stream -> Results]
  /\ last_seen \in [Stream -> Unseen..MaxRevision]
  /\ terminated \in [Stream -> BOOLEAN]
  /\ woken \in [Stream -> SUBSET Waker]

Init ==
  /\ current = 0
  /\ alive = TRUE
  /\ publisher = "idle"
  /\ toVisit = {}
  /\ collected = {}
  /\ waiters = {}
  /\ waker = [s \in Stream |-> NoWaker]
  /\ phase = [s \in Stream |-> "unborn"]
  /\ pc = [s \in Stream |-> "rest"]
  /\ context = [s \in Stream |-> NoWaker]
  /\ result = [s \in Stream |-> "none"]
  /\ last_seen = [s \in Stream |-> Unseen]
  /\ terminated = [s \in Stream |-> FALSE]
  /\ woken = [s \in Stream |-> {}]

-----------------------------------------------------------------------------
(* The publisher.  It is the only writer of the cell, so the comparison    *)
(* with the revision it loaded and the store are one step; a snapshot that *)
(* is not newer is refused and changes nothing.                            *)

Publish(r) ==
  /\ publisher = "idle"
  /\ r > current
  /\ current' = r
  /\ publisher' = "stored"
  /\ UNCHANGED <<alive, toVisit, collected, waiters, streamVars, waker, woken>>

DropPublisher ==
  /\ publisher = "idle"
  /\ alive' = FALSE
  /\ publisher' = "stored"
  /\ UNCHANGED <<current, toVisit, collected, waiters, streamVars, waker, woken>>

\* wake_subscribers takes the lock of the waiter list ...
LockWaiters ==
  /\ publisher = "stored"
  /\ publisher' = "collecting"
  /\ toVisit' = waiters
  /\ UNCHANGED <<current, alive, collected, waiters, streamVars, waker, woken>>

\* ... forgets the waiters of dropped streams and empties the slots of the
\* others, one at a time ...
VisitWaiter(s) ==
  /\ publisher = "collecting"
  /\ s \in toVisit
  /\ toVisit' = toVisit \ {s}
  /\ IF phase[s] = "dropped"
       THEN /\ waiters' = waiters \ {s}
            /\ UNCHANGED <<collected, waker>>
       ELSE /\ collected' = IF waker[s] = NoWaker
                              THEN collected
                              ELSE collected \cup {<<s, waker[s]>>}
            /\ waker' = [waker EXCEPT ![s] = NoWaker]
            /\ UNCHANGED waiters
  /\ UNCHANGED <<current, alive, publisher, streamVars, woken>>

UnlockWaiters ==
  /\ publisher = "collecting"
  /\ toVisit = {}
  /\ publisher' = "waking"
  /\ UNCHANGED <<current, alive, toVisit, collected, waiters, streamVars,
                 waker, woken>>

\* ... and wakes what it took once the list is unlocked.
Wake(s, w) ==
  /\ publisher = "waking"
  /\ <<s, w>> \in collected
  /\ collected' = collected \ {<<s, w>>}
  /\ woken' = [woken EXCEPT ![s] = @ \cup {w}]
  /\ UNCHANGED <<current, alive, publisher, toVisit, waiters, streamVars, waker>>

FinishWaking ==
  /\ publisher = "waking"
  /\ collected = {}
  /\ publisher' = IF alive THEN "idle" ELSE "dropped"
  /\ UNCHANGED <<current, alive, toVisit, collected, waiters, streamVars,
                 waker, woken>>

-----------------------------------------------------------------------------
(* Creating and dropping a stream.  The waiter list is locked while the    *)
(* publisher collects.                                                     *)

Subscribe(s) ==
  /\ phase[s] = "unborn"
  /\ publisher # "collecting"
  /\ waiters' = waiters \cup {s}
  /\ phase' = [phase EXCEPT ![s] = "live"]
  /\ UNCHANGED <<current, alive, publisher, toVisit, collected, waker, pc,
                 context, result, last_seen, terminated, woken>>

\* changes() reads the revision before the waiter is pushed.
Changes(s) ==
  /\ phase[s] = "unborn"
  /\ phase' = [phase EXCEPT ![s] = "opening"]
  /\ last_seen' = [last_seen EXCEPT ![s] = current]
  /\ UNCHANGED <<channelVars, waker, pc, context, result, terminated, woken>>

OpenChanges(s) ==
  /\ phase[s] = "opening"
  /\ publisher # "collecting"
  /\ waiters' = waiters \cup {s}
  /\ phase' = [phase EXCEPT ![s] = "live"]
  /\ UNCHANGED <<current, alive, publisher, toVisit, collected, waker, pc,
                 context, result, last_seen, terminated, woken>>

DropStream(s) ==
  /\ phase[s] = "live"
  /\ pc[s] = "rest"
  /\ phase' = [phase EXCEPT ![s] = "dropped"]
  /\ UNCHANGED <<channelVars, waker, pc, context, result, last_seen,
                 terminated, woken>>

-----------------------------------------------------------------------------
(* poll_next.  A stream may be polled at any time, by any task.            *)

News(s) == current > last_seen[s]

\* A poll that begins consumes the notifications of its task.
PollLoad(s, w) ==
  /\ phase[s] = "live"
  /\ pc[s] = "rest"
  /\ ~terminated[s]
  /\ context' = [context EXCEPT ![s] = w]
  /\ woken' = [woken EXCEPT ![s] = {}]
  /\ IF News(s)
       THEN /\ last_seen' = [last_seen EXCEPT ![s] = current]
            /\ result' = [result EXCEPT ![s] = "ready"]
            /\ UNCHANGED pc
       ELSE /\ pc' = [pc EXCEPT ![s] = "alive1"]
            /\ UNCHANGED <<last_seen, result>>
  /\ UNCHANGED <<channelVars, waker, phase, terminated>>

PollAlive(s) ==
  /\ pc[s] = "alive1"
  /\ IF alive
       THEN /\ pc' = [pc EXCEPT ![s] = "register"]
            /\ UNCHANGED <<result, terminated>>
       ELSE /\ pc' = [pc EXCEPT ![s] = "rest"]
            /\ result' = [result EXCEPT ![s] = "end"]
            /\ terminated' = [terminated EXCEPT ![s] = TRUE]
  /\ UNCHANGED <<channelVars, waker, phase, context, last_seen, woken>>

PollRegister(s) ==
  /\ pc[s] = "register"
  /\ waker' = [waker EXCEPT ![s] = context[s]]
  /\ pc' = [pc EXCEPT ![s] = "load2"]
  /\ UNCHANGED <<channelVars, phase, context, result, last_seen, terminated,
                 woken>>

\* Mutant of PollReload: the cell is not loaded again after registering.
PollReloadSkipped(s) ==
  /\ pc[s] = "load2"
  /\ pc' = [pc EXCEPT ![s] = "alive2"]
  /\ UNCHANGED <<channelVars, waker, phase, context, result, last_seen,
                 terminated, woken>>

PollReload(s) ==
  /\ pc[s] = "load2"
  /\ IF News(s)
       THEN /\ last_seen' = [last_seen EXCEPT ![s] = current]
            /\ pc' = [pc EXCEPT ![s] = "disarm_ready"]
       ELSE /\ pc' = [pc EXCEPT ![s] = "alive2"]
            /\ UNCHANGED last_seen
  /\ UNCHANGED <<channelVars, waker, phase, context, result, terminated, woken>>

\* Mutant of PollRecheckAlive: the flag is not read again after registering.
PollRecheckAliveSkipped(s) ==
  /\ pc[s] = "alive2"
  /\ pc' = [pc EXCEPT ![s] = "rest"]
  /\ result' = [result EXCEPT ![s] = "pending"]
  /\ UNCHANGED <<channelVars, waker, phase, context, last_seen, terminated,
                 woken>>

PollRecheckAlive(s) ==
  /\ pc[s] = "alive2"
  /\ IF alive
       THEN /\ pc' = [pc EXCEPT ![s] = "rest"]
            /\ result' = [result EXCEPT ![s] = "pending"]
       ELSE /\ pc' = [pc EXCEPT ![s] = "disarm_end"]
            /\ UNCHANGED result
  /\ UNCHANGED <<channelVars, waker, phase, context, last_seen, terminated,
                 woken>>

\* Mutant of PollDisarm: a stream that found news also ends.
PollDisarmEnds(s) ==
  /\ pc[s] \in {"disarm_ready", "disarm_end"}
  /\ waker' = [waker EXCEPT ![s] = NoWaker]
  /\ pc' = [pc EXCEPT ![s] = "rest"]
  /\ result' = [result EXCEPT ![s] = "end"]
  /\ terminated' = [terminated EXCEPT ![s] = TRUE]
  /\ UNCHANGED <<channelVars, phase, context, last_seen, woken>>

PollDisarm(s) ==
  /\ pc[s] \in {"disarm_ready", "disarm_end"}
  /\ waker' = [waker EXCEPT ![s] = NoWaker]
  /\ pc' = [pc EXCEPT ![s] = "rest"]
  /\ IF pc[s] = "disarm_ready"
       THEN /\ result' = [result EXCEPT ![s] = "ready"]
            /\ UNCHANGED terminated
       ELSE /\ result' = [result EXCEPT ![s] = "end"]
            /\ terminated' = [terminated EXCEPT ![s] = TRUE]
  /\ UNCHANGED <<channelVars, phase, context, last_seen, woken>>

-----------------------------------------------------------------------------
PublisherStep ==
  \/ LockWaiters
  \/ \E s \in Stream : VisitWaiter(s)
  \/ UnlockWaiters
  \/ \E s \in Stream, w \in Waker : Wake(s, w)
  \/ FinishWaking

PollStep(s) ==
  \/ PollAlive(s)
  \/ PollRegister(s)
  \/ PollReload(s)
  \/ PollRecheckAlive(s)
  \/ PollDisarm(s)

Next ==
  \/ \E r \in 1..MaxRevision : Publish(r)
  \/ DropPublisher
  \/ PublisherStep
  \/ \E s \in Stream :
       \/ Subscribe(s)
       \/ Changes(s)
       \/ OpenChanges(s)
       \/ DropStream(s)
       \/ \E w \in Waker : PollLoad(s, w)
       \/ PollStep(s)

Spec == Init /\ [][Next]_vars

(***************************************************************************)
(* Fairness.  A publisher inside publish() or drop() and a stream inside   *)
(* poll_next() run straight-line code and go on.  A consumer that was      *)
(* handed a snapshot, or whose task was woken, polls again: that is the    *)
(* contract of Future and Stream.  Nobody has to publish, to close, to     *)
(* subscribe, or to poll a stream that is pending and was not woken.       *)
(***************************************************************************)
PollWhenScheduled(s) ==
  /\ result[s] # "pending" \/ context[s] \in woken[s]
  /\ \E w \in Waker : PollLoad(s, w)

Fairness ==
  /\ WF_vars(PublisherStep)
  /\ \A s \in Stream : WF_vars(OpenChanges(s))
  /\ \A s \in Stream : WF_vars(PollStep(s))
  /\ \A s \in Stream : WF_vars(PollWhenScheduled(s))

FairSpec == Spec /\ Fairness

-----------------------------------------------------------------------------
(* Properties.                                                             *)

Pending(s) == phase[s] = "live" /\ pc[s] = "rest" /\ result[s] = "pending"

Signalled(s) == context[s] \in woken[s] \/ <<s, context[s]>> \in collected

WillBeVisited(s) ==
  publisher = "stored" \/ (publisher = "collecting" /\ s \in toVisit)

Armed(s) == waker[s] = context[s] /\ context[s] \in Waker

\* No wake-up is lost (snapshot.rs, the re-check after registering): a stream
\* whose poll returned Pending although a newer snapshot or the end is there to
\* be seen has been signalled through the waker of that very poll, or sits in
\* its slot with the publisher still on its way to it.
NoLostWakeup ==
  \A s \in Stream :
    Pending(s) /\ (News(s) \/ ~alive) =>
      Signalled(s) \/ (Armed(s) /\ WillBeVisited(s))

\* The channel implements the feed of module StateFeed: whatever the
\* interleaving of publish(), drop() and poll_next(), each stream jumps to the
\* revision of the moment, never moves backwards, yields nothing after its end,
\* and is ended only once the publisher is gone.
Feed == INSTANCE StateFeed WITH
  Observer <- Stream, MaxValue <- MaxRevision, value <- current,
  closed <- ~alive, seen <- last_seen, ended <- terminated

ImplementsFeed == Feed!Spec

\* wait_for_revision polls a subscription until this holds of it, and drops it.
WaitOver(s, minimum) == last_seen[s] >= minimum \/ terminated[s]

\* Every stream whose consumer keeps polling catches up with each revision
\* published, or has ended or been dropped (docs/discovery-tower.md: a slow
\* subscriber observes the latest revision), so that wait_for_revision returns;
\* and dropping the publisher ends it (snapshot.rs, Drop for SnapshotPublisher).
StreamsCatchUp ==
  \A s \in Stream :
    /\ \A r \in 1..MaxRevision :
         (phase[s] = "live" /\ current >= r)
           ~> (WaitOver(s, r) \/ phase[s] = "dropped")
    /\ (phase[s] = "live" /\ ~alive) ~> (terminated[s] \/ phase[s] = "dropped")

\* What the documentation of subscribe() promises: the stream "ends after the
\* publisher is dropped and the latest snapshot has been observed".
EndsAfterLatest == \A s \in Stream : terminated[s] => last_seen[s] = current

-----------------------------------------------------------------------------
(* The inductive strengthening of NoLostWakeup.                            *)

\* Only a live stream is in the middle of a poll, and it has a context; a stream
\* not yet handed out was never polled.
PollsAreLive ==
  \A s \in Stream :
    /\ pc[s] # "rest" => phase[s] = "live" /\ ~terminated[s] /\ context[s] \in Waker
    /\ result[s] = "pending" => context[s] \in Waker
    /\ phase[s] \in {"unborn", "opening"} => result[s] = "none" /\ ~terminated[s]
    /\ phase[s] = "unborn" => last_seen[s] = Unseen

\* The waiter of a live stream is in the list the publisher walks.
LiveAreListed == \A s \in Stream : phase[s] = "live" => s \in waiters

\* From registration on, the waker is in the slot unless it was taken from it.
Registered ==
  \A s \in Stream :
    pc[s] \in {"load2", "alive2"} \/ Pending(s) => Armed(s) \/ Signalled(s)

\* A revision published since the second load will wake the stream.
CaughtAtRecheck ==
  \A s \in Stream :
    pc[s] = "alive2" /\ News(s) => Signalled(s) \/ (Armed(s) /\ WillBeVisited(s))

\* The publisher stays idle, with its flag set, until it is dropped.
IdleIsAlive == publisher = "idle" => alive

\* A stream about to end has found the publisher gone.
EndingIsClosed == \A s \in Stream : pc[s] = "disarm_end" => ~alive

IInv ==
  /\ TypeOK
  /\ PollsAreLive
  /\ LiveAreListed
  /\ Registered
  /\ CaughtAtRecheck
  /\ IdleIsAlive
  /\ EndingIsClosed
  /\ NoLostWakeup

=============================================================================
