----------------------- MODULE SnapshotChannelProofs -----------------------
(***************************************************************************)
(* Proofs about SnapshotChannel, for any set of streams, any set of wakers *)
(* and any number of revisions: its types, that no wake-up is lost, and    *)
(* that it implements the abstract feed of StateFeed.                      *)
(***************************************************************************)
EXTENDS SnapshotChannel, TLAPS

USE DEF Unseen

-----------------------------------------------------------------------------
(* Types.                                                                  *)

\* The initial state of snapshot_channel() is well typed.
LEMMA InitTypeOK == Init => TypeOK
  BY MaxRevisionAssumption
  DEF Init, TypeOK, PublisherStates, Phases, PollStates, Results

\* Every step of the publisher and of a stream keeps the types.
LEMMA NextTypeOK == TypeOK /\ [Next]_vars => TypeOK'
<1> SUFFICES ASSUME TypeOK, [Next]_vars
             PROVE  TypeOK'
  OBVIOUS
<1> USE MaxRevisionAssumption
<1> USE DEF TypeOK, PublisherStates, Phases, PollStates, Results,
            channelVars, streamVars
<1>1. ASSUME NEW r \in 1..MaxRevision, Publish(r)
      PROVE  TypeOK'
  BY <1>1 DEF Publish
<1>2. CASE DropPublisher
  BY <1>2 DEF DropPublisher
<1>3. CASE LockWaiters
  BY <1>3 DEF LockWaiters
<1>4. ASSUME NEW s \in Stream, VisitWaiter(s)
      PROVE  TypeOK'
  BY <1>4 DEF VisitWaiter
<1>5. CASE UnlockWaiters
  BY <1>5 DEF UnlockWaiters
<1>6. ASSUME NEW s \in Stream, NEW w \in Waker, Wake(s, w)
      PROVE  TypeOK'
  BY <1>6 DEF Wake
<1>7. CASE FinishWaking
  BY <1>7 DEF FinishWaking
<1>8. ASSUME NEW s \in Stream,
             Subscribe(s) \/ Changes(s) \/ OpenChanges(s) \/ DropStream(s)
      PROVE  TypeOK'
  <2>1. CASE Subscribe(s)
    BY <2>1 DEF Subscribe
  <2>2. CASE Changes(s)
    BY <2>2 DEF Changes
  <2>3. CASE OpenChanges(s)
    BY <2>3 DEF OpenChanges
  <2>4. CASE DropStream(s)
    BY <2>4 DEF DropStream
  <2> QED
    BY <1>8, <2>1, <2>2, <2>3, <2>4
<1>9. ASSUME NEW s \in Stream, NEW w \in Waker, PollLoad(s, w)
      PROVE  TypeOK'
  BY <1>9 DEF PollLoad
<1>10. ASSUME NEW s \in Stream, PollStep(s)
       PROVE  TypeOK'
  <2>1. CASE PollAlive(s)
    BY <2>1 DEF PollAlive
  <2>2. CASE PollRegister(s)
    BY <2>2 DEF PollRegister
  <2>3. CASE PollReload(s)
    BY <2>3 DEF PollReload
  <2>4. CASE PollRecheckAlive(s)
    BY <2>4 DEF PollRecheckAlive
  <2>5. CASE PollDisarm(s)
    BY <2>5 DEF PollDisarm
  <2> QED
    BY <1>10, <2>1, <2>2, <2>3, <2>4, <2>5 DEF PollStep
<1>11. CASE UNCHANGED vars
  BY <1>11 DEF vars
<1> QED
  BY <1>1, <1>2, <1>3, <1>4, <1>5, <1>6, <1>7, <1>8, <1>9, <1>10, <1>11
  DEF Next, PublisherStep

\* The state of the channel and of its streams always has its type, for every
\* set of streams and wakers and every number of revisions.
THEOREM TypeCorrect == Spec => []TypeOK
  BY InitTypeOK, NextTypeOK, PTL DEF Spec

-----------------------------------------------------------------------------
(* No wake-up is lost.  NoLostWakeup alone is not inductive: what a poll   *)
(* has established between registering its waker and returning Pending is  *)
(* recorded by Registered and CaughtAtRecheck.                             *)

\* The inductive invariant without its types.
Wakeups ==
  /\ PollsAreLive
  /\ LiveAreListed
  /\ Registered
  /\ CaughtAtRecheck
  /\ IdleIsAlive
  /\ EndingIsClosed
  /\ NoLostWakeup

\* No stream exists in the initial state.
LEMMA InitWakeups == Init => Wakeups
  BY DEF Init, Wakeups, PollsAreLive, LiveAreListed, Registered, Pending,
         CaughtAtRecheck, IdleIsAlive, EndingIsClosed, NoLostWakeup

\* Every step of the publisher and of a stream keeps the invariant.
LEMMA NextWakeups == TypeOK /\ TypeOK' /\ Wakeups /\ [Next]_vars => Wakeups'
<1> SUFFICES ASSUME TypeOK, TypeOK', Wakeups, [Next]_vars
             PROVE  Wakeups'
  OBVIOUS
<1> USE DEF TypeOK, PublisherStates, Phases, PollStates, Results, channelVars,
            streamVars, News, Pending, Signalled, Armed, WillBeVisited
<1> USE DEF Wakeups, PollsAreLive, LiveAreListed, Registered, CaughtAtRecheck,
            IdleIsAlive, EndingIsClosed, NoLostWakeup
<1>1. ASSUME NEW r \in 1..MaxRevision, Publish(r)
      PROVE  Wakeups'
  BY <1>1, NoWakerAssumption, MaxRevisionAssumption DEF Publish
<1>2. CASE DropPublisher
  BY <1>2, NoWakerAssumption, MaxRevisionAssumption DEF DropPublisher
<1>3. CASE LockWaiters
  BY <1>3, NoWakerAssumption, MaxRevisionAssumption DEF LockWaiters
<1>4. ASSUME NEW t \in Stream, VisitWaiter(t)
      PROVE  Wakeups'
  BY <1>4, NoWakerAssumption, MaxRevisionAssumption DEF VisitWaiter
<1>5. CASE UnlockWaiters
  BY <1>5, NoWakerAssumption, MaxRevisionAssumption DEF UnlockWaiters
<1>6. ASSUME NEW t \in Stream, NEW w \in Waker, Wake(t, w)
      PROVE  Wakeups'
  BY <1>6, NoWakerAssumption, MaxRevisionAssumption DEF Wake
<1>7. CASE FinishWaking
  BY <1>7, NoWakerAssumption, MaxRevisionAssumption DEF FinishWaking
<1>8. ASSUME NEW t \in Stream, Subscribe(t)
      PROVE  Wakeups'
  BY <1>8, NoWakerAssumption, MaxRevisionAssumption DEF Subscribe
<1>9. ASSUME NEW t \in Stream, Changes(t)
      PROVE  Wakeups'
  BY <1>9, NoWakerAssumption, MaxRevisionAssumption DEF Changes
<1>10. ASSUME NEW t \in Stream, OpenChanges(t)
       PROVE  Wakeups'
  BY <1>10, NoWakerAssumption, MaxRevisionAssumption DEF OpenChanges
<1>11. ASSUME NEW t \in Stream, DropStream(t)
       PROVE  Wakeups'
  BY <1>11, NoWakerAssumption, MaxRevisionAssumption DEF DropStream
<1>12. ASSUME NEW t \in Stream, NEW w \in Waker, PollLoad(t, w)
       PROVE  Wakeups'
  BY <1>12, NoWakerAssumption, MaxRevisionAssumption DEF PollLoad
<1>13. ASSUME NEW t \in Stream, PollAlive(t)
       PROVE  Wakeups'
  BY <1>13, NoWakerAssumption, MaxRevisionAssumption DEF PollAlive
<1>14. ASSUME NEW t \in Stream, PollRegister(t)
       PROVE  Wakeups'
  BY <1>14, NoWakerAssumption, MaxRevisionAssumption DEF PollRegister
<1>15. ASSUME NEW t \in Stream, PollReload(t)
       PROVE  Wakeups'
  BY <1>15, NoWakerAssumption, MaxRevisionAssumption DEF PollReload
<1>16. ASSUME NEW t \in Stream, PollRecheckAlive(t)
       PROVE  Wakeups'
  BY <1>16, NoWakerAssumption, MaxRevisionAssumption DEF PollRecheckAlive
<1>17. ASSUME NEW t \in Stream, PollDisarm(t)
       PROVE  Wakeups'
  BY <1>17, NoWakerAssumption, MaxRevisionAssumption DEF PollDisarm
<1>18. CASE UNCHANGED vars
  BY <1>18 DEF vars
<1> QED
  BY <1>1, <1>2, <1>3, <1>4, <1>5, <1>6, <1>7, <1>8, <1>9, <1>10, <1>11, <1>12, <1>13, <1>14, <1>15, <1>16, <1>17, <1>18
  DEF Next, PublisherStep, PollStep

\* The strengthened invariant holds of every execution.
THEOREM Invariance == Spec => []IInv
<1>1. TypeOK /\ Wakeups => IInv
  BY DEF IInv, Wakeups
<1> QED
  BY <1>1, InitTypeOK, NextTypeOK, InitWakeups, NextWakeups, PTL DEF Spec

\* No wake-up is lost, for any number of streams, tasks and revisions: a stream
\* that returned Pending and could make progress has been signalled, or will be.
THEOREM NoWakeupIsLost == Spec => []NoLostWakeup
<1>1. IInv => NoLostWakeup
  BY DEF IInv
<1> QED
  BY <1>1, Invariance, PTL

-----------------------------------------------------------------------------
(* The channel implements the abstract feed.  Only five actions change what *)
(* the feed can see; each is one step of the feed or none.                  *)

\* A fresh channel is a fresh feed.
LEMMA FeedInit == Init => Feed!Init
  BY DEF Init, Feed!Init, Unseen

\* Every step of the channel is a step of the feed, or leaves it unchanged.
LEMMA FeedNext == TypeOK /\ Wakeups /\ [Next]_vars => [Feed!Next]_(Feed!vars)
<1> SUFFICES ASSUME TypeOK, Wakeups, [Next]_vars
             PROVE  [Feed!Next]_(Feed!vars)
  OBVIOUS
<1> USE DEF TypeOK, channelVars, streamVars
<1>1. ASSUME NEW r \in 1..MaxRevision, Publish(r)
      PROVE  Feed!Put(r)
  BY <1>1 DEF Publish, Feed!Put, Wakeups, IdleIsAlive
<1>2. ASSUME DropPublisher
      PROVE  Feed!Close
  BY <1>2 DEF DropPublisher, Feed!Close, Wakeups, IdleIsAlive
<1>3. ASSUME PublisherStep
      PROVE  UNCHANGED Feed!vars
  BY <1>3 DEF PublisherStep, LockWaiters, VisitWaiter, UnlockWaiters, Wake,
              FinishWaking, Feed!vars
<1>4. ASSUME NEW s \in Stream,
             Subscribe(s) \/ OpenChanges(s) \/ DropStream(s)
      PROVE  UNCHANGED Feed!vars
  BY <1>4 DEF Subscribe, OpenChanges, DropStream, Feed!vars
<1>5. ASSUME NEW s \in Stream, Changes(s)
      PROVE  Feed!Take(s)
  BY <1>5 DEF Changes, Feed!Take, Wakeups, PollsAreLive
<1>6. ASSUME NEW s \in Stream, NEW w \in Waker, PollLoad(s, w)
      PROVE  Feed!Take(s) \/ UNCHANGED Feed!vars
  BY <1>6 DEF PollLoad, News, Feed!Take, Feed!vars
<1>7. ASSUME NEW s \in Stream, PollStep(s)
      PROVE  Feed!Take(s) \/ Feed!End(s) \/ UNCHANGED Feed!vars
  <2> USE DEF Wakeups, PollsAreLive, EndingIsClosed
  <2>1. CASE PollAlive(s)
    BY <2>1 DEF PollAlive, Feed!End, Feed!vars
  <2>2. CASE PollReload(s)
    BY <2>2 DEF PollReload, News, Feed!Take, Feed!vars
  <2>3. CASE PollDisarm(s)
    BY <2>3 DEF PollDisarm, Feed!End, Feed!vars
  <2>4. CASE PollRegister(s) \/ PollRecheckAlive(s)
    BY <2>4 DEF PollRegister, PollRecheckAlive, Feed!vars
  <2> QED
    BY <1>7, <2>1, <2>2, <2>3, <2>4 DEF PollStep
<1>8. CASE UNCHANGED vars
  BY <1>8 DEF vars, Feed!vars
<1> QED
  BY <1>1, <1>2, <1>3, <1>4, <1>5, <1>6, <1>7, <1>8 DEF Next, Feed!Next

\* Every behaviour of the channel is a behaviour of the abstract feed: each
\* stream jumps to the revision of the moment, never backwards, and is ended
\* once, only after the publisher is gone.
THEOREM Refinement == Spec => ImplementsFeed
<1>1. IInv => TypeOK /\ Wakeups
  BY DEF IInv, Wakeups
<1> QED
  BY <1>1, FeedInit, FeedNext, Invariance, PTL DEF Spec, ImplementsFeed, Feed!Spec

=============================================================================
