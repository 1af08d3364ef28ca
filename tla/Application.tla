----------------------------- MODULE Application ----------------------------
(***************************************************************************)
(* What an application puts around its calls: a policy wrapped in          *)
(* ObservedPolicy, an Attempt for each call, an observed pool of endpoints,*)
(* and windows of the outcomes of its hosts that an outlier detector is    *)
(* asked about.  The parts run on threads of their own.                    *)
(***************************************************************************)
EXTENDS Routing, Observability, OutcomeWindows

CONSTANT
  Workloads    \* what applications do: the policy they pick with, whether it
               \* and the endpoints are observed, the attempts they make, the
               \* sinks they sample, the group of hosts they judge

ASSUME WorkloadsAssumption ==
  \A w \in Workloads : w.attempts \subseteq Attempt /\ w.sampled \subseteq Sinks

VARIABLE workload

vars == <<workload, routingVars, observabilityVars, windowVars>>

Init ==
  /\ workload \in Workloads
  /\ RoutingInit /\ policy = workload.policy
  /\ ObservabilityInit
  /\ WindowsInit /\ group = workload.group

DecisionKindOf(result) == IF result.index # 0 THEN "Selected" ELSE result.error

\* ObservedPolicy::pick reports the result of the policy, whatever it is.
ObservedPick ==
  /\ Pick
  /\ IF workload.observed
     THEN Notice("policy", RecordDecision(DecisionKindOf(last'.result)))
     ELSE UNCHANGED observabilityVars
  /\ UNCHANGED <<workload, windowVars>>

ResetPolicy == Reset /\ UNCHANGED <<workload, observabilityVars, windowVars>>

Observing ==
  /\ \/ \E a \in workload.attempts : Begin(a) \/ Complete(a) \/ Drop(a)
     \/ workload.observed /\ ReadinessFails
     \/ \E t \in Tellers : Tell(t)
     \/ \E s \in workload.sampled : TakeSnapshot(s)
     \/ Load
  /\ UNCHANGED <<workload, routingVars, windowVars>>

Judging ==
  /\ \E h \in DOMAIN windows :
       \/ \E k \in DOMAIN AttemptKinds : RecordOutcome(h, AttemptKinds[k])
       \/ Clear(h)
  /\ UNCHANGED <<workload, routingVars, observabilityVars>>

Next == ObservedPick \/ ResetPolicy \/ Observing \/ Judging

Spec == Init /\ [][Next]_vars

\* The type invariant of the parts.
TypeOK == RoutingTypeOK /\ ObservabilityTypeOK

=============================================================================
