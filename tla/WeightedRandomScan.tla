------------------------- MODULE WeightedRandomScan -------------------------
(***************************************************************************)
(* WeightedRandom::pick in its two scans.  A HealthChecked candidate shares*)
(* its health with those who report outcomes, so it may become available   *)
(* or unavailable between any two calls of is_eligible.                    *)
(***************************************************************************)
EXTENDS Candidates

CONSTANT Slice     \* the candidates of the slice

VARIABLES
  healthy,     \* what the health signal of each candidate says now
  scan,        \* "sum", "draw", or "done"
  at,          \* the candidate the scan is at
  units,       \* the total weight so far, then what is left of the ticket
  result       \* what the pick returned, or "unreachable"

vars == <<healthy, scan, at, units, result>>

None == Failed("none")

Init ==
  /\ healthy \in [DOMAIN Slice -> BOOLEAN]
  /\ scan = "sum" /\ at = 1 /\ units = 0
  /\ result = None

Reads(i) == IsEligible([Slice[i] EXCEPT !.healthy = healthy[i]])

\* The health of a candidate changes.
Report(i) ==
  /\ healthy' = [healthy EXCEPT ![i] = ~@]
  /\ UNCHANGED <<scan, at, units, result>>

Return(r) == scan' = "done" /\ result' = r /\ UNCHANGED <<healthy, at, units>>

Sum ==
  /\ scan = "sum" /\ at <= Len(Slice)
  /\ LET total == units + IF Reads(at) THEN Slice[at].weight ELSE 0
     IN  IF total > MaxU64 THEN Return(Failed("WeightOverflow"))
         ELSE /\ units' = total /\ at' = at + 1
              /\ UNCHANGED <<healthy, scan, result>>

\* A ticket below the total is drawn, if there is a total.
Ticket ==
  /\ scan = "sum" /\ at > Len(Slice)
  /\ IF units = 0 THEN Return(Failed(NoCandidateError(Slice)))
     ELSE /\ units' \in 0..(units - 1)
          /\ scan' = "draw" /\ at' = 1
          /\ UNCHANGED <<healthy, result>>

Draw ==
  /\ scan = "draw" /\ at <= Len(Slice)
  /\ IF Reads(at) /\ units < Slice[at].weight THEN Return(Selected(at))
     ELSE /\ units' = units - IF Reads(at) THEN Slice[at].weight ELSE 0
          /\ at' = at + 1
          /\ UNCHANGED <<healthy, scan, result>>

\* No candidate took the ticket: unreachable!() panics.
Exhaust ==
  /\ scan = "draw" /\ at > Len(Slice)
  /\ Return(Failed("unreachable"))

Again == scan = "done" /\ scan' = "sum" /\ at' = 1 /\ units' = 0
           /\ result' = None /\ UNCHANGED healthy

Next ==
  \/ \E i \in DOMAIN Slice : Report(i)
  \/ Sum \/ Ticket \/ Draw \/ Exhaust \/ Again

Spec == Init /\ [][Next]_vars

\* "ticket is bounded by the checked sum of eligible weights": the second scan
\* of a pick always comes to a candidate for its ticket.
TicketIsBounded == result.error # "unreachable"

=============================================================================
