--------------------------- MODULE PromotionLoop ---------------------------
(***************************************************************************)
(* The loop of promote_due_returns as it is written, and its agreement     *)
(* with the closed form TaxiRank gives for its effect.                     *)
(***************************************************************************)
EXTENDS TaxiRank

\* terminal_occupancy, in the middle of the pass.
OccupancyIn(records, t) ==
  Cardinality({b \in Registered : /\ records[b].terminal_id = t
                                  /\ records[b].status = "called"})

\* The body of the loop, for the taxi of badge b.
Visit(records, b) ==
  LET taxi == records[b]
      t == taxi.pending_return_terminal_id
  IN  IF \/ taxi.status # "return_exempt"
         \/ t = None
         \/ taxi.expected_arrival_at = None
      THEN records
      ELSE IF now < taxi.expected_arrival_at - Lead * MinuteTicks
      THEN records
      ELSE IF ~TerminalExists(t)
      THEN [records EXCEPT ![b].pending_return_terminal_id = None,
                           ![b].expected_arrival_at = None]
      ELSE IF OccupancyIn(records, t) >= terminals[t]
      THEN records
      ELSE [records EXCEPT ![b] = AddTaxiToTerminal(@, t)]

\* The records after the first k taxis of the dict.
Pass[k \in 0..Len(registered)] ==
  IF k = 0 THEN taxis ELSE Visit(Pass[k - 1], registered[k])

SweptByLoop == Pass[Len(registered)]

\* In every reachable state the pass, which reads the occupancy again for each
\* taxi and changes it as it goes, ends where the closed form says.
SweepIsTheLoop == SweptByLoop = [b \in Badges |-> Swept(b)]
=============================================================================
