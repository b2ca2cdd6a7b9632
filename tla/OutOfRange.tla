----------------------------- MODULE OutOfRange -----------------------------
(***************************************************************************)
(* Dates have a last one (datetime.max).  TaxiRank leaves out the minutes  *)
(* that lead past it; here they are in.  The addition of such minutes to   *)
(* the clock raises OverflowError in the middle of complete_fare or        *)
(* return_to_terminal: what was assigned before it stays assigned, and     *)
(* what comes after it is never reached.                                   *)
(*                                                                         *)
(* schemas.py bounds the two numbers of minutes a user types from below    *)
(* only.                                                                   *)
(***************************************************************************)
EXTENDS TaxiRank

CONSTANT LastDate  \* datetime.max, in ticks; the clock does not reach it

InRange(date) == date = None \/ date <= LastDate

\* An operation that computes no date past the last one.
CompletesInRange ==
  /\ Next
  /\ \A b \in Badges : /\ InRange(taxis'[b].return_deadline)
                       /\ InRange(taxis'[b].expected_arrival_at)

\* The deadline is the last field complete_fare assigns.
CompleteFareRaises(b) ==
  /\ b \in Registered
  /\ taxis[b].status = "on_fare"
  /\ taxis[b].current_fare_id # None
  /\ LET fare == fares[taxis[b].current_fare_id]
     IN  /\ fare.classification # "standard"
         /\ ~InRange(now + ReturnDeadlineTicks(traffic_level, fare.classification,
                                               fare.round_trip_minutes))
         /\ taxis' = [taxis EXCEPT ![b] =
              [OffFare(taxis[b]) EXCEPT !.status = "return_exempt",
                                        !.exemption_type = fare.classification]]
  /\ fares' = [fares EXCEPT ![taxis[b].current_fare_id] = None]
  /\ UNCHANGED <<registered, feeder_park_queue, notifications, dispatch_events,
                 site>>

\* The expected arrival is the last field return_to_terminal assigns; one from an
\* earlier choice stays.
ReturnToTerminalRaises(b, t, eta) ==
  /\ b \in Registered
  /\ taxis[b].status = "return_exempt"
  /\ TerminalExists(t)
  /\ HasRoom(t)
  /\ eta > Lead
  /\ ~InRange(now + eta * MinuteTicks)
  /\ taxis' = [taxis EXCEPT ![b].pending_return_terminal_id = t]
  /\ UNCHANGED <<registered, feeder_park_queue, fares, notifications,
                 dispatch_events, site>>

RangeNext ==
  \/ CompletesInRange
  \/ \E b \in Badges :
       \/ CompleteFareRaises(b)
       \/ \E t \in Terminals, eta \in Etas : ReturnToTerminalRaises(b, t, eta)

RangeSpec == Init /\ [][RangeNext]_vars

----------------------------------------------------------------------------
\* complete_fare: "Local / Fares Fare exemptions instead start a return deadline";
\* return_to_terminal: drivers further out "get added automatically as that window
\* approaches".  Every exemption has its deadline, and every choice of a terminal
\* the arrival that decides when the driver is added.
ExemptionsAreDated ==
  \A b \in Badges :
    /\ taxis[b].status = "return_exempt" => taxis[b].return_deadline # None
    /\ taxis[b].pending_return_terminal_id # None =>
         taxis[b].expected_arrival_at # None
=============================================================================
