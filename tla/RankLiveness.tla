---------------------------- MODULE RankLiveness ----------------------------
(***************************************************************************)
(* What the service layer eventually does.                                 *)
(*                                                                         *)
(* Nothing in the program acts by itself: every step is a request, and     *)
(* promote_due_returns runs before each (deps.store_dependency).  Time     *)
(* passes, and the driver, rank agent and screen pages poll every few      *)
(* seconds, so the sweep is weakly fair.  That terminals go on calling     *)
(* taxis is an assumption about the airport: the call is strongly fair     *)
(* because a terminal may close and open between two calls.                *)
(***************************************************************************)
EXTENDS TaxiRank

TaxiIsCalled == \E t \in Terminals : CallNextTaxi(t)

\* Expected arrivals lie within the clock's bound, for time to reach them.
WithinHorizon ==
  \A b \in Badges : taxis[b].expected_arrival_at # None =>
    taxis[b].expected_arrival_at - Lead * MinuteTicks <= MaxTime

FairSpec ==
  /\ Init
  /\ [][Next /\ WithinHorizon']_vars
  /\ WF_vars(Tick)
  /\ WF_vars(PromoteDueReturns)
  /\ SF_vars(TaxiIsCalled)

\* A driver waiting in the feeder park does not wait for ever, if there is
\* always again a terminal open to call taxis: whoever joins, leaves, or comes
\* back from a standard fare meanwhile does not get in front.
WaitingDriverIsCalled ==
  []<>(\E t \in Terminals : TerminalExists(t)) =>
    \A b \in Badges :
      b \in ToSet(feeder_park_queue) ~> b \notin ToSet(feeder_park_queue)

\* A driver heading for a terminal is not left in doubt: the return is settled
\* (the taxi is added to the rank, or the choice is dropped because the terminal
\* was removed), or that terminal is open and found full.
PendingReturnIsSettled ==
  \A b \in Badges, t \in Terminals :
    taxis[b].pending_return_terminal_id = t ~>
      \/ taxis[b].pending_return_terminal_id # t
      \/ TerminalExists(t) /\ ~HasRoom(t)
=============================================================================
