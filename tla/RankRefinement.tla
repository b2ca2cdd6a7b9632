-------------------------- MODULE RankRefinement --------------------------
(***************************************************************************)
(* The service layer implements the abstract RankService.                  *)
(*                                                                         *)
(* The park is the feeder park queue; a driver is at a rank while its taxi *)
(* is called there, away while it is on a fare, exempt while it has a      *)
(* return to make; a rank has the capacity of its terminal for room.       *)
(* Recording a taxi, an agent, a traffic level or a pending return, and    *)
(* the passing of time, change nothing of this.                            *)
(***************************************************************************)
EXTENDS TaxiRank

With(status) == {b \in Registered : taxis[b].status = status}

Service == INSTANCE RankService WITH
  Drivers <- Badges,
  Ranks <- Terminals,
  park <- feeder_park_queue,
  rank <- [t \in Terminals |-> AtRank(t)],
  away <- With("on_fare"),
  exempt <- With("return_exempt"),
  room <- terminals

\* Every behaviour of the service layer is one of the abstract service: drivers
\* are in one place at a time, the park is served in order, an exemption ends
\* only in a place at a rank (or the removal of the taxi), and the drivers
\* checking in, through either of the two paths, never exceed a rank's room.
ImplementsService == Service!Spec
=============================================================================
