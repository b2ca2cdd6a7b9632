----------------------------- MODULE MCRequests -----------------------------
(***************************************************************************)
(* Values for the constants of RequestLayer in TLC's runs: those of        *)
(* MCTaxiRank.                                                             *)
(***************************************************************************)
EXTENDS RequestLayer, TLC

MCKnownDestinations ==
  <<[key |-> "kensington", classification |-> "local", round_trip_minutes |-> 1]>>

MCTrafficMultiplier == [level \in TrafficLevels |-> MinuteTicks]

MCFloor == [class \in Exemption |-> 1]

Symmetry == Permutations(Badges) \cup Permutations(FareIds) \cup Permutations(Requests)
=============================================================================
