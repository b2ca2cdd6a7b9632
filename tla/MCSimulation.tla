---------------------------- MODULE MCSimulation ----------------------------
(***************************************************************************)
(* Values for the constants of SimulationDay in TLC's runs.                *)
(***************************************************************************)
EXTENDS SimulationDay, TLC

MCKnownDestinations ==
  <<[key |-> "kensington", classification |-> "local", round_trip_minutes |-> 2]>>

MCTrafficMultiplier == [level \in TrafficLevels |-> MinuteTicks]

MCFloor == [class \in Exemption |-> 1]

Symmetry == Permutations(Badges) \cup Permutations(FareIds)
=============================================================================
