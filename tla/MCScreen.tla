------------------------------ MODULE MCScreen ------------------------------
(***************************************************************************)
(* Values for the constants of FeederScreen in TLC's runs.                 *)
(***************************************************************************)
EXTENDS FeederScreen, TLC

MCTrafficMultiplier == [level \in TrafficLevels |-> MinuteTicks]

MCFloor == [class \in Exemption |-> 1]

NoDestinations == << >>

Symmetry == Permutations(Badges)
=============================================================================
