----------------------------- MODULE MCResponse -----------------------------
(***************************************************************************)
(* Values for the constants of StatusResponse in TLC's runs.               *)
(***************************************************************************)
EXTENDS StatusResponse

MCTrafficMultiplier == [level \in TrafficLevels |-> MinuteTicks]

MCFloor == [class \in Exemption |-> 1]

NoDestinations == << >>
=============================================================================
