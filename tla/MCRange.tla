------------------------------ MODULE MCRange ------------------------------
(***************************************************************************)
(* Values for the constants of OutOfRange in TLC's runs.                   *)
(***************************************************************************)
EXTENDS OutOfRange

LocalTable ==
  <<[key |-> "kensington", classification |-> "local", round_trip_minutes |-> 1]>>

MCTrafficMultiplier == [level \in TrafficLevels |-> MinuteTicks]

MCFloor == [class \in Exemption |-> 1]
=============================================================================
