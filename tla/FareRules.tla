----------------------------- MODULE FareRules -----------------------------
(***************************************************************************)
(* The pure rules of a fare: how a destination is classified              *)
(* (fare_service.classify_destination and data/destinations.py) and how   *)
(* many minutes a driver on a Local or Fares Fare exemption is granted to  *)
(* return (fare_service._return_deadline_minutes, config.py).              *)
(*                                                                         *)
(* Time is counted in ticks.  A traffic multiplier is a number of ticks    *)
(* per granted minute, so 1.0 is MinuteTicks: with MinuteTicks = 100 the   *)
(* multipliers 1.0, 1.15 and 1.35 of config.py are 100, 115 and 135 and    *)
(* the product is exact.                                                   *)
(***************************************************************************)
EXTENDS Integers, Sequences, SequencesExt

CONSTANTS
  None,              \* Python's None
  KnownDestinations, \* the lookup table, as a sequence in the table's order
  Texts,             \* the destinations an agent types, stripped, lower case
  Overlaps,          \* the pairs <<text, key>> with one a substring of the other
  RoundTrips,        \* the round-trip overrides an agent types, in minutes
  TrafficLevels,     \* the values of models.TrafficLevel
  TrafficMultiplier, \* ticks granted per minute at each traffic level
  Floor,             \* RETURN_TIME_FLOOR_MINUTES: minutes, for each exemption
  MinuteTicks        \* the number of ticks in a minute

FareClassification == {"standard", "local", "fares_fare"}
Exemption == FareClassification \ {"standard"}

Destination == [key : Texts, classification : FareClassification,
                round_trip_minutes : Nat]

ASSUME NoneAssumption ==
  None \notin Nat \cup FareClassification \cup BOOLEAN \cup Destination

ASSUME TableAssumption ==
  /\ KnownDestinations \in Seq(Destination)
  /\ \A i, j \in DOMAIN KnownDestinations :
       KnownDestinations[i].key = KnownDestinations[j].key => i = j
  /\ Overlaps \subseteq Texts \X Texts
  /\ RoundTrips \subseteq Nat \ {0}

ASSUME TimeAssumption ==
  /\ MinuteTicks \in Nat \ {0}
  /\ Floor \in [Exemption -> Nat]
  /\ TrafficMultiplier \in [TrafficLevels -> Nat]
  /\ \A level \in TrafficLevels : TrafficMultiplier[level] >= MinuteTicks

----------------------------------------------------------------------------
(***************************************************************************)
(* Classification.                                                         *)
(***************************************************************************)

\* The entries of the table whose key is the text, or overlaps it.
ExactMatches(text) ==
  {i \in DOMAIN KnownDestinations : KnownDestinations[i].key = text}
PartialMatches(text) ==
  {i \in DOMAIN KnownDestinations : <<text, KnownDestinations[i].key>> \in Overlaps}

\* An exact match wins; otherwise the first entry, in the table's order, whose
\* key contains the text or is contained in it.
FindDestination(text) ==
  LET matches == IF ExactMatches(text) # {} THEN ExactMatches(text)
                                            ELSE PartialMatches(text)
  IN  IF text = "" \/ matches = {} THEN None
      ELSE KnownDestinations[CHOOSE i \in matches : \A j \in matches : i <= j]

Classified(classification, minutes) ==
  [classification |-> classification, round_trip_minutes |-> minutes]

\* The agent's classification, when given, is taken together with the agent's
\* round trip (which may be None); the table is then not consulted at all.
ClassifyDestination(text, override, minutes) ==
  LET match == FindDestination(text)
  IN  IF override # None THEN Classified(override, minutes)
      ELSE IF match = None THEN Classified("standard", None)
      ELSE Classified(match.classification, match.round_trip_minutes)

----------------------------------------------------------------------------
(***************************************************************************)
(* The time granted to return.                                             *)
(***************************************************************************)

BaseMinutes(classification, round_trip) ==
  LET estimate == IF round_trip = None THEN 0 ELSE round_trip
  IN  IF estimate > Floor[classification] THEN estimate ELSE Floor[classification]

\* Faulty variant: the estimate replaces the floor whenever there is one.
Bug_EstimateOnly(level, classification, round_trip) ==
  (IF round_trip = None THEN Floor[classification] ELSE round_trip)
    * TrafficMultiplier[level]

ReturnDeadlineTicks(level, classification, round_trip) ==
  BaseMinutes(classification, round_trip) * TrafficMultiplier[level]
=============================================================================
