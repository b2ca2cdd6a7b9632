----------------------------- MODULE MCTaxiRank -----------------------------
(***************************************************************************)
(* Values for the constants of TaxiRank in TLC's runs.                     *)
(*                                                                         *)
(* The destination table keeps one entry of each classification, in the    *)
(* order of the real one, and the text "n" that overlaps both keys.        *)
(* Minutes are scaled down: the floors 60 and 90 are 1 and 2 minutes, a    *)
(* minute is MinuteTicks ticks, and each traffic level adds a tick to it.  *)
(***************************************************************************)
EXTENDS RankRefinement, RankLiveness, PromotionLoop, TLC

LocalPlace == [key |-> "kensington", classification |-> "local",
               round_trip_minutes |-> 1]
FaresFarePlace == [key |-> "windsor", classification |-> "fares_fare",
                   round_trip_minutes |-> 2]

MCKnownDestinations == <<LocalPlace, FaresFarePlace>>
LocalTable == <<LocalPlace>>

MCOverlaps == {<<"n", "kensington">>, <<"n", "windsor">>}

MCTrafficMultiplier ==
  [level \in TrafficLevels |-> CASE level = "normal"   -> MinuteTicks
                                 [] level = "moderate" -> MinuteTicks + 1
                                 [] level = "heavy"    -> MinuteTicks + 2]

MCFloor == [class \in Exemption |-> IF class = "local" THEN 1 ELSE 2]

Symmetry == Permutations(Badges) \cup Permutations(FareIds)
=============================================================================
