--------------------------- MODULE TaxiRankProofs ---------------------------
(***************************************************************************)
(* Theorems about TaxiRank, for every set of badges, terminals, agents and *)
(* fares, every table, floor, multiplier, capacity and arrival time.       *)
(*                                                                         *)
(* None of the invariants is inductive alone: complete_fare keeps the      *)
(* records coherent only if the fare it looks up is there, remove_taxi     *)
(* keeps the queue right only if no badge is in it twice, and so on.       *)
(* Together, and with no badge registered twice, they are inductive.       *)
(***************************************************************************)
EXTENDS TaxiRank, SequenceLemmas, WellFoundedInduction

RegisteredOnce == IsInjective(registered)

IInv ==
  /\ TypeOK
  /\ RegisteredOnce
  /\ QueueHoldsTheWaiting
  /\ RecordsCoherent
  /\ FareLedgerAgrees
  /\ AssignmentIsNotified

----------------------------------------------------------------------------
(***************************************************************************)
(* The rules of a fare.                                                    *)
(***************************************************************************)

\* Among the matching entries of the table, min finds the first.
LEMMA LeastNatural ==
  ASSUME NEW T, T \subseteq Nat, T # {}
  PROVE  \E x \in T : \A y \in T : x <= y
<1>1. \E x \in T : \A y \in T : ~ (<<y, x>> \in OpToRel(<, Nat))
  BY NatLessThanWellFounded, WFMin
<1>2. ASSUME NEW x \in T, NEW y \in T, ~ (<<y, x>> \in OpToRel(<, Nat))
      PROVE  x <= y
  BY <1>2 DEF OpToRel
<1> QED
  BY <1>1, <1>2

\* find_destination returns None or an entry of the table.
LEMMA FindDestinationType ==
  ASSUME NEW text
  PROVE  FindDestination(text) \in Destination \cup {None}
<1> DEFINE matches == IF ExactMatches(text) # {} THEN ExactMatches(text)
                                                 ELSE PartialMatches(text)
           first == CHOOSE i \in matches : \A j \in matches : i <= j
<1>1. matches \subseteq DOMAIN KnownDestinations
  BY DEF ExactMatches, PartialMatches
<1>2. CASE matches = {} \/ text = ""
  BY <1>2 DEF FindDestination
<1>3. CASE matches # {} /\ text # ""
  <2>1. matches \subseteq Nat
    BY <1>1, TableAssumption
  <2>2. first \in matches
    <3> HIDE DEF matches
    <3> QED
      BY <1>3, <2>1, LeastNatural
  <2>3. KnownDestinations[first] \in Destination
    <3> HIDE DEF first, matches
    <3> QED
      BY <1>1, <2>2, TableAssumption
  <2>4. FindDestination(text) = KnownDestinations[first]
    BY <1>3 DEF FindDestination
  <2> QED
    BY <2>3, <2>4
<1> QED
  BY <1>2, <1>3

\* A fare is always given one of the three classifications, and an estimate in
\* minutes or none.
LEMMA ClassifyDestinationType ==
  ASSUME NEW text, NEW override \in FareClassification \cup {None},
         NEW minutes \in RoundTrips \cup {None}
  PROVE  /\ ClassifyDestination(text, override, minutes).classification
              \in FareClassification
         /\ ClassifyDestination(text, override, minutes).round_trip_minutes
              \in Nat \cup {None}
<1>1. RoundTrips \subseteq Nat
  BY TableAssumption
<1> DEFINE match == FindDestination(text)
<1>2. match \in Destination \cup {None}
  BY FindDestinationType
<1> HIDE DEF match
<1>3. ClassifyDestination(text, override, minutes) =
        IF override # None THEN Classified(override, minutes)
        ELSE IF match = None THEN Classified("standard", None)
        ELSE Classified(match.classification, match.round_trip_minutes)
  BY DEF ClassifyDestination, match
<1>4. CASE override # None
  BY <1>1, <1>3, <1>4 DEF Classified
<1>5. CASE override = None /\ match = None
  BY <1>3, <1>5 DEF Classified, FareClassification
<1>6. CASE override = None /\ match # None
  BY <1>2, <1>3, <1>6 DEF Classified, Destination
<1> QED
  BY <1>4, <1>5, <1>6

\* More minutes and heavier traffic never give a shorter time.
LEMMA ProductIsMonotone ==
  ASSUME NEW a \in Nat, NEW b \in Nat, NEW c \in Nat, NEW d \in Nat,
         a <= c, b <= d
  PROVE  a * b <= c * d
<1>1. a * b <= c * b
  BY SMT
<1>2. c * b <= c * d
  BY SMT
<1>3. a * b \in Nat /\ c * b \in Nat /\ c * d \in Nat
  BY SMT
<1> QED
  BY <1>1, <1>2, <1>3

\* The time granted is never shorter than the floor: neither a short estimate
\* nor light traffic takes anything from it.
THEOREM FloorIsGranted ==
  ASSUME NEW level \in TrafficLevels, NEW classification \in Exemption,
         NEW round_trip \in Nat \cup {None}
  PROVE  /\ ReturnDeadlineTicks(level, classification, round_trip) \in Nat
         /\ ReturnDeadlineTicks(level, classification, round_trip) >=
              Floor[classification] * MinuteTicks
<1> DEFINE base == BaseMinutes(classification, round_trip)
           floor == Floor[classification]
           factor == TrafficMultiplier[level]
<1>1. floor \in Nat /\ factor \in Nat /\ MinuteTicks \in Nat /\ MinuteTicks <= factor
  BY TimeAssumption
<1>2. base \in Nat /\ floor <= base
  BY <1>1 DEF BaseMinutes
<1>3. ReturnDeadlineTicks(level, classification, round_trip) = base * factor
  BY DEF ReturnDeadlineTicks
<1> HIDE DEF base, floor, factor
<1>4. floor * MinuteTicks <= base * factor
  BY <1>1, <1>2, ProductIsMonotone
<1>5. base * factor \in Nat /\ floor * MinuteTicks \in Nat
  BY <1>1, <1>2, SMT
<1> QED
  BY <1>3, <1>4, <1>5 DEF floor

----------------------------------------------------------------------------
(***************************************************************************)
(* The inductive invariant: one lemma per operation.                       *)
(***************************************************************************)

\* None is no value a field can hold otherwise.
LEMMA NoneFacts ==
  /\ None \notin Nat /\ None \notin FareClassification /\ None \notin Exemption
  /\ None \notin Badges /\ None \notin Terminals /\ None \notin FareIds
  /\ None \notin Fare
BY NoneAssumption, RankAssumption, FareAssumption DEF Exemption

\* The dataclass's defaults make a taxi.
LEMMA NewTaxiType == NewTaxi \in Taxi
BY DEF NewTaxi, Taxi, TaxiStatus

\* The server starts in a state the invariant allows.
LEMMA InitIInv == Init => IInv
<1> SUFFICES ASSUME Init PROVE IInv
  OBVIOUS
<1>1. TypeOK
  BY NewTaxiType, RankAssumption DEF Init, TypeOK
<1>2. registered = << >> /\ feeder_park_queue = << >>
  BY DEF Init
<1>3. ToSet(<< >>) = {} /\ IsInjective(<< >>)
  BY DEF ToSet, IsInjective
<1>4. RegisteredOnce /\ QueueHoldsTheWaiting
  BY <1>2, <1>3 DEF RegisteredOnce, QueueHoldsTheWaiting, Registered
<1>5. RecordsCoherent /\ FareLedgerAgrees /\ AssignmentIsNotified
  BY NoneFacts DEF Init, NewTaxi, RecordsCoherent, FareLedgerAgrees,
                   AssignmentIsNotified
<1> QED
  BY <1>1, <1>4, <1>5 DEF IInv

\* What the administrators do to terminals, agents and traffic, and the passing
\* of time, leave alone everything the invariant relates.
LEMMA SiteStepKeepsIInv ==
  ASSUME IInv, TypeOK',
         UNCHANGED <<taxis, registered, feeder_park_queue, fares, notifications>>
  PROVE  IInv'
BY DEF IInv, RegisteredOnce, QueueHoldsTheWaiting, RecordsCoherent,
       FareLedgerAgrees, AssignmentIsNotified, Registered

\* add_taxi finds nothing of an earlier taxi with the badge.
LEMMA AddTaxiKeepsIInv ==
  ASSUME IInv, NEW b \in Badges, AddTaxi(b)
  PROVE  IInv'
<1>1. /\ registered' \in Seq(Badges)
      /\ RegisteredOnce'
      /\ Registered' = Registered \cup {b}
  BY AppendNewProperties DEF IInv, TypeOK, AddTaxi, RegisteredOnce, Registered
<1>2. taxis[b] = NewTaxi /\ notifications[b] = None
  BY DEF IInv, RecordsCoherent, AddTaxi
<1>3. taxis' = taxis
  BY <1>2 DEF AddTaxi, IInv, TypeOK
<1>4. UNCHANGED <<feeder_park_queue, fares, notifications, dispatch_events, site>>
  BY DEF AddTaxi
<1>5. TypeOK'
  BY <1>1, <1>3, <1>4 DEF IInv, TypeOK, site
<1>6. QueueHoldsTheWaiting'
  BY <1>1, <1>2, <1>3, <1>4 DEF IInv, QueueHoldsTheWaiting, NewTaxi
<1>7. RecordsCoherent' /\ FareLedgerAgrees' /\ AssignmentIsNotified'
  BY <1>1, <1>3, <1>4 DEF IInv, RecordsCoherent, FareLedgerAgrees,
                          AssignmentIsNotified
<1> QED
  BY <1>1, <1>5, <1>6, <1>7 DEF IInv

\* remove of a badge from the queue: what QueueWithout leaves there.
LEMMA QueueWithoutProperties ==
  ASSUME IInv, NEW b \in Badges
  PROVE  /\ QueueWithout(b) \in Seq(Badges)
         /\ IsInjective(QueueWithout(b))
         /\ ToSet(QueueWithout(b)) = ToSet(feeder_park_queue) \ {b}
BY RemoveFirstProperties DEF IInv, TypeOK, QueueHoldsTheWaiting, QueueWithout

\* remove_taxi leaves nothing of the taxi but a fare no taxi refers to.
LEMMA RemoveTaxiKeepsIInv ==
  ASSUME IInv, NEW b \in Badges, RemoveTaxi(b)
  PROVE  IInv'
<1>1. /\ registered' \in Seq(Badges)
      /\ RegisteredOnce'
      /\ Registered' = Registered \ {b}
  BY RemoveFirstProperties DEF IInv, TypeOK, RemoveTaxi, RegisteredOnce, Registered
<1>2. /\ feeder_park_queue' \in Seq(Badges)
      /\ IsInjective(feeder_park_queue')
      /\ ToSet(feeder_park_queue') = ToSet(feeder_park_queue) \ {b}
  BY QueueWithoutProperties DEF RemoveTaxi
<1>3. /\ taxis' = [taxis EXCEPT ![b] = NewTaxi]
      /\ notifications' = [notifications EXCEPT ![b] = None]
      /\ UNCHANGED <<fares, dispatch_events, site>>
  BY DEF RemoveTaxi
<1>4. TypeOK'
  BY <1>1, <1>2, <1>3, NewTaxiType DEF IInv, TypeOK, site
<1>5. QueueHoldsTheWaiting'
  BY <1>1, <1>2, <1>3 DEF IInv, TypeOK, QueueHoldsTheWaiting
<1>6. RecordsCoherent' /\ AssignmentIsNotified'
  BY <1>1, <1>3, NoneFacts DEF IInv, TypeOK, RecordsCoherent,
                               AssignmentIsNotified, NewTaxi
<1>7. FareLedgerAgrees'
  BY <1>3 DEF IInv, TypeOK, FareLedgerAgrees, NewTaxi
<1> QED
  BY <1>1, <1>4, <1>5, <1>6, <1>7 DEF IInv

\* append of a badge to the queue by a taxi that was not waiting there.
LEMMA BackOfQueueProperties ==
  ASSUME IInv, NEW b \in Badges, taxis[b].status # "in_feeder_park"
  PROVE  /\ BackOfQueue(b) \in Seq(Badges)
         /\ IsInjective(BackOfQueue(b))
         /\ ToSet(BackOfQueue(b)) = ToSet(feeder_park_queue) \cup {b}
<1>1. b \notin ToSet(feeder_park_queue)
  BY DEF IInv, QueueHoldsTheWaiting
<1> QED
  BY <1>1, AppendNewProperties DEF IInv, TypeOK, QueueHoldsTheWaiting, BackOfQueue

\* join_feeder_park: the status and the queue change together.
LEMMA JoinFeederParkKeepsIInv ==
  ASSUME IInv, NEW b \in Badges, JoinFeederPark(b)
  PROVE  IInv'
<1>1. /\ feeder_park_queue' \in Seq(Badges)
      /\ IsInjective(feeder_park_queue')
      /\ ToSet(feeder_park_queue') = ToSet(feeder_park_queue) \cup {b}
  BY BackOfQueueProperties DEF JoinFeederPark
<1>2. /\ b \in Registered
      /\ taxis[b].status = "offline"
      /\ taxis' = [taxis EXCEPT ![b].status = "in_feeder_park"]
      /\ UNCHANGED <<registered, fares, notifications, dispatch_events, site>>
  BY DEF JoinFeederPark
<1>3. TypeOK'
  <2>1. [taxis[b] EXCEPT !.status = "in_feeder_park"] \in Taxi
    BY DEF IInv, TypeOK, Taxi, TaxiStatus
  <2>2. taxis' \in [Badges -> Taxi]
    BY <1>2, <2>1 DEF IInv, TypeOK
  <2> QED
    BY <1>1, <1>2, <2>2 DEF IInv, TypeOK, site
<1>4. Registered' = Registered /\ RegisteredOnce'
  BY <1>2 DEF IInv, RegisteredOnce, Registered
<1>5. QueueHoldsTheWaiting'
  BY <1>1, <1>2, <1>4 DEF IInv, TypeOK, Taxi, QueueHoldsTheWaiting
<1>6. RecordsCoherent' /\ FareLedgerAgrees' /\ AssignmentIsNotified'
  BY <1>2, <1>4 DEF IInv, TypeOK, Taxi, RecordsCoherent, FareLedgerAgrees,
                    AssignmentIsNotified
<1> QED
  BY <1>3, <1>4, <1>5, <1>6 DEF IInv

\* leave_feeder_park: the status and the queue change together.
LEMMA LeaveFeederParkKeepsIInv ==
  ASSUME IInv, NEW b \in Badges, LeaveFeederPark(b)
  PROVE  IInv'
<1>1. /\ feeder_park_queue' \in Seq(Badges)
      /\ IsInjective(feeder_park_queue')
      /\ ToSet(feeder_park_queue') = ToSet(feeder_park_queue) \ {b}
  BY QueueWithoutProperties DEF LeaveFeederPark
<1>2. /\ b \in Registered
      /\ taxis[b].status = "in_feeder_park"
      /\ taxis' = [taxis EXCEPT ![b].status = "offline"]
      /\ UNCHANGED <<registered, fares, notifications, dispatch_events, site>>
  BY DEF LeaveFeederPark
<1>3. TypeOK'
  <2>1. [taxis[b] EXCEPT !.status = "offline"] \in Taxi
    BY DEF IInv, TypeOK, Taxi, TaxiStatus
  <2>2. taxis' \in [Badges -> Taxi]
    BY <1>2, <2>1 DEF IInv, TypeOK
  <2> QED
    BY <1>1, <1>2, <2>2 DEF IInv, TypeOK, site
<1>4. Registered' = Registered /\ RegisteredOnce'
  BY <1>2 DEF IInv, RegisteredOnce, Registered
<1>5. QueueHoldsTheWaiting'
  BY <1>1, <1>2, <1>4 DEF IInv, TypeOK, Taxi, QueueHoldsTheWaiting
<1>6. RecordsCoherent' /\ FareLedgerAgrees' /\ AssignmentIsNotified'
  BY <1>2, <1>4 DEF IInv, TypeOK, Taxi, RecordsCoherent, FareLedgerAgrees,
                    AssignmentIsNotified
<1> QED
  BY <1>3, <1>4, <1>5, <1>6 DEF IInv

\* call_next_taxi: the badge popped is that of a waiting taxi, which is told.
LEMMA CallNextTaxiKeepsIInv ==
  ASSUME IInv, NEW t \in Terminals, CallNextTaxi(t)
  PROVE  IInv'
<1> DEFINE b == Head(feeder_park_queue)
           called == [taxis[b] EXCEPT !.status = "called", !.terminal_id = t,
                                      !.self_checked_in = FALSE]
<1>1. /\ b \in Badges
      /\ b \in ToSet(feeder_park_queue)
      /\ feeder_park_queue' \in Seq(Badges)
      /\ IsInjective(feeder_park_queue')
      /\ ToSet(feeder_park_queue') = ToSet(feeder_park_queue) \ {b}
  BY TailProperties DEF IInv, TypeOK, QueueHoldsTheWaiting, CallNextTaxi
<1>2. b \in Registered /\ taxis[b].status = "in_feeder_park"
  BY <1>1 DEF IInv, QueueHoldsTheWaiting
<1>3. /\ taxis' = [taxis EXCEPT ![b] = called]
      /\ notifications' = [notifications EXCEPT ![b] = t]
      /\ UNCHANGED <<registered, fares, site>>
  BY DEF CallNextTaxi, Notified
<1>4. dispatch_events' \in Nat
  BY DEF CallNextTaxi, RecordDispatch, IInv, TypeOK
<1> HIDE DEF b
<1>5. /\ called \in Taxi
      /\ called.status = "called"
      /\ called.terminal_id = t
      /\ called.current_fare_id = taxis[b].current_fare_id
      /\ called.exemption_type = taxis[b].exemption_type
      /\ called.return_deadline = taxis[b].return_deadline
      /\ called.pending_return_terminal_id = taxis[b].pending_return_terminal_id
      /\ called.expected_arrival_at = taxis[b].expected_arrival_at
  BY <1>1 DEF IInv, TypeOK, Taxi, TaxiStatus
<1> HIDE DEF called
<1>6. TypeOK'
  BY <1>1, <1>3, <1>4, <1>5 DEF IInv, TypeOK, site
<1>7. Registered' = Registered /\ RegisteredOnce'
  BY <1>3 DEF IInv, RegisteredOnce, Registered
<1>8. QueueHoldsTheWaiting'
  BY <1>1, <1>3, <1>5, <1>7 DEF IInv, TypeOK, QueueHoldsTheWaiting
<1>9. RecordsCoherent'
  BY <1>1, <1>2, <1>3, <1>5, <1>7, NoneFacts DEF IInv, TypeOK, RecordsCoherent
<1>10. FareLedgerAgrees' /\ AssignmentIsNotified'
  BY <1>1, <1>2, <1>3, <1>5 DEF IInv, TypeOK, FareLedgerAgrees,
                                AssignmentIsNotified
<1> QED
  BY <1>6, <1>7, <1>8, <1>9, <1>10 DEF IInv

\* record_fare: the new fare is the taxi's own, and replaces no other.
LEMMA RecordFareKeepsIInv ==
  ASSUME IInv, NEW b \in Badges, NEW a \in Agents, NEW text \in Texts,
         NEW override \in FareClassification \cup {None},
         NEW minutes \in RoundTrips \cup {None},
         RecordFare(b, a, text, override, minutes)
  PROVE  IInv'
<1> DEFINE class == ClassifyDestination(text, override, minutes)
           fare == [taxi_badge |-> b, classification |-> class.classification,
                    round_trip_minutes |-> class.round_trip_minutes]
<1>1. /\ b \in Registered
      /\ taxis[b].status = "called"
      /\ taxis[b].terminal_id # None
      /\ UNCHANGED <<registered, feeder_park_queue, notifications,
                     dispatch_events, site>>
  BY DEF RecordFare, WaitingAtRank
<1>2. PICK f \in FareIds :
        /\ fares[f] = None
        /\ fares' = [fares EXCEPT ![f] = fare]
        /\ taxis' = [taxis EXCEPT ![b].current_fare_id = f, ![b].status = "on_fare"]
  BY DEF RecordFare
<1>3. fare \in Fare /\ fare.taxi_badge = b
  BY ClassifyDestinationType DEF Fare
<1> DEFINE hired == [taxis[b] EXCEPT !.current_fare_id = f, !.status = "on_fare"]
<1>4. taxis' = [taxis EXCEPT ![b] = hired]
  BY <1>2 DEF IInv, TypeOK
<1>5. /\ hired \in Taxi
      /\ hired.status = "on_fare"
      /\ hired.current_fare_id = f
      /\ hired.terminal_id = taxis[b].terminal_id
      /\ hired.exemption_type = taxis[b].exemption_type
      /\ hired.return_deadline = taxis[b].return_deadline
      /\ hired.pending_return_terminal_id = taxis[b].pending_return_terminal_id
      /\ hired.expected_arrival_at = taxis[b].expected_arrival_at
  BY DEF IInv, TypeOK, Taxi, TaxiStatus
<1> HIDE DEF hired, fare
<1>6. TypeOK'
  <2>1. fares' \in [FareIds -> Fare \cup {None}]
    BY <1>2, <1>3 DEF IInv, TypeOK
  <2>2. taxis' \in [Badges -> Taxi]
    BY <1>4, <1>5 DEF IInv, TypeOK
  <2> QED
    BY <1>1, <2>1, <2>2 DEF IInv, TypeOK, site
<1>7. Registered' = Registered /\ RegisteredOnce'
  BY <1>1 DEF IInv, RegisteredOnce, Registered
<1>8. QueueHoldsTheWaiting'
  BY <1>1, <1>4, <1>5, <1>7 DEF IInv, TypeOK, QueueHoldsTheWaiting
<1>9. RecordsCoherent' /\ AssignmentIsNotified'
  BY <1>1, <1>4, <1>5, <1>7 DEF IInv, TypeOK, RecordsCoherent,
                                AssignmentIsNotified
<1>10. FareLedgerAgrees'
  BY <1>2, <1>3, <1>4, <1>5, NoneFacts DEF IInv, TypeOK, FareLedgerAgrees
<1> QED
  BY <1>6, <1>7, <1>8, <1>9, <1>10 DEF IInv

\* complete_fare: the fare ended is the taxi's own; only that taxi referred to it.
LEMMA CompleteFareKeepsIInv ==
  ASSUME IInv, NEW b \in Badges, CompleteFare(b)
  PROVE  IInv'
<1> DEFINE f == taxis[b].current_fare_id
           fare == fares[f]
           idle == OffFare(taxis[b])
           grant == ReturnDeadlineTicks(traffic_level, fare.classification,
                                        fare.round_trip_minutes)
<1>1. /\ b \in Registered
      /\ taxis[b].status = "on_fare"
      /\ f # None
      /\ fares' = [fares EXCEPT ![f] = None]
      /\ UNCHANGED <<registered, notifications, dispatch_events, site>>
  BY DEF CompleteFare
<1>2. f \in FareIds /\ fare \in Fare /\ fare.taxi_badge = b
  BY <1>1 DEF IInv, TypeOK, Taxi, FareLedgerAgrees
<1>3. \A c \in Badges : c # b => taxis[c].current_fare_id # f
  BY <1>1, <1>2 DEF IInv, FareLedgerAgrees
<1>4. taxis[b] \in Taxi
  BY DEF IInv, TypeOK
<1>5. Registered' = Registered /\ RegisteredOnce'
  BY <1>1 DEF IInv, RegisteredOnce, Registered
<1>6. SUFFICES ASSUME NEW done \in Taxi,
                      taxis' = [taxis EXCEPT ![b] = done],
                      done.current_fare_id = None,
                      done.terminal_id = None,
                      done.pending_return_terminal_id = None,
                      done.expected_arrival_at = None,
                      done.status \in {"in_feeder_park", "return_exempt"},
                      done.exemption_type # None <=> done.status = "return_exempt",
                      done.return_deadline # None <=> done.status = "return_exempt",
                      feeder_park_queue' = IF done.status = "in_feeder_park"
                                           THEN BackOfQueue(b)
                                           ELSE feeder_park_queue
               PROVE  IInv'
  <2>1. taxis[b].pending_return_terminal_id = None /\ taxis[b].expected_arrival_at = None
    BY <1>1 DEF IInv, RecordsCoherent
  <2>2. CASE fare.classification = "standard"
    <3> DEFINE done == [idle EXCEPT !.status = "in_feeder_park",
                                    !.exemption_type = None,
                                    !.return_deadline = None]
    <3>1. taxis' = [taxis EXCEPT ![b] = done] /\ feeder_park_queue' = BackOfQueue(b)
      BY <2>2 DEF CompleteFare
    <3>2. /\ done \in Taxi
          /\ done.current_fare_id = None /\ done.terminal_id = None
          /\ done.pending_return_terminal_id = None /\ done.expected_arrival_at = None
          /\ done.status = "in_feeder_park"
          /\ done.exemption_type = None /\ done.return_deadline = None
      BY <1>4, <2>1 DEF Taxi, TaxiStatus, OffFare
    <3> HIDE DEF done
    <3> QED
      BY <1>6, <3>1, <3>2
  <2>3. CASE fare.classification # "standard"
    <3> DEFINE done == [idle EXCEPT !.status = "return_exempt",
                                    !.exemption_type = fare.classification,
                                    !.return_deadline = now + grant]
    <3>1. /\ taxis' = [taxis EXCEPT ![b] = done]
          /\ feeder_park_queue' = feeder_park_queue
      BY <2>3 DEF CompleteFare
    <3>2. fare.classification \in Exemption
      BY <1>2, <2>3 DEF Fare, Exemption
    <3>3. now + grant \in Nat
      <4>1. grant \in Nat
        BY <1>2, <3>2, FloorIsGranted DEF Fare, IInv, TypeOK
      <4> HIDE DEF grant
      <4> QED
        BY <4>1 DEF IInv, TypeOK
    <3> HIDE DEF grant, fare
    <3>4. /\ done \in Taxi
          /\ done.current_fare_id = None /\ done.terminal_id = None
          /\ done.pending_return_terminal_id = None /\ done.expected_arrival_at = None
          /\ done.status = "return_exempt"
          /\ done.exemption_type \in Exemption /\ done.return_deadline \in Nat
      BY <1>4, <2>1, <3>2, <3>3 DEF Taxi, TaxiStatus, OffFare
    <3> HIDE DEF done
    <3> QED
      BY <1>6, <3>1, <3>4, NoneFacts
  <2> QED
    BY <2>2, <2>3
<1>7. /\ feeder_park_queue' \in Seq(Badges)
      /\ IsInjective(feeder_park_queue')
      /\ ToSet(feeder_park_queue') = IF done.status = "in_feeder_park"
                                     THEN ToSet(feeder_park_queue) \cup {b}
                                     ELSE ToSet(feeder_park_queue)
  BY <1>1, <1>6, BackOfQueueProperties DEF IInv, TypeOK, QueueHoldsTheWaiting
<1> HIDE DEF f, fare
<1>8. TypeOK'
  BY <1>1, <1>2, <1>6, <1>7 DEF IInv, TypeOK, site
<1>9. QueueHoldsTheWaiting'
  BY <1>1, <1>5, <1>6, <1>7 DEF IInv, TypeOK, QueueHoldsTheWaiting
<1>10. RecordsCoherent' /\ AssignmentIsNotified'
  BY <1>1, <1>5, <1>6 DEF IInv, TypeOK, RecordsCoherent, AssignmentIsNotified
<1>11. FareLedgerAgrees'
  BY <1>1, <1>2, <1>3, <1>6 DEF IInv, TypeOK, FareLedgerAgrees
<1> QED
  BY <1>5, <1>8, <1>9, <1>10, <1>11 DEF IInv

\* What _add_taxi_to_terminal makes of a taxi.
LEMMA AddTaxiToTerminalProperties ==
  ASSUME NEW taxi \in Taxi, NEW t \in Terminals
  PROVE  /\ AddTaxiToTerminal(taxi, t) \in Taxi
         /\ AddTaxiToTerminal(taxi, t).status = "called"
         /\ AddTaxiToTerminal(taxi, t).terminal_id = t
         /\ AddTaxiToTerminal(taxi, t).self_checked_in
         /\ AddTaxiToTerminal(taxi, t).current_fare_id = taxi.current_fare_id
         /\ AddTaxiToTerminal(taxi, t).exemption_type = None
         /\ AddTaxiToTerminal(taxi, t).return_deadline = None
         /\ AddTaxiToTerminal(taxi, t).pending_return_terminal_id = None
         /\ AddTaxiToTerminal(taxi, t).expected_arrival_at = None
<1> DEFINE onTime == taxi.return_deadline = None \/ now <= taxi.return_deadline
<1>1. onTime \in BOOLEAN
  OBVIOUS
<1>2. AddTaxiToTerminal(taxi, t) =
        [taxi EXCEPT !.status = "called", !.terminal_id = t,
                     !.self_checked_in = TRUE, !.last_return_on_time = onTime,
                     !.exemption_type = None, !.return_deadline = None,
                     !.pending_return_terminal_id = None,
                     !.expected_arrival_at = None]
  BY DEF AddTaxiToTerminal
<1> HIDE DEF onTime
<1> QED
  BY <1>1, <1>2 DEF Taxi, TaxiStatus

\* return_to_terminal: on both paths the fields follow the status.
LEMMA ReturnToTerminalKeepsIInv ==
  ASSUME IInv, NEW b \in Badges, NEW t \in Terminals, NEW eta \in Nat,
         ReturnToTerminal(b, t, eta)
  PROVE  IInv'
<1>1. /\ b \in Registered
      /\ taxis[b].status = "return_exempt"
      /\ UNCHANGED <<registered, feeder_park_queue, fares, dispatch_events, site>>
  BY DEF ReturnToTerminal
<1>2. taxis[b] \in Taxi
  BY DEF IInv, TypeOK
<1>3. Registered' = Registered /\ RegisteredOnce'
  BY <1>1 DEF IInv, RegisteredOnce, Registered
<1>4. CASE eta <= Lead
  <2> DEFINE seated == AddTaxiToTerminal(taxis[b], t)
  <2>1. /\ taxis' = [taxis EXCEPT ![b] = seated]
        /\ notifications' = [notifications EXCEPT ![b] = t]
    BY <1>4 DEF ReturnToTerminal, Notified
  <2>2. /\ seated \in Taxi
        /\ seated.status = "called"
        /\ seated.terminal_id = t
        /\ seated.current_fare_id = taxis[b].current_fare_id
        /\ seated.exemption_type = None
        /\ seated.return_deadline = None
        /\ seated.pending_return_terminal_id = None
        /\ seated.expected_arrival_at = None
    BY <1>2, AddTaxiToTerminalProperties
  <2> HIDE DEF seated
  <2>3. TypeOK'
    BY <1>1, <2>1, <2>2 DEF IInv, TypeOK, site
  <2>4. QueueHoldsTheWaiting'
    BY <1>1, <1>3, <2>1, <2>2 DEF IInv, TypeOK, QueueHoldsTheWaiting
  <2>5. RecordsCoherent' /\ AssignmentIsNotified'
    BY <1>1, <1>3, <2>1, <2>2, NoneFacts
    DEF IInv, TypeOK, RecordsCoherent, AssignmentIsNotified
  <2>6. FareLedgerAgrees'
    BY <1>1, <2>1, <2>2 DEF IInv, TypeOK, FareLedgerAgrees
  <2> QED
    BY <1>3, <2>3, <2>4, <2>5, <2>6 DEF IInv
<1>5. CASE ~(eta <= Lead)
  <2> DEFINE arrival == now + eta * MinuteTicks
             heading == [taxis[b] EXCEPT !.pending_return_terminal_id = t,
                                         !.expected_arrival_at = arrival]
  <2>1. taxis' = [taxis EXCEPT ![b] = heading] /\ notifications' = notifications
    BY <1>5 DEF ReturnToTerminal, IInv, TypeOK
  <2>2. arrival \in Nat
    <3>1. now \in Nat /\ eta \in Nat /\ MinuteTicks \in Nat
      BY RankAssumption, TimeAssumption DEF IInv, TypeOK
    <3> QED
      BY <3>1, SMT
  <2> HIDE DEF arrival
  <2>3. /\ heading \in Taxi
        /\ heading.pending_return_terminal_id = t
        /\ heading.expected_arrival_at = arrival
        /\ heading.status = taxis[b].status
        /\ heading.terminal_id = taxis[b].terminal_id
        /\ heading.current_fare_id = taxis[b].current_fare_id
        /\ heading.exemption_type = taxis[b].exemption_type
        /\ heading.return_deadline = taxis[b].return_deadline
    BY <1>2, <2>2 DEF Taxi
  <2> HIDE DEF heading
  <2>4. TypeOK'
    BY <1>1, <2>1, <2>3 DEF IInv, TypeOK, site
  <2>5. QueueHoldsTheWaiting'
    BY <1>1, <1>3, <2>1, <2>3 DEF IInv, TypeOK, QueueHoldsTheWaiting
  <2>6. RecordsCoherent' /\ AssignmentIsNotified'
    BY <1>1, <1>3, <2>1, <2>2, <2>3, NoneFacts
    DEF IInv, TypeOK, RecordsCoherent, AssignmentIsNotified
  <2>7. FareLedgerAgrees'
    BY <1>1, <2>1, <2>3 DEF IInv, TypeOK, FareLedgerAgrees
  <2> QED
    BY <1>3, <2>4, <2>5, <2>6, <2>7 DEF IInv
<1> QED
  BY <1>4, <1>5

\* What a pass of promote_due_returns makes of one taxi: it is added to the rank
\* of the terminal it chose, or loses that choice, or is left as it is.
LEMMA SweptProperties ==
  ASSUME IInv, NEW b \in Badges
  PROVE  /\ Swept(b) \in Taxi
         /\ Promoted(b) =>
              /\ b \in Registered
              /\ taxis[b].status = "return_exempt"
              /\ taxis[b].pending_return_terminal_id \in Terminals
              /\ Swept(b) = AddTaxiToTerminal(taxis[b],
                                              taxis[b].pending_return_terminal_id)
         /\ ~Promoted(b) =>
              /\ Swept(b).status = taxis[b].status
              /\ Swept(b).terminal_id = taxis[b].terminal_id
              /\ Swept(b).current_fare_id = taxis[b].current_fare_id
              /\ Swept(b).exemption_type = taxis[b].exemption_type
              /\ Swept(b).return_deadline = taxis[b].return_deadline
              /\ \/ Swept(b) = taxis[b]
                 \/ /\ b \in Registered
                    /\ Swept(b).pending_return_terminal_id = None
                    /\ Swept(b).expected_arrival_at = None
<1>1. taxis[b] \in Taxi
  BY DEF IInv, TypeOK
<1>2. CASE Promoted(b)
  <2>1. /\ b \in Registered
        /\ taxis[b].status = "return_exempt"
        /\ taxis[b].pending_return_terminal_id \in Terminals
    BY <1>1, <1>2 DEF Promoted, Due, Taxi
  <2>2. Swept(b) = AddTaxiToTerminal(taxis[b], taxis[b].pending_return_terminal_id)
    BY <1>2 DEF Swept
  <2> QED
    BY <1>1, <1>2, <2>1, <2>2, AddTaxiToTerminalProperties
<1>3. CASE ~Promoted(b) /\ Stranded(b)
  <2>1. Swept(b) = [taxis[b] EXCEPT !.pending_return_terminal_id = None,
                                    !.expected_arrival_at = None]
    BY <1>3 DEF Swept
  <2>2. b \in Registered
    BY <1>3 DEF Stranded, Due
  <2> QED
    BY <1>1, <1>3, <2>1, <2>2 DEF Taxi
<1>4. CASE ~Promoted(b) /\ ~Stranded(b)
  BY <1>1, <1>4 DEF Swept
<1> QED
  BY <1>2, <1>3, <1>4

\* promote_due_returns: each taxi of the pass keeps its fields and status in step.
LEMMA PromoteDueReturnsKeepsIInv ==
  ASSUME IInv, PromoteDueReturns
  PROVE  IInv'
<1>1. /\ taxis' = [b \in Badges |-> Swept(b)]
      /\ notifications' = [b \in Badges |->
           IF Promoted(b) THEN taxis[b].pending_return_terminal_id
                          ELSE notifications[b]]
      /\ UNCHANGED <<registered, feeder_park_queue, fares, dispatch_events, site>>
  BY DEF PromoteDueReturns
<1>2. Registered' = Registered /\ RegisteredOnce'
  BY <1>1 DEF IInv, RegisteredOnce, Registered
<1>3. ASSUME NEW b \in Badges
      PROVE  /\ taxis'[b] \in Taxi
             /\ taxis'[b].current_fare_id = taxis[b].current_fare_id
             /\ \/ taxis'[b].status = taxis[b].status
                \/ /\ taxis'[b].status = "called"
                   /\ taxis[b].status = "return_exempt"
             /\ notifications'[b] \in Terminals \cup {None}
  BY <1>1, SweptProperties, AddTaxiToTerminalProperties DEF IInv, TypeOK
<1>4. TypeOK'
  <2>1. taxis' \in [Badges -> Taxi]
    BY <1>1, <1>3
  <2>2. notifications' \in [Badges -> Terminals \cup {None}]
    BY <1>1, <1>3
  <2> QED
    BY <1>1, <2>1, <2>2 DEF IInv, TypeOK, site
<1>5. QueueHoldsTheWaiting'
  <2>1. Registered \subseteq Badges
    BY DEF IInv, TypeOK, Registered, ToSet
  <2> QED
    BY <1>1, <1>2, <1>3, <2>1 DEF IInv, QueueHoldsTheWaiting
<1>6. FareLedgerAgrees'
  BY <1>1, <1>3 DEF IInv, FareLedgerAgrees
<1>7. ASSUME NEW b \in Badges
      PROVE  /\ taxis'[b].terminal_id # None <=>
                  taxis'[b].status \in {"called", "on_fare"}
             /\ taxis'[b].exemption_type # None <=>
                  taxis'[b].status = "return_exempt"
             /\ taxis'[b].return_deadline # None <=>
                  taxis'[b].status = "return_exempt"
             /\ taxis'[b].pending_return_terminal_id # None <=>
                  taxis'[b].expected_arrival_at # None
             /\ taxis'[b].pending_return_terminal_id # None =>
                  taxis'[b].status = "return_exempt"
             /\ b \notin Registered => taxis'[b] = NewTaxi /\ notifications'[b] = None
             /\ taxis'[b].terminal_id # None =>
                  notifications'[b] = taxis'[b].terminal_id
  <2>1. CASE Promoted(b)
    <3>1. /\ taxis'[b] = AddTaxiToTerminal(taxis[b],
                                           taxis[b].pending_return_terminal_id)
          /\ notifications'[b] = taxis[b].pending_return_terminal_id
          /\ b \in Registered
          /\ taxis[b].pending_return_terminal_id \in Terminals
          /\ taxis[b] \in Taxi
      BY <1>1, <2>1, SweptProperties DEF IInv, TypeOK
    <3> QED
      BY <3>1, AddTaxiToTerminalProperties, NoneFacts
  <2>2. CASE ~Promoted(b)
    <3>1. taxis'[b] = Swept(b) /\ notifications'[b] = notifications[b]
      BY <1>1, <2>2
    <3> QED
      BY <2>2, <3>1, SweptProperties DEF IInv, RecordsCoherent, AssignmentIsNotified
  <2> QED
    BY <2>1, <2>2
<1>8. RecordsCoherent' /\ AssignmentIsNotified'
  BY <1>2, <1>7 DEF RecordsCoherent, AssignmentIsNotified
<1> QED
  BY <1>2, <1>4, <1>5, <1>6, <1>8 DEF IInv

\* No operation breaks the invariant.
LEMMA NextKeepsIInv ==
  ASSUME IInv, [Next]_vars
  PROVE  IInv'
<1>1. ASSUME NEW b \in Badges, AddTaxi(b) \/ RemoveTaxi(b)
      PROVE  IInv'
  BY <1>1, AddTaxiKeepsIInv, RemoveTaxiKeepsIInv
<1>2. ASSUME NEW a \in Agents, NEW t \in Terminals \cup {None}, AddRankAgent(a, t)
      PROVE  IInv'
  <2>1. TypeOK'
    BY <1>2 DEF IInv, TypeOK, AddRankAgent
  <2> QED
    BY <1>2, <2>1, SiteStepKeepsIInv DEF AddRankAgent
<1>3. ASSUME NEW a \in Agents, RemoveRankAgent(a)
      PROVE  IInv'
  <2>1. TypeOK'
    BY <1>3 DEF IInv, TypeOK, RemoveRankAgent
  <2> QED
    BY <1>3, <2>1, SiteStepKeepsIInv DEF RemoveRankAgent
<1>4. ASSUME NEW t \in Terminals, NEW c \in Capacities \cup {None}, AddTerminal(t, c)
      PROVE  IInv'
  <2>1. TypeOK'
    BY <1>4, RankAssumption DEF IInv, TypeOK, AddTerminal
  <2> QED
    BY <1>4, <2>1, SiteStepKeepsIInv DEF AddTerminal
<1>5. ASSUME NEW t \in Terminals, RemoveTerminal(t)
      PROVE  IInv'
  <2>1. TypeOK'
    BY <1>5 DEF IInv, TypeOK, RemoveTerminal
  <2> QED
    BY <1>5, <2>1, SiteStepKeepsIInv DEF RemoveTerminal
<1>6. ASSUME NEW level \in TrafficLevels, SetTrafficLevel(level)
      PROVE  IInv'
  <2>1. TypeOK'
    BY <1>6 DEF IInv, TypeOK, SetTrafficLevel
  <2> QED
    BY <1>6, <2>1, SiteStepKeepsIInv DEF SetTrafficLevel
<1>7. CASE AdminStep
  BY <1>1, <1>2, <1>3, <1>4, <1>5, <1>6, <1>7 DEF AdminStep
<1>8. CASE DriverStep
  <2>1. Etas \subseteq Nat
    BY RankAssumption
  <2> QED
    BY <1>8, <2>1, JoinFeederParkKeepsIInv, LeaveFeederParkKeepsIInv,
       CompleteFareKeepsIInv, ReturnToTerminalKeepsIInv DEF DriverStep
<1>9. CASE RankAgentStep
  BY <1>9, CallNextTaxiKeepsIInv, RecordFareKeepsIInv DEF RankAgentStep
<1>10. CASE Tick
  <2>1. TypeOK'
    BY <1>10 DEF IInv, TypeOK, Tick
  <2> QED
    BY <1>10, <2>1, SiteStepKeepsIInv DEF Tick
<1>11. CASE UNCHANGED vars
  <2>1. TypeOK'
    BY <1>11 DEF IInv, TypeOK, vars, site
  <2> QED
    BY <1>11, <2>1, SiteStepKeepsIInv DEF vars
<1> QED
  BY <1>7, <1>8, <1>9, <1>10, <1>11, PromoteDueReturnsKeepsIInv DEF Next

\* The invariant holds in every state the server reaches.
THEOREM Invariance == Spec => []IInv
BY InitIInv, NextKeepsIInv, PTL DEF Spec

----------------------------------------------------------------------------
(***************************************************************************)
(* The invariants.                                                         *)
(***************************************************************************)

\* Every field of the store always holds a value of its type.
THEOREM TypeCorrect == Spec => []TypeOK
<1>1. IInv => TypeOK
  BY DEF IInv
<1> QED
  BY <1>1, Invariance, PTL

\* The queue and the statuses never disagree: call_next_taxi never pops a badge
\* that has no taxi, or whose taxi is not waiting.
THEOREM QueueIsRight == Spec => []QueueHoldsTheWaiting
<1>1. IInv => QueueHoldsTheWaiting
  BY DEF IInv
<1> QED
  BY <1>1, Invariance, PTL

\* The fields of a taxi always agree with its status.
THEOREM RecordsAreRight == Spec => []RecordsCoherent
<1>1. IInv => RecordsCoherent
  BY DEF IInv
<1> QED
  BY <1>1, Invariance, PTL

\* A taxi on a fare always refers to a fare in progress that is its own.
THEOREM FareLedgerIsRight == Spec => []FareLedgerAgrees
<1>1. IInv => FareLedgerAgrees
  BY DEF IInv
<1> QED
  BY <1>1, Invariance, PTL

\* A driver with a terminal has always been told of it last.
THEOREM AssignmentsAreNotified == Spec => []AssignmentIsNotified
<1>1. IInv => AssignmentIsNotified
  BY DEF IInv
<1> QED
  BY <1>1, Invariance, PTL

----------------------------------------------------------------------------
(***************************************************************************)
(* The exemption's deadline.                                               *)
(***************************************************************************)

DeadlineStep(b) ==
  taxis'[b].status = "return_exempt" =>
    IF taxis[b].status = "return_exempt"
    THEN taxis'[b].return_deadline = taxis[b].return_deadline
    ELSE taxis'[b].return_deadline >= now + Floor[taxis'[b].exemption_type] * MinuteTicks

\* The one operation that starts an exemption grants at least its floor.
LEMMA CompleteFareGrantsFloor ==
  ASSUME IInv, NEW b \in Badges, NEW c \in Badges, CompleteFare(c)
  PROVE  DeadlineStep(b)
<1>1. CASE b # c
  BY <1>1 DEF CompleteFare, DeadlineStep, IInv, TypeOK
<1>2. CASE b = c
  <2> DEFINE fare == fares[taxis[b].current_fare_id]
             grant == ReturnDeadlineTicks(traffic_level, fare.classification,
                                          fare.round_trip_minutes)
  <2>1. fare \in Fare
    BY <1>2 DEF CompleteFare, FareLedgerAgrees, IInv, TypeOK, Taxi
  <2>2. CASE fare.classification = "standard"
    <3>1. taxis'[b].status = "in_feeder_park"
      BY <1>2, <2>2 DEF CompleteFare, OffFare, IInv, TypeOK, Taxi
    <3> QED
      BY <3>1 DEF DeadlineStep
  <2>3. CASE fare.classification # "standard"
    <3>1. taxis[b] \in Taxi
      BY DEF IInv, TypeOK
    <3>2. taxis' = [taxis EXCEPT ![b] =
            [OffFare(taxis[b]) EXCEPT !.status = "return_exempt",
                                      !.exemption_type = fare.classification,
                                      !.return_deadline = now + grant]]
      BY <1>2, <2>3 DEF CompleteFare
    <3>3. grant \in Nat /\ grant >= Floor[fare.classification] * MinuteTicks
      BY <2>1, <2>3, FloorIsGranted DEF Fare, Exemption, IInv, TypeOK
    <3>4. taxis[b].status # "return_exempt" /\ now \in Nat
      BY <1>2 DEF CompleteFare, IInv, TypeOK
    <3> HIDE DEF grant, fare
    <3>5. /\ taxis'[b].exemption_type = fare.classification
          /\ taxis'[b].return_deadline = now + grant
      BY <3>1, <3>2 DEF OffFare, Taxi, IInv, TypeOK
    <3> DEFINE floor == Floor[fare.classification] * MinuteTicks
    <3>6. floor \in Nat
      BY <2>1, <2>3, TimeAssumption, SMT DEF Fare, Exemption, fare
    <3> HIDE DEF floor
    <3>7. now + grant >= now + floor
      BY <3>3, <3>4, <3>6 DEF floor
    <3> QED
      BY <3>4, <3>5, <3>7 DEF DeadlineStep, floor
  <2> QED
    BY <2>2, <2>3
<1> QED
  BY <1>1, <1>2

\* No other operation starts an exemption, or changes the deadline of one.
LEMMA NextKeepsDeadlines ==
  ASSUME IInv, [Next]_vars, NEW b \in Badges
  PROVE  DeadlineStep(b)
<1>1. taxis[b] \in Taxi /\ taxis \in [Badges -> Taxi]
  BY DEF IInv, TypeOK
<1>2. CASE taxis' = taxis
  BY <1>2 DEF DeadlineStep
<1>3. ASSUME NEW c \in Badges, AddTaxi(c) \/ RemoveTaxi(c)
      PROVE  DeadlineStep(b)
  BY <1>1, <1>3 DEF AddTaxi, RemoveTaxi, NewTaxi, DeadlineStep
<1>4. CASE AdminStep
  BY <1>2, <1>3, <1>4 DEF AdminStep, AddRankAgent, RemoveRankAgent, AddTerminal,
                          RemoveTerminal, SetTrafficLevel
<1>5. ASSUME NEW c \in Badges, JoinFeederPark(c) \/ LeaveFeederPark(c)
      PROVE  DeadlineStep(b)
  BY <1>1, <1>5 DEF JoinFeederPark, LeaveFeederPark, DeadlineStep, Taxi
<1>6. ASSUME NEW c \in Badges, NEW t \in Terminals, NEW eta \in Etas,
             ReturnToTerminal(c, t, eta)
      PROVE  DeadlineStep(b)
  <2>1. CASE eta <= Lead
    <3>1. taxis' = [taxis EXCEPT ![c] = AddTaxiToTerminal(taxis[c], t)]
      BY <1>6, <2>1 DEF ReturnToTerminal
    <3>2. AddTaxiToTerminal(taxis[c], t).status = "called"
      BY AddTaxiToTerminalProperties DEF IInv, TypeOK
    <3> QED
      BY <1>1, <3>1, <3>2 DEF DeadlineStep
  <2>2. CASE ~(eta <= Lead)
    BY <1>1, <1>6, <2>2 DEF ReturnToTerminal, DeadlineStep, Taxi
  <2> QED
    BY <2>1, <2>2
<1>7. CASE DriverStep
  BY <1>5, <1>6, <1>7, CompleteFareGrantsFloor DEF DriverStep
<1>8. ASSUME NEW t \in Terminals, CallNextTaxi(t)
      PROVE  DeadlineStep(b)
  <2>1. Head(feeder_park_queue) \in Badges
    BY <1>8, TailProperties DEF CallNextTaxi, IInv, TypeOK, QueueHoldsTheWaiting
  <2> QED
    BY <1>1, <1>8, <2>1 DEF CallNextTaxi, DeadlineStep, Taxi
<1>9. ASSUME NEW c \in Badges, NEW a \in Agents, NEW text \in Texts,
             NEW override \in FareClassification \cup {None},
             NEW minutes \in RoundTrips \cup {None},
             RecordFare(c, a, text, override, minutes)
      PROVE  DeadlineStep(b)
  <2>1. PICK f \in FareIds :
          taxis' = [taxis EXCEPT ![c].current_fare_id = f, ![c].status = "on_fare"]
    BY <1>9 DEF RecordFare
  <2> QED
    BY <1>1, <2>1 DEF DeadlineStep, Taxi
<1>10. CASE RankAgentStep
  BY <1>8, <1>9, <1>10 DEF RankAgentStep
<1>11. CASE PromoteDueReturns
  <2>1. taxis'[b] = Swept(b)
    BY <1>11 DEF PromoteDueReturns
  <2>2. CASE Promoted(b)
    BY <1>1, <2>1, <2>2, SweptProperties, AddTaxiToTerminalProperties
    DEF DeadlineStep
  <2>3. CASE ~Promoted(b)
    BY <2>1, <2>3, SweptProperties DEF DeadlineStep
  <2> QED
    BY <2>2, <2>3
<1> QED
  BY <1>2, <1>4, <1>7, <1>10, <1>11 DEF Next, Tick, vars

\* An exemption grants at least its floor, and its deadline never moves.
THEOREM DeadlinesAreFirm == Spec => DeadlineIsFirm
<1>1. IInv /\ [Next]_vars => \A b \in Badges : DeadlineStep(b)
  BY NextKeepsDeadlines
<1>2. IInv /\ [Next]_vars =>
        [\A b \in Badges : taxis'[b].status = "return_exempt" =>
           IF taxis[b].status = "return_exempt"
           THEN taxis'[b].return_deadline = taxis[b].return_deadline
           ELSE taxis'[b].return_deadline >=
                  now + Floor[taxis'[b].exemption_type] * MinuteTicks]_vars
  BY <1>1 DEF DeadlineStep
<1> QED
  BY <1>2, Invariance, PTL DEF Spec, DeadlineIsFirm

----------------------------------------------------------------------------
(***************************************************************************)
(* A terminal that was removed.                                            *)
(***************************************************************************)

StaysAtClosedRank(b) ==
  LET t == taxis[b].terminal_id
  IN  /\ taxis[b].status = "called"
      /\ ~TerminalExists(t)
      => taxis'[b] = taxis[b] \/ b \notin Registered'

\* Every operation on a called taxi looks its terminal up, except remove_taxi.
LEMMA NextKeepsClosedRanks ==
  ASSUME IInv, [Next]_vars, NEW b \in Badges
  PROVE  StaysAtClosedRank(b)
<1> SUFFICES ASSUME taxis[b].status = "called",
                    ~TerminalExists(taxis[b].terminal_id)
             PROVE  taxis'[b] = taxis[b] \/ b \notin Registered'
  BY DEF StaysAtClosedRank
<1>1. taxis \in [Badges -> Taxi]
  BY DEF IInv, TypeOK
<1>2. ASSUME NEW c \in Badges, AddTaxi(c)
      PROVE  taxis'[b] = taxis[b]
  <2>1. c # b
    BY <1>2 DEF AddTaxi, IInv, RecordsCoherent, NewTaxi
  <2> QED
    BY <1>1, <1>2, <2>1 DEF AddTaxi
<1>3. ASSUME NEW c \in Badges, RemoveTaxi(c)
      PROVE  taxis'[b] = taxis[b] \/ b \notin Registered'
  <2>1. Registered' = Registered \ {c}
    BY <1>3, RemoveFirstProperties
    DEF IInv, TypeOK, RemoveTaxi, RegisteredOnce, Registered
  <2> QED
    BY <1>1, <1>3, <2>1 DEF RemoveTaxi
<1>4. CASE AdminStep
  BY <1>2, <1>3, <1>4 DEF AdminStep, AddRankAgent, RemoveRankAgent, AddTerminal,
                          RemoveTerminal, SetTrafficLevel
<1>5. ASSUME NEW c \in Badges,
             \/ JoinFeederPark(c)
             \/ LeaveFeederPark(c)
             \/ CompleteFare(c)
             \/ \E t \in Terminals, eta \in Etas : ReturnToTerminal(c, t, eta)
      PROVE  taxis'[b] = taxis[b]
  <2>1. c # b
    BY <1>5 DEF JoinFeederPark, LeaveFeederPark, CompleteFare, ReturnToTerminal
  <2>2. \A d \in Badges : d # c => taxis'[d] = taxis[d]
    BY <1>1, <1>5
    DEF JoinFeederPark, LeaveFeederPark, CompleteFare, ReturnToTerminal
  <2> QED
    BY <2>1, <2>2
<1>6. CASE DriverStep
  BY <1>5, <1>6 DEF DriverStep
<1>7. ASSUME NEW t \in Terminals, CallNextTaxi(t)
      PROVE  taxis'[b] = taxis[b]
  <2>1. Head(feeder_park_queue) \in ToSet(feeder_park_queue)
    BY <1>7, TailProperties DEF CallNextTaxi, IInv, TypeOK, QueueHoldsTheWaiting
  <2>2. b # Head(feeder_park_queue)
    BY <2>1 DEF IInv, QueueHoldsTheWaiting
  <2> QED
    BY <1>1, <1>7, <2>2 DEF CallNextTaxi
<1>8. ASSUME NEW c \in Badges, NEW a \in Agents, NEW text \in Texts,
             NEW override \in FareClassification \cup {None},
             NEW minutes \in RoundTrips \cup {None},
             RecordFare(c, a, text, override, minutes)
      PROVE  taxis'[b] = taxis[b]
  <2>1. c # b
    BY <1>8 DEF RecordFare, WaitingAtRank
  <2> QED
    BY <1>1, <1>8, <2>1 DEF RecordFare
<1>9. CASE RankAgentStep
  BY <1>7, <1>8, <1>9 DEF RankAgentStep
<1>10. CASE PromoteDueReturns
  <2>1. ~Due(b)
    BY DEF Due
  <2> QED
    BY <1>10, <2>1 DEF PromoteDueReturns, Swept, Promoted, Stranded
<1> QED
  BY <1>4, <1>6, <1>9, <1>10 DEF Next, Tick, vars

\* A taxi called to a terminal that was removed stays as it is, or is removed.
THEOREM ClosedRanksHoldTheirTaxis == Spec => ClosedRankHoldsItsTaxis
<1>1. IInv /\ [Next]_vars => \A b \in Badges : StaysAtClosedRank(b)
  BY NextKeepsClosedRanks
<1>2. IInv /\ [Next]_vars =>
        [\A b \in Badges :
           LET t == taxis[b].terminal_id
           IN  /\ taxis[b].status = "called"
               /\ ~TerminalExists(t)
               => taxis'[b] = taxis[b] \/ b \notin Registered']_vars
  BY <1>1 DEF StaysAtClosedRank
<1> QED
  BY <1>2, Invariance, PTL DEF Spec, ClosedRankHoldsItsTaxis

----------------------------------------------------------------------------
(***************************************************************************)
(* First come, first served.                                               *)
(***************************************************************************)

\* The order of the taxis that stay is kept, and those that enter are behind.
OrderKept(q, r) ==
  /\ \A b, c \in ToSet(q) \cap ToSet(r) : Before(q, b, c) => Before(r, b, c)
  /\ \A b \in ToSet(r) \ ToSet(q), c \in ToSet(q) \cap ToSet(r) : Before(r, c, b)

\* append puts a taxi that was not waiting behind the queue.
LEMMA AppendKeepsOrder ==
  ASSUME IInv, NEW b \in Badges, taxis[b].status # "in_feeder_park"
  PROVE  OrderKept(feeder_park_queue, BackOfQueue(b))
<1>1. b \notin ToSet(feeder_park_queue)
  BY DEF IInv, QueueHoldsTheWaiting
<1>2. /\ ToSet(BackOfQueue(b)) = ToSet(feeder_park_queue) \cup {b}
      /\ \A c, d : Precedes(feeder_park_queue, c, d) => Precedes(BackOfQueue(b), c, d)
      /\ \A c \in ToSet(feeder_park_queue) : Precedes(BackOfQueue(b), c, b)
  BY <1>1, AppendNewProperties DEF IInv, TypeOK, QueueHoldsTheWaiting, BackOfQueue
<1> QED
  BY <1>2 DEF OrderKept, Before, Precedes

\* remove changes the order of no others.
LEMMA RemoveKeepsOrder ==
  ASSUME IInv, NEW b \in Badges
  PROVE  OrderKept(feeder_park_queue, QueueWithout(b))
<1>1. /\ ToSet(QueueWithout(b)) = ToSet(feeder_park_queue) \ {b}
      /\ \A c, d : c # b /\ d # b /\ Precedes(feeder_park_queue, c, d)
                     => Precedes(QueueWithout(b), c, d)
  BY RemoveFirstProperties DEF IInv, TypeOK, QueueHoldsTheWaiting, QueueWithout
<1> QED
  BY <1>1 DEF OrderKept, Before, Precedes

\* pop(0) changes the order of no others.
LEMMA PopKeepsOrder ==
  ASSUME IInv, feeder_park_queue # << >>
  PROVE  OrderKept(feeder_park_queue, Tail(feeder_park_queue))
<1> DEFINE front == Head(feeder_park_queue)
<1>1. /\ ToSet(Tail(feeder_park_queue)) = ToSet(feeder_park_queue) \ {front}
      /\ \A c, d : c # front /\ d # front /\ Precedes(feeder_park_queue, c, d)
                     => Precedes(Tail(feeder_park_queue), c, d)
  BY TailProperties DEF IInv, TypeOK, QueueHoldsTheWaiting
<1> QED
  BY <1>1 DEF OrderKept, Before, Precedes

ServedInOrder(b) ==
  taxis[b].status = "in_feeder_park" /\ taxis'[b].status = "called"
    => b = Head(feeder_park_queue)

\* No operation changes the order of the queue, or calls a taxi but its front.
LEMMA NextServesInOrder ==
  ASSUME IInv, [Next]_vars
  PROVE  /\ OrderKept(feeder_park_queue, feeder_park_queue')
         /\ \A b \in Badges : ServedInOrder(b)
<1> DEFINE P == /\ OrderKept(feeder_park_queue, feeder_park_queue')
                /\ \A b \in Badges : ServedInOrder(b)
<1>1. taxis \in [Badges -> Taxi]
  BY DEF IInv, TypeOK
<1>2. feeder_park_queue' = feeder_park_queue =>
        OrderKept(feeder_park_queue, feeder_park_queue')
  BY DEF OrderKept
<1>3. CASE taxis' = taxis /\ feeder_park_queue' = feeder_park_queue
  BY <1>2, <1>3 DEF ServedInOrder
<1>4. ASSUME NEW c \in Badges, AddTaxi(c) \/ RemoveTaxi(c)
      PROVE  P
  BY <1>1, <1>2, <1>4, RemoveKeepsOrder DEF AddTaxi, RemoveTaxi, NewTaxi, ServedInOrder
<1>5. CASE AdminStep
  BY <1>3, <1>4, <1>5 DEF AdminStep, AddRankAgent, RemoveRankAgent, AddTerminal,
                          RemoveTerminal, SetTrafficLevel
<1>6. ASSUME NEW c \in Badges, JoinFeederPark(c) \/ LeaveFeederPark(c)
      PROVE  P
  BY <1>1, <1>6, AppendKeepsOrder, RemoveKeepsOrder
  DEF JoinFeederPark, LeaveFeederPark, ServedInOrder, Taxi
<1>7. ASSUME NEW c \in Badges, CompleteFare(c)
      PROVE  P
  <2>1. taxis[c].status = "on_fare"
    BY <1>7 DEF CompleteFare
  <2>2. OrderKept(feeder_park_queue, feeder_park_queue')
    BY <1>2, <1>7, <2>1, AppendKeepsOrder DEF CompleteFare
  <2>3. \A b \in Badges : b # c => taxis'[b] = taxis[b]
    BY <1>1, <1>7 DEF CompleteFare
  <2> QED
    BY <2>1, <2>2, <2>3 DEF ServedInOrder
<1>8. ASSUME NEW c \in Badges, NEW t \in Terminals, NEW eta \in Etas,
             ReturnToTerminal(c, t, eta)
      PROVE  P
  <2>1. taxis[c].status = "return_exempt" /\ feeder_park_queue' = feeder_park_queue
    BY <1>8 DEF ReturnToTerminal
  <2>2. \A b \in Badges : b # c => taxis'[b] = taxis[b]
    BY <1>1, <1>8 DEF ReturnToTerminal
  <2> QED
    BY <1>2, <2>1, <2>2 DEF ServedInOrder
<1>9. CASE DriverStep
  BY <1>6, <1>7, <1>8, <1>9 DEF DriverStep
<1>10. ASSUME NEW t \in Terminals, CallNextTaxi(t)
       PROVE  P
  <2>1. OrderKept(feeder_park_queue, feeder_park_queue')
    BY <1>10, PopKeepsOrder DEF CallNextTaxi
  <2>2. \A b \in Badges : b # Head(feeder_park_queue) => taxis'[b] = taxis[b]
    BY <1>1, <1>10 DEF CallNextTaxi
  <2> QED
    BY <2>1, <2>2 DEF ServedInOrder
<1>11. ASSUME NEW c \in Badges, NEW a \in Agents, NEW text \in Texts,
              NEW override \in FareClassification \cup {None},
              NEW minutes \in RoundTrips \cup {None},
              RecordFare(c, a, text, override, minutes)
       PROVE  P
  <2>1. taxis[c].status = "called" /\ feeder_park_queue' = feeder_park_queue
    BY <1>11 DEF RecordFare, WaitingAtRank
  <2>2. \A b \in Badges : b # c => taxis'[b] = taxis[b]
    BY <1>1, <1>11 DEF RecordFare
  <2> QED
    BY <1>2, <2>1, <2>2 DEF ServedInOrder
<1>12. CASE RankAgentStep
  BY <1>10, <1>11, <1>12 DEF RankAgentStep
<1>13. CASE PromoteDueReturns
  <2>1. ASSUME NEW b \in Badges, taxis[b].status = "in_feeder_park"
        PROVE  taxis'[b].status = "in_feeder_park"
    <3>1. ~Promoted(b)
      BY <2>1 DEF Promoted, Due
    <3> QED
      BY <1>13, <2>1, <3>1, SweptProperties DEF PromoteDueReturns
  <2> QED
    BY <1>2, <1>13, <2>1 DEF PromoteDueReturns, ServedInOrder
<1> QED
  BY <1>3, <1>5, <1>9, <1>12, <1>13 DEF Next, Tick, vars

\* The feeder park is served strictly in order of arrival.
THEOREM FeederParkIsFair == Spec => FirstComeFirstServed
<1>1. IInv /\ [Next]_vars =>
        /\ OrderKept(feeder_park_queue, feeder_park_queue')
        /\ \A b \in Badges : ServedInOrder(b)
  BY NextServesInOrder
<1>2. IInv /\ [Next]_vars =>
        [/\ \A b, c \in ToSet(feeder_park_queue) \cap ToSet(feeder_park_queue') :
              Before(feeder_park_queue, b, c) => Before(feeder_park_queue', b, c)
         /\ \A b \in ToSet(feeder_park_queue') \ ToSet(feeder_park_queue),
               c \in ToSet(feeder_park_queue) \cap ToSet(feeder_park_queue') :
              Before(feeder_park_queue', c, b)
         /\ \A b \in Badges :
              /\ taxis[b].status = "in_feeder_park"
              /\ taxis'[b].status = "called"
              => b = Head(feeder_park_queue)]_vars
  BY <1>1 DEF OrderKept, ServedInOrder
<1> QED
  BY <1>2, Invariance, PTL DEF Spec, FirstComeFirstServed
=============================================================================
