-------------------------- MODULE RefinementProofs --------------------------
(***************************************************************************)
(* The service layer implements RankService, for any number of taxis and   *)
(* terminals: its initial state is one of the abstract service, and each   *)
(* operation is one abstract step, or none.                                *)
(***************************************************************************)
EXTENDS RankRefinement, CapacityProofs

AbstractStep == Service!Next \/ UNCHANGED Service!vars

\* The ranks, as the abstract service sees them.
Ranks == [t \in Terminals |-> AtRank(t)]

\* The abstract service's operators on sequences and sets are the same.
LEMMA SameOperators ==
  /\ \A s : Service!ToSet(s) = ToSet(s)
  /\ \A s, e : Service!RemoveFirst(s, e) = RemoveFirst(s, e)
  /\ \A S : Service!Cardinality(S) = Cardinality(S)
<1>1. ASSUME NEW s PROVE Service!ToSet(s) = ToSet(s)
  BY DEF Service!ToSet, ToSet
<1>2. ASSUME NEW s, NEW e PROVE Service!RemoveFirst(s, e) = RemoveFirst(s, e)
  BY DEF Service!RemoveFirst, RemoveFirst, Service!SelectInSeq, SelectInSeq,
         Service!RemoveAt, RemoveAt, Service!Min, Min
<1>3. ASSUME NEW S PROVE Service!Cardinality(S) = Cardinality(S)
  BY DEF Service!Cardinality, Cardinality
<1> QED
  BY <1>1, <1>2, <1>3

\* An operation that leaves the places of all taxis alone is no abstract step.
LEMMA StutterStep ==
  ASSUME UNCHANGED <<taxis, registered, feeder_park_queue, terminals>>
  PROVE  UNCHANGED Service!vars
BY DEF Service!vars, AtRank, With, Registered

\* Where the taxis are after a step that changes one record only.
LEMMA OneTaxiMoves ==
  ASSUME IInv, NEW b \in Registered, NEW taxi,
         taxis' = [taxis EXCEPT ![b] = taxi], registered' = registered
  PROVE  /\ \A t \in Terminals : AtRank(t)' =
              IF taxi.status = "called" /\ taxi.terminal_id = t
              THEN AtRank(t) \cup {b} ELSE AtRank(t) \ {b}
         /\ \A status \in TaxiStatus : With(status)' =
              IF taxi.status = status THEN With(status) \cup {b}
                                      ELSE With(status) \ {b}
<1>1. /\ Registered' = Registered
      /\ Registered \subseteq Badges
      /\ taxis \in [Badges -> Taxi]
  BY DEF Registered, ToSet, IInv, TypeOK
<1>2. /\ taxis'[b] = taxi
      /\ \A c \in Registered : c # b => taxis'[c] = taxis[c]
  BY <1>1
<1> QED
  BY <1>1, <1>2 DEF AtRank, With

\* Where one taxi is, according to its record.
LEMMA Whereabouts ==
  ASSUME IInv, NEW b \in Registered
  PROVE  /\ b \in ToSet(feeder_park_queue) <=> taxis[b].status = "in_feeder_park"
         /\ \A t \in Terminals : b \in AtRank(t) <=>
              taxis[b].status = "called" /\ taxis[b].terminal_id = t
         /\ \A status : b \in With(status) <=> taxis[b].status = status
BY DEF IInv, QueueHoldsTheWaiting, AtRank, With

\* The server starts with nobody in the park, at a rank, away or exempt.
LEMMA InitIsAbstract == Init => Service!Init
<1> SUFFICES ASSUME Init PROVE Service!Init
  OBVIOUS
<1>1. Registered = {}
  BY DEF Init, Registered, ToSet
<1>2. terminals \in [Terminals -> Nat]
  BY RankAssumption DEF Init
<1> QED
  BY <1>1, <1>2 DEF Init, Service!Init, AtRank, With

\* A taxi that is added is off duty, as its badge was.
LEMMA AddTaxiIsStutter ==
  ASSUME IInv, NEW b \in Badges, AddTaxi(b)
  PROVE  UNCHANGED Service!vars
<1>1. Registered' = Registered \cup {b} /\ b \notin Registered
  BY AppendNewProperties DEF IInv, TypeOK, AddTaxi, RegisteredOnce, Registered
<1>2. taxis' = taxis /\ taxis[b].status = "offline"
  BY DEF AddTaxi, IInv, TypeOK, RecordsCoherent, NewTaxi
<1>3. UNCHANGED <<feeder_park_queue, terminals>>
  BY DEF AddTaxi, site
<1>4. \A t \in Terminals : AtRank(t)' = AtRank(t)
  BY <1>1, <1>2 DEF AtRank
<1>5. /\ With("on_fare")' = With("on_fare")
      /\ With("return_exempt")' = With("return_exempt")
  BY <1>1, <1>2 DEF With
<1> QED
  BY <1>3, <1>4, <1>5 DEF Service!vars

\* remove_taxi takes a driver off duty from anywhere.
LEMMA RemoveTaxiWithdraws ==
  ASSUME IInv, NEW b \in Badges, RemoveTaxi(b)
  PROVE  Service!Withdraw(b)
<1>1. Registered' = Registered \ {b}
  BY RemoveFirstProperties DEF IInv, TypeOK, RemoveTaxi, RegisteredOnce, Registered
<1>2. Registered \subseteq Badges
  BY DEF Registered, ToSet, IInv, TypeOK
<1>3. \A c \in Badges : c # b => taxis'[c] = taxis[c]
  BY DEF RemoveTaxi, IInv, TypeOK
<1>4. \A t \in Terminals : AtRank(t)' = AtRank(t) \ {b}
  BY <1>1, <1>2, <1>3 DEF AtRank
<1>5. /\ With("on_fare")' = With("on_fare") \ {b}
      /\ With("return_exempt")' = With("return_exempt") \ {b}
  BY <1>1, <1>2, <1>3 DEF With
<1>6. feeder_park_queue' = RemoveFirst(feeder_park_queue, b) /\ terminals' = terminals
  BY DEF RemoveTaxi, QueueWithout, site
<1> QED
  BY <1>4, <1>5, <1>6, SameOperators DEF Service!Withdraw

\* Opening and closing terminals changes the room at the ranks only.
LEMMA TerminalStepRefits ==
  ASSUME IInv, terminals' \in [Terminals -> Nat],
         UNCHANGED <<taxis, registered, feeder_park_queue>>
  PROVE  Service!Refit
BY DEF Service!Refit, AtRank, With, Registered

\* join_feeder_park is the arrival of a driver who was nowhere.
LEMMA JoinFeederParkArrives ==
  ASSUME IInv, NEW b \in Badges, JoinFeederPark(b)
  PROVE  Service!Arrive(b)
<1> DEFINE taxi == [taxis[b] EXCEPT !.status = "in_feeder_park"]
<1>1. /\ b \in Registered /\ taxis[b].status = "offline"
      /\ taxis' = [taxis EXCEPT ![b] = taxi] /\ registered' = registered
      /\ feeder_park_queue' = Append(feeder_park_queue, b) /\ terminals' = terminals
  BY DEF JoinFeederPark, BackOfQueue, site
<1>2. taxi.status = "in_feeder_park"
  BY DEF IInv, TypeOK, Taxi
<1> HIDE DEF taxi
<1>3. /\ b \notin ToSet(feeder_park_queue)
      /\ \A t \in Terminals : b \notin AtRank(t)
      /\ b \notin With("on_fare") /\ b \notin With("return_exempt")
  BY <1>1, Whereabouts
<1>4. \A t \in Terminals : AtRank(t)' = AtRank(t)
  <2>1. \A t \in Terminals : AtRank(t)' = AtRank(t) \ {b}
    BY <1>1, <1>2, OneTaxiMoves
  <2> QED
    BY <1>3, <2>1
<1>5. /\ With("on_fare")' = With("on_fare")
      /\ With("return_exempt")' = With("return_exempt")
  <2>1. /\ With("on_fare")' = With("on_fare") \ {b}
        /\ With("return_exempt")' = With("return_exempt") \ {b}
    BY <1>1, <1>2, OneTaxiMoves DEF TaxiStatus
  <2> QED
    BY <1>3, <2>1
<1>6. b \in Service!OffDuty
  BY <1>3, SameOperators DEF Service!OffDuty, Service!AtSomeRank
<1> QED
  BY <1>1, <1>4, <1>5, <1>6 DEF Service!Arrive

\* leave_feeder_park takes a driver off duty from the park.
LEMMA LeaveFeederParkWithdraws ==
  ASSUME IInv, NEW b \in Badges, LeaveFeederPark(b)
  PROVE  Service!Withdraw(b)
<1> DEFINE taxi == [taxis[b] EXCEPT !.status = "offline"]
<1>1. /\ b \in Registered
      /\ taxis' = [taxis EXCEPT ![b] = taxi] /\ registered' = registered
      /\ feeder_park_queue' = RemoveFirst(feeder_park_queue, b)
      /\ terminals' = terminals
  BY DEF LeaveFeederPark, QueueWithout, site
<1>2. taxi.status = "offline"
  BY DEF IInv, TypeOK, Taxi
<1> HIDE DEF taxi
<1>3. \A t \in Terminals : AtRank(t)' = AtRank(t) \ {b}
  BY <1>1, <1>2, OneTaxiMoves
<1>4. /\ With("on_fare")' = With("on_fare") \ {b}
      /\ With("return_exempt")' = With("return_exempt") \ {b}
  BY <1>1, <1>2, OneTaxiMoves DEF TaxiStatus
<1> QED
  BY <1>1, <1>3, <1>4, SameOperators DEF Service!Withdraw

\* call_next_taxi calls the driver at the front of the park to an open rank.
LEMMA CallNextTaxiCalls ==
  ASSUME IInv, NEW t \in Terminals, CallNextTaxi(t)
  PROVE  Service!Call(t)
<1> DEFINE b == Head(feeder_park_queue)
           taxi == [taxis[b] EXCEPT !.status = "called", !.terminal_id = t,
                                    !.self_checked_in = FALSE]
<1>1. /\ terminals[t] # 0 /\ feeder_park_queue # << >>
      /\ taxis' = [taxis EXCEPT ![b] = taxi] /\ registered' = registered
      /\ feeder_park_queue' = Tail(feeder_park_queue) /\ terminals' = terminals
  BY DEF CallNextTaxi, TerminalExists, site
<1>2. b \in ToSet(feeder_park_queue)
  BY <1>1, TailProperties DEF IInv, TypeOK, QueueHoldsTheWaiting
<1>3. b \in Registered /\ taxis[b].status = "in_feeder_park" /\ b \in Badges
  BY <1>2 DEF IInv, QueueHoldsTheWaiting, Registered, TypeOK, ToSet
<1>4. taxi.status = "called" /\ taxi.terminal_id = t
  BY <1>3 DEF IInv, TypeOK, Taxi
<1> HIDE DEF taxi, b
<1>5. /\ \A u \in Terminals : b \notin AtRank(u)
      /\ b \notin With("on_fare") /\ b \notin With("return_exempt")
  BY <1>3, Whereabouts
<1>6. \A u \in Terminals : AtRank(u)' = IF u = t THEN AtRank(u) \cup {b} ELSE AtRank(u)
  <2>1. \A u \in Terminals : AtRank(u)' =
          IF u = t THEN AtRank(u) \cup {b} ELSE AtRank(u) \ {b}
    BY <1>1, <1>3, <1>4, OneTaxiMoves
  <2> QED
    BY <1>5, <2>1
<1>7. /\ With("on_fare")' = With("on_fare")
      /\ With("return_exempt")' = With("return_exempt")
  <2>1. /\ With("on_fare")' = With("on_fare") \ {b}
        /\ With("return_exempt")' = With("return_exempt") \ {b}
    BY <1>1, <1>3, <1>4, OneTaxiMoves DEF TaxiStatus
  <2> QED
    BY <1>5, <2>1
<1>8. Ranks' = [Ranks EXCEPT ![t] = @ \cup {b}]
  BY <1>6 DEF Ranks
<1> QED
  BY <1>1, <1>7, <1>8 DEF Service!Call, Ranks, b

\* record_fare: a driver at an open rank leaves with a passenger.
LEMMA RecordFareHires ==
  ASSUME IInv, NEW b \in Badges, NEW a \in Agents, NEW text, NEW override,
         NEW minutes, RecordFare(b, a, text, override, minutes)
  PROVE  /\ taxis[b].terminal_id \in Terminals
         /\ Service!Hire(b, taxis[b].terminal_id)
<1>1. /\ b \in Registered /\ taxis[b].status = "called"
      /\ taxis[b].terminal_id \in Terminals
      /\ terminals[taxis[b].terminal_id] # 0
      /\ UNCHANGED <<registered, feeder_park_queue, terminals>>
  BY DEF RecordFare, WaitingAtRank, TerminalExists, site, IInv, TypeOK, Taxi
<1>2. PICK f \in FareIds :
        taxis' = [taxis EXCEPT ![b].current_fare_id = f, ![b].status = "on_fare"]
  BY DEF RecordFare
<1> DEFINE taxi == [taxis[b] EXCEPT !.current_fare_id = f, !.status = "on_fare"]
<1>3. taxis' = [taxis EXCEPT ![b] = taxi]
  BY <1>2 DEF IInv, TypeOK
<1>4. taxi.status = "on_fare"
  BY DEF IInv, TypeOK, Taxi
<1> HIDE DEF taxi
<1>5. /\ \A t \in Terminals : b \in AtRank(t) <=> t = taxis[b].terminal_id
      /\ b \notin With("return_exempt")
  BY <1>1, Whereabouts
<1>6. \A t \in Terminals : AtRank(t)' =
        IF t = taxis[b].terminal_id THEN AtRank(t) \ {b} ELSE AtRank(t)
  <2>1. \A t \in Terminals : AtRank(t)' = AtRank(t) \ {b}
    BY <1>1, <1>3, <1>4, OneTaxiMoves
  <2> QED
    BY <1>5, <2>1
<1>7. /\ With("on_fare")' = With("on_fare") \cup {b}
      /\ With("return_exempt")' = With("return_exempt")
  <2>1. /\ With("on_fare")' = With("on_fare") \cup {b}
        /\ With("return_exempt")' = With("return_exempt") \ {b}
    BY <1>1, <1>3, <1>4, OneTaxiMoves DEF TaxiStatus
  <2> QED
    BY <1>5, <2>1
<1> DEFINE t == taxis[b].terminal_id
<1>8. Ranks' = [Ranks EXCEPT ![t] = @ \ {b}]
  BY <1>6 DEF Ranks
<1>9. b \in Ranks[t]
  BY <1>1, <1>5 DEF Ranks
<1> QED
  BY <1>1, <1>7, <1>8, <1>9 DEF Service!Hire, Ranks

\* complete_fare: a driver who was away is back in the park, or exempt.
LEMMA CompleteFareFinishes ==
  ASSUME IInv, NEW b \in Badges, CompleteFare(b)
  PROVE  Service!Finish(b)
<1>1. /\ b \in Registered /\ taxis[b].status = "on_fare"
      /\ taxis[b] \in Taxi
      /\ registered' = registered /\ terminals' = terminals
  BY DEF CompleteFare, site, IInv, TypeOK
<1>2. SUFFICES ASSUME NEW taxi,
                      taxis' = [taxis EXCEPT ![b] = taxi],
                      \/ /\ taxi.status = "in_feeder_park"
                         /\ feeder_park_queue' = Append(feeder_park_queue, b)
                      \/ /\ taxi.status = "return_exempt"
                         /\ feeder_park_queue' = feeder_park_queue
               PROVE  Service!Finish(b)
  <2> DEFINE fare == fares[taxis[b].current_fare_id]
             parked == [OffFare(taxis[b]) EXCEPT !.status = "in_feeder_park",
                                                 !.exemption_type = None,
                                                 !.return_deadline = None]
             deadline == now + ReturnDeadlineTicks(traffic_level,
                                 fare.classification, fare.round_trip_minutes)
             exempted == [OffFare(taxis[b]) EXCEPT
                            !.status = "return_exempt",
                            !.exemption_type = fare.classification,
                            !.return_deadline = deadline]
  <2>1. parked.status = "in_feeder_park" /\ exempted.status = "return_exempt"
    BY <1>1 DEF OffFare, Taxi
  <2>2. \/ /\ taxis' = [taxis EXCEPT ![b] = parked]
           /\ feeder_park_queue' = Append(feeder_park_queue, b)
        \/ /\ taxis' = [taxis EXCEPT ![b] = exempted]
           /\ feeder_park_queue' = feeder_park_queue
    BY DEF CompleteFare, BackOfQueue
  <2> HIDE DEF parked, exempted
  <2> QED
    BY <1>2, <2>1, <2>2
<1>3. /\ \A t \in Terminals : b \notin AtRank(t)
      /\ b \in With("on_fare") /\ b \notin With("return_exempt")
  BY <1>1, Whereabouts
<1>4. \A t \in Terminals : AtRank(t)' = AtRank(t)
  <2>1. \A t \in Terminals : AtRank(t)' = AtRank(t) \ {b}
    BY <1>1, <1>2, OneTaxiMoves
  <2> QED
    BY <1>3, <2>1
<1>5. With("on_fare")' = With("on_fare") \ {b}
  BY <1>1, <1>2, OneTaxiMoves DEF TaxiStatus
<1>6. CASE taxi.status = "in_feeder_park"
  <2>1. With("return_exempt")' = With("return_exempt") \ {b}
    BY <1>1, <1>2, <1>6, OneTaxiMoves DEF TaxiStatus
  <2>2. With("return_exempt")' = With("return_exempt")
    BY <1>3, <2>1
  <2> QED
    BY <1>1, <1>2, <1>3, <1>4, <1>5, <1>6, <2>2 DEF Service!Finish
<1>7. CASE taxi.status = "return_exempt"
  <2>1. With("return_exempt")' = With("return_exempt") \cup {b}
    BY <1>1, <1>2, <1>7, OneTaxiMoves DEF TaxiStatus
  <2> QED
    BY <1>1, <1>2, <1>3, <1>4, <1>5, <1>7, <2>1 DEF Service!Finish
<1> QED
  BY <1>2, <1>6, <1>7

\* return_to_terminal checks one driver in at a rank with room, or announces it.
LEMMA ReturnToTerminalChecksIn ==
  ASSUME IInv, NEW b \in Badges, NEW t \in Terminals, NEW eta \in Etas,
         ReturnToTerminal(b, t, eta)
  PROVE  AbstractStep
<1>1. /\ b \in Registered /\ taxis[b].status = "return_exempt"
      /\ taxis[b] \in Taxi /\ HasRoom(t)
      /\ UNCHANGED <<registered, feeder_park_queue, terminals>>
  BY DEF ReturnToTerminal, site, IInv, TypeOK
<1>2. /\ \A u \in Terminals : b \notin AtRank(u)
      /\ b \notin With("on_fare") /\ b \in With("return_exempt")
  BY <1>1, Whereabouts
<1>3. CASE eta <= Lead
  <2> DEFINE taxi == AddTaxiToTerminal(taxis[b], t)
  <2>1. taxis' = [taxis EXCEPT ![b] = taxi]
    BY <1>3 DEF ReturnToTerminal
  <2>2. taxi.status = "called" /\ taxi.terminal_id = t
    BY <1>1, AddTaxiToTerminalProperties
  <2> HIDE DEF taxi
  <2>3. \A u \in Terminals : AtRank(u)' = IF u = t THEN AtRank(u) \cup {b} ELSE AtRank(u)
    <3>1. \A u \in Terminals : AtRank(u)' =
            IF u = t THEN AtRank(u) \cup {b} ELSE AtRank(u) \ {b}
      BY <1>1, <2>1, <2>2, OneTaxiMoves
    <3> QED
      BY <1>2, <3>1
  <2>4. With("on_fare")' = With("on_fare")
    <3>1. With("on_fare")' = With("on_fare") \ {b}
      BY <1>1, <2>1, <2>2, OneTaxiMoves DEF TaxiStatus
    <3> QED
      BY <1>2, <3>1
  <2>5. With("return_exempt")' = With("return_exempt") \ {b}
    BY <1>1, <2>1, <2>2, OneTaxiMoves DEF TaxiStatus
  <2> DEFINE at == [d \in {b} |-> t]
  <2>6. Ranks' = [r \in Terminals |-> Ranks[r] \cup {d \in {b} : at[d] = r}]
    BY <2>3 DEF Ranks
  <2>7. Cardinality(AtRank(t)') <= terminals[t]
    <3>1. IsFiniteSet(AtRank(t))
      BY RankIsFinite
    <3>2. Cardinality(AtRank(t) \cup {b}) = Occupancy(t) + 1
      BY <1>2, <3>1, FS_AddElement DEF Occupancy
    <3>3. Occupancy(t) \in Nat /\ terminals[t] \in Nat
      BY RankIsFinite DEF IInv, TypeOK
    <3> QED
      BY <1>1, <2>3, <3>2, <3>3 DEF HasRoom
  <2>8. Service!CheckIn({b}, at)
    BY <1>1, <2>4, <2>5, <2>6, <2>7, SameOperators DEF Service!CheckIn, Ranks
  <2>9. at \in [{b} -> Terminals] /\ {b} \in SUBSET With("return_exempt")
    BY <1>2
  <2> QED
    BY <2>8, <2>9 DEF AbstractStep, Service!Next
<1>4. CASE ~(eta <= Lead)
  <2> DEFINE taxi == [taxis[b] EXCEPT
                        !.pending_return_terminal_id = t,
                        !.expected_arrival_at = now + eta * MinuteTicks]
  <2>1. taxis' = [taxis EXCEPT ![b] = taxi]
    BY <1>4 DEF ReturnToTerminal, IInv, TypeOK
  <2>2. taxi.status = "return_exempt"
    BY <1>1 DEF Taxi
  <2> HIDE DEF taxi
  <2>3. /\ \A u \in Terminals : AtRank(u)' = AtRank(u) \ {b}
        /\ With("on_fare")' = With("on_fare") \ {b}
        /\ With("return_exempt")' = With("return_exempt") \cup {b}
    BY <1>1, <2>1, <2>2, OneTaxiMoves DEF TaxiStatus
  <2>4. /\ \A u \in Terminals : AtRank(u)' = AtRank(u)
        /\ With("on_fare")' = With("on_fare")
        /\ With("return_exempt")' = With("return_exempt")
    BY <1>2, <2>3
  <2> QED
    BY <1>1, <2>4 DEF AbstractStep, Service!vars
<1> QED
  BY <1>3, <1>4

\* promote_due_returns checks in all it adds in one step, within the room.
LEMMA PromoteDueReturnsChecksIn ==
  ASSUME IInv, PromoteDueReturns
  PROVE  AbstractStep
<1> DEFINE drivers == {b \in Badges : Promoted(b)}
           at == [b \in drivers |-> taxis[b].pending_return_terminal_id]
<1>1. /\ Registered' = Registered /\ Registered \subseteq Badges
      /\ \A b \in Badges : taxis'[b] = Swept(b)
      /\ UNCHANGED <<feeder_park_queue, terminals>>
  BY DEF PromoteDueReturns, Registered, ToSet, site, IInv, TypeOK
<1>2. \A b \in drivers : /\ b \in Registered
                          /\ taxis[b].status = "return_exempt"
                          /\ taxis[b].pending_return_terminal_id \in Terminals
                          /\ taxis'[b].status = "called"
  BY <1>1, SweptProperties, AddTaxiToTerminalProperties DEF IInv, TypeOK
<1>3. \A b \in Badges \ drivers : taxis'[b].status = taxis[b].status
  BY <1>1, SweptProperties
<1>4. at \in [drivers -> Terminals]
  BY <1>2
<1>5. drivers \in SUBSET With("return_exempt")
  BY <1>2 DEF With
<1>6. /\ With("return_exempt")' = With("return_exempt") \ drivers
      /\ With("on_fare")' = With("on_fare")
  BY <1>1, <1>2, <1>3 DEF With
<1>7. \A t \in Terminals : AtRank(t)' = AtRank(t) \cup {d \in drivers : at[d] = t}
  <2>1. \A t \in Terminals : Added(t) = {d \in drivers : at[d] = t}
    BY DEF Added
  <2> QED
    BY <2>1, OccupancyAfterPass
<1>8. Ranks' = [r \in Terminals |-> Ranks[r] \cup {d \in drivers : at[d] = r}]
  BY <1>7 DEF Ranks
<1>9. ASSUME NEW d \in drivers
      PROVE  /\ at[d] \in Terminals
             /\ Cardinality(Ranks'[at[d]]) <= terminals[at[d]]
  <2>1. PICK t \in Terminals : t = at[d]
    BY <1>4
  <2>2. d \in Added(t)
    BY <2>1 DEF Added
  <2>3. /\ Cardinality(Added(t)) \in Nat
        /\ Occupancy(t) + Cardinality(Added(t)) <= terminals[t]
    BY <2>2, AddedFit
  <2>4. Cardinality(AtRank(t)') = Occupancy(t) + Cardinality(Added(t))
    BY OccupancyAfterPass DEF Occupancy
  <2> QED
    BY <2>1, <2>3, <2>4 DEF Ranks
<1> HIDE DEF drivers, at
<1>10. Service!CheckIn(drivers, at)
  BY <1>1, <1>6, <1>8, <1>9, SameOperators DEF Service!CheckIn, Ranks
<1> QED
  BY <1>4, <1>5, <1>10 DEF AbstractStep, Service!Next

\* Every operation is one step of the abstract service, or none.
LEMMA NextIsAbstract ==
  ASSUME IInv, [Next]_vars
  PROVE  AbstractStep
<1>1. ASSUME NEW b \in Badges, AddTaxi(b) \/ RemoveTaxi(b)
      PROVE  AbstractStep
  BY <1>1, AddTaxiIsStutter, RemoveTaxiWithdraws DEF AbstractStep, Service!Next
<1>2. ASSUME NEW a \in Agents, NEW t \in Terminals \cup {None}, AddRankAgent(a, t)
      PROVE  AbstractStep
  BY <1>2, StutterStep DEF AddRankAgent, AbstractStep
<1>3. ASSUME NEW a \in Agents, RemoveRankAgent(a)
      PROVE  AbstractStep
  BY <1>3, StutterStep DEF RemoveRankAgent, AbstractStep
<1>4. ASSUME NEW t \in Terminals, NEW c \in Capacities \cup {None}, AddTerminal(t, c)
      PROVE  AbstractStep
  <2>1. terminals' \in [Terminals -> Nat]
    BY <1>4, RankAssumption DEF AddTerminal, IInv, TypeOK
  <2> QED
    BY <1>4, <2>1, TerminalStepRefits DEF AddTerminal, AbstractStep, Service!Next
<1>5. ASSUME NEW t \in Terminals, RemoveTerminal(t)
      PROVE  AbstractStep
  <2>1. terminals' \in [Terminals -> Nat]
    BY <1>5 DEF RemoveTerminal, IInv, TypeOK
  <2> QED
    BY <1>5, <2>1, TerminalStepRefits DEF RemoveTerminal, AbstractStep, Service!Next
<1>6. ASSUME NEW level \in TrafficLevels, SetTrafficLevel(level)
      PROVE  AbstractStep
  BY <1>6, StutterStep DEF SetTrafficLevel, AbstractStep
<1>7. CASE AdminStep
  BY <1>1, <1>2, <1>3, <1>4, <1>5, <1>6, <1>7 DEF AdminStep
<1>8. CASE DriverStep
  <2>1. ASSUME NEW b \in Badges, JoinFeederPark(b) PROVE AbstractStep
    BY <2>1, JoinFeederParkArrives DEF AbstractStep, Service!Next
  <2>2. ASSUME NEW b \in Badges, LeaveFeederPark(b) PROVE AbstractStep
    BY <2>2, LeaveFeederParkWithdraws DEF AbstractStep, Service!Next
  <2>3. ASSUME NEW b \in Badges, CompleteFare(b) PROVE AbstractStep
    BY <2>3, CompleteFareFinishes DEF AbstractStep, Service!Next
  <2> QED
    BY <1>8, <2>1, <2>2, <2>3, ReturnToTerminalChecksIn DEF DriverStep
<1>9. CASE RankAgentStep
  <2>1. ASSUME NEW t \in Terminals, CallNextTaxi(t) PROVE AbstractStep
    BY <2>1, CallNextTaxiCalls DEF AbstractStep, Service!Next
  <2>2. ASSUME NEW b \in Badges, NEW a \in Agents, NEW text \in Texts,
               NEW override \in FareClassification \cup {None},
               NEW minutes \in RoundTrips \cup {None},
               RecordFare(b, a, text, override, minutes)
        PROVE  AbstractStep
    BY <2>2, RecordFareHires DEF AbstractStep, Service!Next
  <2> QED
    BY <1>9, <2>1, <2>2 DEF RankAgentStep
<1>10. CASE Tick \/ UNCHANGED vars
  BY <1>10, StutterStep DEF Tick, vars, site, AbstractStep
<1> QED
  BY <1>7, <1>8, <1>9, <1>10, PromoteDueReturnsChecksIn DEF Next

\* Whatever the drivers, agents and administrators do, what the server makes of it
\* is a behaviour of the abstract service.
THEOREM ServiceIsImplemented == Spec => ImplementsService
<1>1. IInv /\ [Next]_vars => [Service!Next]_(Service!vars)
  BY NextIsAbstract DEF AbstractStep
<1> QED
  BY <1>1, InitIsAbstract, Invariance, PTL DEF Spec, ImplementsService, Service!Spec
=============================================================================
