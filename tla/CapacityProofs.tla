--------------------------- MODULE CapacityProofs ---------------------------
(***************************************************************************)
(* One pass of promote_due_returns, for every number of taxis and every    *)
(* capacity.  However many drivers are due, it never overfills a terminal: *)
(* the last taxi it adds to one found a place left after all the others.   *)
(* It leaves nobody behind who could have been added, and its loop ends    *)
(* where the closed form of TaxiRank says.                                 *)
(***************************************************************************)
EXTENDS TaxiRankProofs, PromotionLoop, FiniteSetTheorems

\* Of some registered taxis, one was registered after all the others.
LEMMA LastRegistered ==
  ASSUME IInv, NEW P, P \subseteq Registered, P # {}
  PROVE  \E x \in P : \A c \in P : c # x => RegisteredBefore(c, x)
<1> DEFINE n == Len(registered)
           T == {m \in Nat : \E i \in 1..n : registered[i] \in P /\ m = n - i}
<1>1. registered \in Seq(Badges) /\ n \in Nat /\ DOMAIN registered = 1..n
  BY DEF IInv, TypeOK
<1>2. \A c \in P : \E i \in 1..n : registered[i] = c
  BY <1>1 DEF Registered, ToSet
<1> HIDE DEF n
<1>3. T \subseteq Nat /\ T # {}
  <2>1. PICK c : c \in P
    OBVIOUS
  <2>2. PICK i \in 1..n : registered[i] = c
    BY <1>2, <2>1
  <2>3. n - i \in T
    BY <1>1, <2>1, <2>2
  <2> QED
    BY <2>3
<1>4. PICK m \in T : \A y \in T : m <= y
  <2> HIDE DEF T
  <2> QED
    BY <1>3, LeastNatural
<1>5. PICK i \in 1..n : registered[i] \in P /\ m = n - i
  BY <1>4
<1>6. ASSUME NEW c \in P, c # registered[i]
      PROVE  RegisteredBefore(c, registered[i])
  <2>1. PICK j \in 1..n : registered[j] = c
    BY <1>2
  <2>2. n - j \in T
    BY <1>1, <2>1
  <2>3. n - i <= n - j
    BY <1>4, <1>5, <2>2
  <2>4. j < i
    BY <1>1, <1>6, <2>1, <2>3
  <2> QED
    BY <1>1, <2>1, <2>4 DEF RegisteredBefore, Before
<1> QED
  BY <1>5, <1>6

\* The number of taxis at a rank is a number.
LEMMA RankIsFinite ==
  ASSUME IInv, NEW t
  PROVE  /\ AtRank(t) \subseteq Badges
         /\ IsFiniteSet(AtRank(t))
         /\ Occupancy(t) \in Nat
<1>1. AtRank(t) \subseteq Badges
  BY DEF AtRank, Registered, ToSet, IInv, TypeOK
<1>2. IsFiniteSet(AtRank(t))
  BY <1>1, RankAssumption, FS_Subset
<1> QED
  BY <1>1, <1>2, FS_CardinalityType DEF Occupancy

\* The taxis a pass adds to terminal t.
Added(t) == {b \in Badges : Promoted(b) /\ taxis[b].pending_return_terminal_id = t}

\* They and those already there are no more than the terminal holds.
LEMMA AddedFit ==
  ASSUME IInv, NEW t \in Terminals, Added(t) # {}
  PROVE  /\ IsFiniteSet(Added(t))
         /\ Cardinality(Added(t)) \in Nat
         /\ Occupancy(t) + Cardinality(Added(t)) <= terminals[t]
<1>1. IsFiniteSet(Added(t)) /\ Cardinality(Added(t)) \in Nat
  BY RankAssumption, FS_Subset, FS_CardinalityType DEF Added
<1>2. \A b \in Added(t) : Due(b) /\ b \in Registered
  BY DEF Added, Promoted, Due
<1>3. PICK last \in Added(t) :
        \A c \in Added(t) : c # last => RegisteredBefore(c, last)
  BY <1>2, LastRegistered
<1>4. Added(t) \ {last} \subseteq DueBefore(last)
  BY <1>2, <1>3 DEF DueBefore, Added
<1>5. IsFiniteSet(DueBefore(last)) /\ Cardinality(DueBefore(last)) \in Nat
  BY RankAssumption, FS_Subset, FS_CardinalityType DEF DueBefore
<1>6. Cardinality(Added(t) \ {last}) = Cardinality(Added(t)) - 1
  BY <1>1, <1>3, FS_RemoveElement
<1>7. Cardinality(Added(t) \ {last}) <= Cardinality(DueBefore(last))
  BY <1>4, <1>5, FS_Subset
<1>8. Occupancy(t) + Cardinality(DueBefore(last)) < terminals[t]
  BY <1>3 DEF Added, Promoted
<1>9. Occupancy(t) \in Nat /\ terminals[t] \in Nat
  BY RankIsFinite DEF IInv, TypeOK
<1> QED
  BY <1>1, <1>5, <1>6, <1>7, <1>8, <1>9

\* A taxi going from exempt to called at t leaves at t no more than it holds.
CapacityStep(b, t) ==
  /\ taxis[b].status = "return_exempt"
  /\ taxis'[b].status = "called"
  /\ taxis'[b].terminal_id = t
  => Occupancy(t)' <= terminals[t]

\* promote_due_returns adds at most what fits.
LEMMA PassRespectsCapacity ==
  ASSUME IInv, PromoteDueReturns, NEW b \in Badges, NEW t \in Terminals
  PROVE  CapacityStep(b, t)
<1> SUFFICES ASSUME taxis[b].status = "return_exempt",
                    taxis'[b].status = "called",
                    taxis'[b].terminal_id = t
             PROVE  Occupancy(t)' <= terminals[t]
  BY DEF CapacityStep
<1>1. /\ \A c \in Badges : taxis'[c] = Swept(c)
      /\ Registered' = Registered
  BY DEF PromoteDueReturns, Registered
<1>2. Registered \subseteq Badges
  BY DEF Registered, ToSet, IInv, TypeOK
<1>3. \A c \in Badges : Promoted(c) =>
        /\ taxis'[c].status = "called"
        /\ taxis'[c].terminal_id = taxis[c].pending_return_terminal_id
  BY <1>1, SweptProperties, AddTaxiToTerminalProperties DEF IInv, TypeOK
<1>4. \A c \in Badges : ~Promoted(c) =>
        /\ taxis'[c].status = taxis[c].status
        /\ taxis'[c].terminal_id = taxis[c].terminal_id
  BY <1>1, SweptProperties
<1>5. b \in Added(t)
  BY <1>3, <1>4 DEF Added
<1>6. AtRank(t)' \subseteq AtRank(t) \cup Added(t)
  BY <1>1, <1>2, <1>3, <1>4 DEF AtRank, Added
<1>7. /\ IsFiniteSet(Added(t))
      /\ Cardinality(Added(t)) \in Nat
      /\ Occupancy(t) + Cardinality(Added(t)) <= terminals[t]
  BY <1>5, AddedFit
<1>8. IsFiniteSet(AtRank(t)) /\ Occupancy(t) \in Nat
  BY RankIsFinite
<1>9. /\ IsFiniteSet(AtRank(t) \cup Added(t))
      /\ Cardinality(AtRank(t) \cup Added(t)) <= Occupancy(t) + Cardinality(Added(t))
  <2>1. AtRank(t) \cap Added(t) \in SUBSET AtRank(t)
    OBVIOUS
  <2>2. Cardinality(AtRank(t) \cap Added(t)) \in Nat
    BY <1>8, <2>1, FS_Subset, FS_CardinalityType
  <2>3. /\ IsFiniteSet(AtRank(t) \cup Added(t))
        /\ Cardinality(AtRank(t) \cup Added(t)) =
             Cardinality(AtRank(t)) + Cardinality(Added(t))
               - Cardinality(AtRank(t) \cap Added(t))
    BY <1>7, <1>8, FS_Union
  <2> QED
    BY <1>7, <1>8, <2>2, <2>3 DEF Occupancy
<1>10. /\ Cardinality(AtRank(t)') <= Cardinality(AtRank(t) \cup Added(t))
       /\ Cardinality(AtRank(t)') \in Nat
       /\ Cardinality(AtRank(t) \cup Added(t)) \in Nat
  BY <1>6, <1>9, FS_Subset, FS_CardinalityType
<1>11. Occupancy(t)' = Cardinality(AtRank(t)')
  BY DEF Occupancy
<1>12. terminals[t] \in Nat
  BY DEF IInv, TypeOK
<1> QED
  BY <1>7, <1>8, <1>9, <1>10, <1>11, <1>12

\* return_to_terminal adds one taxi where it found a free place.
LEMMA CheckInRespectsCapacity ==
  ASSUME IInv, NEW c \in Badges, NEW u \in Terminals, NEW eta \in Nat,
         ReturnToTerminal(c, u, eta),
         NEW b \in Badges, NEW t \in Terminals
  PROVE  CapacityStep(b, t)
<1> SUFFICES ASSUME taxis[b].status = "return_exempt",
                    taxis'[b].status = "called",
                    taxis'[b].terminal_id = t
             PROVE  Occupancy(t)' <= terminals[t]
  BY DEF CapacityStep
<1>1. taxis \in [Badges -> Taxi] /\ Registered \subseteq Badges
  BY DEF IInv, TypeOK, Registered, ToSet
<1>2. Registered' = Registered /\ HasRoom(u)
  BY DEF ReturnToTerminal, Registered
<1>3. b = c /\ eta <= Lead
  BY <1>1 DEF ReturnToTerminal, Taxi
<1>4. taxis' = [taxis EXCEPT ![c] = AddTaxiToTerminal(taxis[c], u)]
  BY <1>3 DEF ReturnToTerminal
<1>5. t = u
  BY <1>1, <1>3, <1>4, AddTaxiToTerminalProperties
<1>6. AtRank(t)' \subseteq AtRank(t) \cup {c}
  BY <1>1, <1>2, <1>4 DEF AtRank
<1>7. IsFiniteSet(AtRank(t)) /\ Occupancy(t) \in Nat
  BY RankIsFinite
<1>8. /\ IsFiniteSet(AtRank(t) \cup {c})
      /\ Cardinality(AtRank(t) \cup {c}) <= Occupancy(t) + 1
  <2>1. Cardinality(AtRank(t) \cup {c}) =
          IF c \in AtRank(t) THEN Cardinality(AtRank(t))
                            ELSE Cardinality(AtRank(t)) + 1
    BY <1>7, FS_AddElement
  <2>2. IsFiniteSet(AtRank(t) \cup {c})
    BY <1>7, FS_AddElement
  <2> QED
    BY <1>7, <2>1, <2>2 DEF Occupancy
<1>9. /\ Cardinality(AtRank(t)') <= Cardinality(AtRank(t) \cup {c})
      /\ Cardinality(AtRank(t)') \in Nat
      /\ Cardinality(AtRank(t) \cup {c}) \in Nat
  BY <1>6, <1>8, FS_Subset, FS_CardinalityType
<1>10. Occupancy(t) < terminals[t] /\ terminals[t] \in Nat
  BY <1>2, <1>5 DEF HasRoom, IInv, TypeOK
<1>11. Occupancy(t)' = Cardinality(AtRank(t)')
  BY DEF Occupancy
<1> QED
  BY <1>7, <1>8, <1>9, <1>10, <1>11

\* No other operation takes a taxi from exempt to called.
LEMMA NextRespectsCapacity ==
  ASSUME IInv, [Next]_vars, NEW b \in Badges, NEW t \in Terminals
  PROVE  CapacityStep(b, t)
<1>1. taxis \in [Badges -> Taxi]
  BY DEF IInv, TypeOK
<1>2. CASE taxis' = taxis
  BY <1>2 DEF CapacityStep
<1>3. ASSUME NEW c \in Badges, AddTaxi(c) \/ RemoveTaxi(c)
      PROVE  CapacityStep(b, t)
  BY <1>1, <1>3 DEF AddTaxi, RemoveTaxi, NewTaxi, CapacityStep
<1>4. CASE AdminStep
  BY <1>2, <1>3, <1>4 DEF AdminStep, AddRankAgent, RemoveRankAgent, AddTerminal,
                          RemoveTerminal, SetTrafficLevel
<1>5. ASSUME NEW c \in Badges, JoinFeederPark(c) \/ LeaveFeederPark(c)
      PROVE  CapacityStep(b, t)
  BY <1>1, <1>5 DEF JoinFeederPark, LeaveFeederPark, CapacityStep, Taxi
<1>6. ASSUME NEW c \in Badges, CompleteFare(c)
      PROVE  CapacityStep(b, t)
  <2>1. taxis[c].status = "on_fare"
    BY <1>6 DEF CompleteFare
  <2>2. b # c => taxis'[b] = taxis[b]
    BY <1>1, <1>6 DEF CompleteFare
  <2> QED
    BY <2>1, <2>2 DEF CapacityStep
<1>7. CASE DriverStep
  <2>1. Etas \subseteq Nat
    BY RankAssumption
  <2> QED
    BY <1>5, <1>6, <1>7, <2>1, CheckInRespectsCapacity DEF DriverStep
<1>8. ASSUME NEW u \in Terminals, CallNextTaxi(u)
      PROVE  CapacityStep(b, t)
  <2> DEFINE front == Head(feeder_park_queue)
  <2>1. front \in ToSet(feeder_park_queue)
    BY <1>8, TailProperties DEF CallNextTaxi, IInv, TypeOK, QueueHoldsTheWaiting
  <2>2. taxis[front].status = "in_feeder_park"
    BY <2>1 DEF IInv, QueueHoldsTheWaiting
  <2>3. b # front => taxis'[b] = taxis[b]
    BY <1>1, <1>8 DEF CallNextTaxi
  <2> QED
    BY <2>2, <2>3 DEF CapacityStep
<1>9. ASSUME NEW c \in Badges, NEW a \in Agents, NEW text \in Texts,
             NEW override \in FareClassification \cup {None},
             NEW minutes \in RoundTrips \cup {None},
             RecordFare(c, a, text, override, minutes)
      PROVE  CapacityStep(b, t)
  <2>1. taxis[c].status = "called"
    BY <1>9 DEF RecordFare, WaitingAtRank
  <2>2. b # c => taxis'[b] = taxis[b]
    BY <1>1, <1>9 DEF RecordFare
  <2> QED
    BY <2>1, <2>2 DEF CapacityStep
<1>10. CASE RankAgentStep
  BY <1>8, <1>9, <1>10 DEF RankAgentStep
<1> QED
  BY <1>2, <1>4, <1>7, <1>10, PassRespectsCapacity DEF Next, Tick, vars

\* No step by which drivers come back from an exemption leaves a terminal with
\* more taxis than its capacity.
THEOREM ReturnsFit == Spec => ReturnsRespectCapacity
<1>1. IInv /\ [Next]_vars =>
        \A b \in Badges, t \in Terminals : CapacityStep(b, t)
  BY NextRespectsCapacity
<1>2. IInv /\ [Next]_vars =>
        [\A b \in Badges, t \in Terminals :
           /\ taxis[b].status = "return_exempt"
           /\ taxis'[b].status = "called"
           /\ taxis'[b].terminal_id = t
           => Occupancy(t)' <= terminals[t]]_vars
  BY <1>1 DEF CapacityStep
<1> QED
  BY <1>2, Invariance, PTL DEF Spec, ReturnsRespectCapacity

----------------------------------------------------------------------------
(***************************************************************************)
(* A pass leaves a due driver behind only at a terminal that is open and   *)
(* full afterwards.  The argument is about the first driver the pass left  *)
(* behind for the terminal: all the due ones before it were added.         *)
(***************************************************************************)

\* Of some registered taxis, one was registered before all the others.
LEMMA FirstRegistered ==
  ASSUME IInv, NEW P, P \subseteq Registered, P # {}
  PROVE  \E x \in P : \A c \in P : c # x => RegisteredBefore(x, c)
<1> DEFINE T == {i \in 1..Len(registered) : registered[i] \in P}
<1>1. registered \in Seq(Badges) /\ DOMAIN registered = 1..Len(registered)
  BY DEF IInv, TypeOK
<1>2. \A c \in P : \E i \in T : registered[i] = c
  BY <1>1 DEF Registered, ToSet
<1>3. PICK i \in T : \A j \in T : i <= j
  <2>1. T \subseteq Nat /\ T # {}
    BY <1>1, <1>2
  <2> HIDE DEF T
  <2> QED
    BY <2>1, LeastNatural
<1>4. ASSUME NEW c \in P, c # registered[i]
      PROVE  RegisteredBefore(registered[i], c)
  <2>1. PICK j \in T : registered[j] = c
    BY <1>2
  <2>2. i < j
    BY <1>1, <1>3, <1>4, <2>1
  <2> QED
    BY <1>1, <2>1, <2>2 DEF RegisteredBefore, Before
<1> QED
  BY <1>3, <1>4

\* No taxi was registered both before and after another.
LEMMA RegistrationIsOrdered ==
  ASSUME IInv, NEW b, NEW c, RegisteredBefore(b, c)
  PROVE  b # c /\ ~RegisteredBefore(c, b)
<1>1. PICK i, j \in DOMAIN registered : i < j /\ registered[i] = b /\ registered[j] = c
  BY DEF RegisteredBefore, Before
<1>2. IsInjective(registered) /\ registered \in Seq(Badges)
  BY DEF IInv, RegisteredOnce, TypeOK
<1>3. b # c
  BY <1>1, <1>2 DEF IsInjective
<1>4. ASSUME RegisteredBefore(c, b) PROVE FALSE
  <2>1. PICK k, l \in DOMAIN registered :
          k < l /\ registered[k] = c /\ registered[l] = b
    BY <1>4 DEF RegisteredBefore, Before
  <2>2. k = j /\ l = i
    BY <1>1, <1>2, <2>1 DEF IsInjective
  <2> QED
    BY <1>1, <1>2, <2>1, <2>2
<1> QED
  BY <1>3, <1>4

\* Registration is an order.
LEMMA RegistrationIsTransitive ==
  ASSUME IInv, NEW b, NEW c, NEW d, RegisteredBefore(b, c), RegisteredBefore(c, d)
  PROVE  RegisteredBefore(b, d)
<1>1. /\ registered \in Seq(Badges)
      /\ \A i, j \in DOMAIN registered : registered[i] = registered[j] => i = j
  BY DEF IInv, RegisteredOnce, TypeOK, IsInjective
<1>2. PICK i, j \in DOMAIN registered : i < j /\ registered[i] = b /\ registered[j] = c
  BY DEF RegisteredBefore, Before
<1>3. PICK k, l \in DOMAIN registered : k < l /\ registered[k] = c /\ registered[l] = d
  BY DEF RegisteredBefore, Before
<1>4. j = k /\ DOMAIN registered = 1..Len(registered)
  BY <1>1, <1>2, <1>3
<1>5. i < l
  BY <1>2, <1>3, <1>4
<1> QED
  BY <1>2, <1>3, <1>5 DEF RegisteredBefore, Before

\* The due drivers of terminal t whom the pass does not add.
LeftBehind(t) ==
  {b \in Registered : /\ Due(b)
                      /\ ~Promoted(b)
                      /\ taxis[b].pending_return_terminal_id = t}

\* If there is one, those the pass adds fill the terminal.
LEMMA LeftBehindMeansFull ==
  ASSUME IInv, NEW t \in Terminals, LeftBehind(t) # {}
  PROVE  /\ IsFiniteSet(Added(t))
         /\ Cardinality(Added(t)) \in Nat
         /\ Occupancy(t) + Cardinality(Added(t)) >= terminals[t]
<1>1. IsFiniteSet(Added(t)) /\ Cardinality(Added(t)) \in Nat
  BY RankAssumption, FS_Subset, FS_CardinalityType DEF Added
<1>2. PICK first \in LeftBehind(t) :
        \A c \in LeftBehind(t) : c # first => RegisteredBefore(first, c)
  BY FirstRegistered DEF LeftBehind
<1>3. DueBefore(first) \subseteq Added(t)
  <2> SUFFICES ASSUME NEW c \in DueBefore(first), ~Promoted(c) PROVE FALSE
    BY <1>2 DEF DueBefore, Added, LeftBehind
  <2>1. c \in LeftBehind(t) /\ RegisteredBefore(c, first)
    BY <1>2 DEF DueBefore, LeftBehind, Due
  <2>2. c # first /\ ~RegisteredBefore(first, c)
    BY <2>1, RegistrationIsOrdered
  <2> QED
    BY <1>2, <2>1, <2>2
<1>4. Cardinality(DueBefore(first)) <= Cardinality(Added(t))
  BY <1>1, <1>3, FS_Subset
<1>5. Cardinality(DueBefore(first)) \in Nat
  BY <1>1, <1>3, FS_Subset, FS_CardinalityType
<1>6. Occupancy(t) \in Nat /\ terminals[t] \in Nat
  BY RankIsFinite DEF IInv, TypeOK
<1>7. ~(Occupancy(t) + Cardinality(DueBefore(first)) < terminals[t])
  BY <1>2 DEF LeftBehind, Promoted
<1> QED
  BY <1>1, <1>4, <1>5, <1>6, <1>7

\* After the pass the terminal holds those it held and those added.
LEMMA OccupancyAfterPass ==
  ASSUME IInv, PromoteDueReturns, NEW t \in Terminals
  PROVE  /\ AtRank(t)' = AtRank(t) \cup Added(t)
         /\ AtRank(t) \cap Added(t) = {}
         /\ Occupancy(t)' = Occupancy(t) + Cardinality(Added(t))
<1>1. /\ \A c \in Badges : taxis'[c] = Swept(c)
      /\ Registered' = Registered
  BY DEF PromoteDueReturns, Registered
<1>2. Registered \subseteq Badges
  BY DEF Registered, ToSet, IInv, TypeOK
<1>3. \A c \in Badges : Promoted(c) =>
        /\ c \in Registered
        /\ taxis[c].status = "return_exempt"
        /\ taxis'[c].status = "called"
        /\ taxis'[c].terminal_id = taxis[c].pending_return_terminal_id
  BY <1>1, SweptProperties, AddTaxiToTerminalProperties DEF IInv, TypeOK
<1>4. \A c \in Badges : ~Promoted(c) =>
        /\ taxis'[c].status = taxis[c].status
        /\ taxis'[c].terminal_id = taxis[c].terminal_id
  BY <1>1, SweptProperties
<1>5. AtRank(t)' = AtRank(t) \cup Added(t)
  BY <1>1, <1>2, <1>3, <1>4 DEF AtRank, Added
<1>6. AtRank(t) \cap Added(t) = {}
  BY <1>3 DEF AtRank, Added
<1>7. IsFiniteSet(AtRank(t)) /\ IsFiniteSet(Added(t))
  BY RankIsFinite, RankAssumption, FS_Subset DEF Added
<1>8. Cardinality(AtRank(t) \cup Added(t)) =
        Cardinality(AtRank(t)) + Cardinality(Added(t)) - Cardinality({})
  BY <1>6, <1>7, FS_Union
<1>9. Cardinality(AtRank(t)) \in Nat /\ Cardinality(Added(t)) \in Nat
  BY <1>7, FS_CardinalityType
<1> QED
  BY <1>5, <1>6, <1>8, <1>9, FS_EmptySet DEF Occupancy

\* A driver still due after a pass found the chosen terminal open, and full.
LEMMA PassLeavesNobodyBehind ==
  ASSUME IInv, PromoteDueReturns, NEW b \in Badges, Due(b)'
  PROVE  /\ taxis'[b] = taxis[b]
         /\ \E t \in Terminals : /\ taxis[b].pending_return_terminal_id = t
                               /\ TerminalExists(t)
                               /\ Occupancy(t)' >= terminals[t]
<1>1. taxis'[b] = Swept(b) /\ Registered' = Registered /\ now' = now
  BY DEF PromoteDueReturns, Registered, site
<1>2. taxis[b] \in Taxi
  BY DEF IInv, TypeOK
<1>3. ~Promoted(b)
  BY <1>1, <1>2, SweptProperties, AddTaxiToTerminalProperties DEF Due
<1>4. Swept(b) = taxis[b]
  BY <1>1, <1>3, SweptProperties DEF Due
<1>5. Due(b)
  BY <1>1, <1>4 DEF Due
<1>6. PICK t \in Terminals : taxis[b].pending_return_terminal_id = t
  BY <1>2, <1>5 DEF Due, Taxi
<1>7. TerminalExists(t)
  <2>1. Stranded(b) => Swept(b).pending_return_terminal_id = None
    BY <1>2, <1>3 DEF Swept, Taxi
  <2> QED
    BY <1>4, <1>5, <1>6, <2>1 DEF Stranded, Due
<1>8. b \in LeftBehind(t)
  BY <1>3, <1>5, <1>6 DEF LeftBehind, Due
<1>9. Occupancy(t) \in Nat /\ terminals[t] \in Nat
  BY RankIsFinite DEF IInv, TypeOK
<1>10. Occupancy(t)' >= terminals[t]
  BY <1>8, <1>9, LeftBehindMeansFull, OccupancyAfterPass
<1> QED
  BY <1>1, <1>4, <1>6, <1>7, <1>10

\* No pass forgets a driver whose time has come: whoever it leaves waiting waits
\* for a place at a terminal that has none.
THEOREM NobodyIsForgotten == Spec => SweepLeavesNobodyBehind
<1>1. IInv /\ [Next]_vars =>
        [PromoteDueReturns =>
           \A b \in Badges : Due(b)' =>
             \E t \in Terminals :
               /\ taxis[b].pending_return_terminal_id = t
               /\ TerminalExists(t)
               /\ Occupancy(t)' >= terminals[t]]_vars
  BY PassLeavesNobodyBehind
<1> QED
  BY <1>1, Invariance, PTL DEF Spec, SweepLeavesNobodyBehind
----------------------------------------------------------------------------
(***************************************************************************)
(* The loop of the pass, which reads the occupancy again for each taxi and *)
(* changes it as it goes, ends where the closed form says.  The argument   *)
(* goes along the visits, by the first that would leave other records.     *)
(***************************************************************************)

\* The records after each visit are those before it with the visit made.
LEMMA PassIsDefined ==
  ASSUME IInv
  PROVE  /\ Pass[0] = taxis
         /\ \A k \in 1..Len(registered) : Pass[k] = Visit(Pass[k - 1], registered[k])
<1> DEFINE Visits(f, m) ==
             f = [k \in 0..m |-> IF k = 0 THEN taxis ELSE Visit(f[k - 1], registered[k])]
           Undefined == {m \in Nat : ~\E f : Visits(f, m)}
<1>1. Undefined = {}
  <2> SUFFICES ASSUME Undefined # {} PROVE FALSE
    OBVIOUS
  <2>1. PICK m \in Undefined : \A k \in Undefined : m <= k
    <3>1. Undefined \subseteq Nat
      OBVIOUS
    <3> HIDE DEF Undefined
    <3> QED
      BY <3>1, LeastNatural
  <2>2. m \in Nat /\ ~\E f : Visits(f, m)
    BY <2>1
  <2>3. m # 0
    <3> DEFINE g == [k \in 0..0 |-> taxis]
    <3>1. Visits(g, 0)
      OBVIOUS
    <3> QED
      BY <2>2, <3>1
  <2>4. PICK g : Visits(g, m - 1)
    <3>1. m - 1 \in Nat /\ m - 1 \notin Undefined
      BY <2>1, <2>2, <2>3
    <3> QED
      BY <3>1
  <2> DEFINE h == [k \in 0..m |-> IF k = m THEN Visit(g[m - 1], registered[m]) ELSE g[k]]
  <2>5. ASSUME NEW k \in 0..m
        PROVE  h[k] = IF k = 0 THEN taxis ELSE Visit(h[k - 1], registered[k])
    <3>1. CASE k = m
      BY <2>2, <2>3, <3>1
    <3>2. CASE k # m
      <4>1. k \in 0..(m - 1) /\ h[k] = g[k]
        BY <2>2, <3>2
      <4>2. g[k] = IF k = 0 THEN taxis ELSE Visit(g[k - 1], registered[k])
        BY <2>4, <4>1
      <4>3. k # 0 => h[k - 1] = g[k - 1]
        BY <2>2, <3>2
      <4> QED
        BY <4>1, <4>2, <4>3
    <3> QED
      BY <3>1, <3>2
  <2>6. h = [k \in 0..m |-> h[k]]
    OBVIOUS
  <2> HIDE DEF h
  <2>7. Visits(h, m)
    BY <2>5, <2>6
  <2> QED
    BY <2>2, <2>7
<1>2. Len(registered) \in Nat
  BY DEF IInv, TypeOK
<1>3. \E f : Visits(f, Len(registered))
  BY <1>1, <1>2
<1>4. Visits(Pass, Len(registered))
  BY <1>3 DEF Pass
<1> QED
  BY <1>2, <1>4

\* The taxis of the first k visits, and the records the closed form gives then.
Visited(k) == {registered[i] : i \in 1..k}
AfterVisits(k) == [b \in Badges |-> IF b \in Visited(k) THEN Swept(b) ELSE taxis[b]]

\* The taxi of a visit is not visited earlier; those registered before it are.
LEMMA VisitOrder ==
  ASSUME IInv, NEW k \in 1..Len(registered)
  PROVE  /\ registered[k] \in Registered /\ registered[k] \in Badges
         /\ registered[k] \notin Visited(k - 1)
         /\ Visited(k) = Visited(k - 1) \cup {registered[k]}
         /\ Visited(k - 1) \subseteq Registered
         /\ \A c : c \in Visited(k - 1) <=> RegisteredBefore(c, registered[k])
<1>1. /\ registered \in Seq(Badges) /\ DOMAIN registered = 1..Len(registered)
      /\ Len(registered) \in Nat /\ k \in Nat
      /\ \A i, j \in 1..Len(registered) : registered[i] = registered[j] => i = j
  BY DEF IInv, TypeOK, RegisteredOnce, IsInjective
<1>2. registered[k] \in Registered /\ registered[k] \in Badges
  BY <1>1 DEF Registered, ToSet
<1>3. \A i \in 1..k : i = k \/ i \in 1..(k - 1)
  BY <1>1
<1>4. Visited(k) = Visited(k - 1) \cup {registered[k]}
  <2>1. Visited(k) \subseteq Visited(k - 1) \cup {registered[k]}
    BY <1>3 DEF Visited
  <2>2. Visited(k - 1) \cup {registered[k]} \subseteq Visited(k)
    BY <1>1 DEF Visited
  <2> QED
    BY <2>1, <2>2
<1>5. registered[k] \notin Visited(k - 1)
  BY <1>1 DEF Visited
<1>6. Visited(k - 1) \subseteq Registered
  BY <1>1 DEF Visited, Registered, ToSet
<1>7. ASSUME NEW c, c \in Visited(k - 1) PROVE RegisteredBefore(c, registered[k])
  <2>1. PICK i \in 1..(k - 1) : registered[i] = c
    BY <1>7 DEF Visited
  <2> QED
    BY <1>1, <2>1 DEF RegisteredBefore, Before
<1>8. ASSUME NEW c, RegisteredBefore(c, registered[k]) PROVE c \in Visited(k - 1)
  <2>1. PICK i, j \in 1..Len(registered) :
          i < j /\ registered[i] = c /\ registered[j] = registered[k]
    BY <1>1, <1>8 DEF RegisteredBefore, Before
  <2>2. j = k
    BY <1>1, <2>1
  <2>3. i \in 1..(k - 1)
    BY <1>1, <2>1, <2>2
  <2> QED
    BY <2>1, <2>3 DEF Visited
<1> QED
  BY <1>2, <1>4, <1>5, <1>6, <1>7, <1>8

\* The occupancy in the middle of the pass counts those added so far.
LEMMA OccupancyInPass ==
  ASSUME IInv, NEW k \in 1..Len(registered), NEW t \in Terminals
  PROVE  /\ OccupancyIn(AfterVisits(k - 1), t)
              = Occupancy(t) + Cardinality(Added(t) \cap Visited(k - 1))
         /\ IsFiniteSet(Added(t) \cap Visited(k - 1))
<1> DEFINE early == Added(t) \cap Visited(k - 1)
           records == AfterVisits(k - 1)
<1>1. Registered \subseteq Badges
  BY DEF Registered, ToSet, IInv, TypeOK
<1>2. \A c \in Badges : records[c] = IF c \in Visited(k - 1) THEN Swept(c) ELSE taxis[c]
  BY DEF AfterVisits
<1> HIDE DEF records
<1>3. \A c \in Badges : Promoted(c) =>
        /\ c \in Registered
        /\ taxis[c].status = "return_exempt"
        /\ Swept(c).status = "called"
        /\ Swept(c).terminal_id = taxis[c].pending_return_terminal_id
  BY SweptProperties, AddTaxiToTerminalProperties DEF IInv, TypeOK
<1>4. \A c \in Badges : ~Promoted(c) =>
        /\ Swept(c).status = taxis[c].status
        /\ Swept(c).terminal_id = taxis[c].terminal_id
  BY SweptProperties
<1>5. {c \in Registered : records[c].terminal_id = t /\ records[c].status = "called"}
        = AtRank(t) \cup early
  BY <1>1, <1>2, <1>3, <1>4 DEF AtRank, Added
<1>6. AtRank(t) \cap early = {}
  BY <1>3 DEF AtRank, Added
<1>7. IsFiniteSet(AtRank(t)) /\ IsFiniteSet(early)
  BY RankIsFinite, RankAssumption, FS_Subset DEF Added
<1>8. Cardinality(AtRank(t) \cup early) =
        Cardinality(AtRank(t)) + Cardinality(early) - Cardinality({})
  BY <1>6, <1>7, FS_Union
<1>9. Cardinality(AtRank(t)) \in Nat /\ Cardinality(early) \in Nat
  BY <1>7, FS_CardinalityType
<1>10. OccupancyIn(records, t) = Cardinality(AtRank(t) \cup early)
  BY <1>5 DEF OccupancyIn
<1> QED
  BY <1>7, <1>8, <1>9, <1>10, FS_EmptySet DEF Occupancy, records

\* A due taxi finds a place in the loop exactly when the closed form gives it one:
\* either all the due before it were added, or one was not, and the terminal is
\* full already.
LEMMA LoopFindsAPlace ==
  ASSUME IInv, NEW k \in 1..Len(registered), Due(registered[k]), NEW t \in Terminals,
         taxis[registered[k]].pending_return_terminal_id = t
  PROVE  OccupancyIn(AfterVisits(k - 1), t) >= terminals[t] <=> ~Promoted(registered[k])
<1> DEFINE b == registered[k]
           early == Added(t) \cap Visited(k - 1)
<1>1. OccupancyIn(AfterVisits(k - 1), t) = Occupancy(t) + Cardinality(early)
  BY OccupancyInPass
<1>2. Promoted(b) <=> Occupancy(t) + Cardinality(DueBefore(b)) < terminals[t]
  BY DEF Promoted
<1>3. early \subseteq DueBefore(b)
  BY VisitOrder DEF Added, Promoted, DueBefore
<1>4. DueBefore(b) \subseteq Visited(k - 1)
  BY VisitOrder DEF DueBefore
<1>5. IsFiniteSet(DueBefore(b)) /\ Cardinality(DueBefore(b)) \in Nat
  BY RankAssumption, FS_Subset, FS_CardinalityType DEF DueBefore
<1>6. /\ IsFiniteSet(early) /\ Cardinality(early) \in Nat
      /\ Cardinality(early) <= Cardinality(DueBefore(b))
  BY <1>3, <1>5, FS_Subset, FS_CardinalityType
<1>7. Occupancy(t) \in Nat /\ terminals[t] \in Nat
  BY RankIsFinite DEF IInv, TypeOK
<1>8. CASE DueBefore(b) \subseteq Added(t)
  <2>1. early = DueBefore(b)
    BY <1>3, <1>4, <1>8
  <2>2. OccupancyIn(AfterVisits(k - 1), t) = Occupancy(t) + Cardinality(DueBefore(b))
    BY <1>1, <2>1
  <2>3. OccupancyIn(AfterVisits(k - 1), t) >= terminals[t]
          <=> ~(Occupancy(t) + Cardinality(DueBefore(b)) < terminals[t])
    BY <1>5, <1>7, <2>2
  <2> QED
    BY <1>2, <2>3
<1>9. CASE ~(DueBefore(b) \subseteq Added(t))
  <2> DEFINE Left == {c \in DueBefore(b) : ~Promoted(c)}
  <2>1. Left # {} /\ Left \subseteq Registered
    BY <1>9 DEF DueBefore, Added, Due
  <2>2. PICK first \in Left : \A c \in Left : c # first => RegisteredBefore(first, c)
    <3> HIDE DEF Left
    <3> QED
      BY <2>1, FirstRegistered
  <2>3. first \in DueBefore(b) /\ ~Promoted(first) /\ Due(first)
        /\ taxis[first].pending_return_terminal_id = t
    BY <2>2 DEF DueBefore
  <2>4. DueBefore(first) \subseteq early
    <3> SUFFICES ASSUME NEW c \in DueBefore(first) PROVE c \in early
      OBVIOUS
    <3>1. c \in Badges /\ Due(c) /\ RegisteredBefore(c, first)
          /\ taxis[c].pending_return_terminal_id = t
      BY <2>3 DEF DueBefore
    <3>2. RegisteredBefore(first, b)
      BY <2>3 DEF DueBefore
    <3>3. RegisteredBefore(c, b)
      BY <3>1, <3>2, RegistrationIsTransitive
    <3>4. c \in DueBefore(b) /\ c # first /\ ~RegisteredBefore(first, c)
      BY <3>1, <3>3, RegistrationIsOrdered DEF DueBefore
    <3>5. Promoted(c)
      BY <2>2, <3>4
    <3> QED
      BY <1>4, <3>1, <3>4, <3>5 DEF Added
  <2>5. /\ Cardinality(DueBefore(first)) \in Nat
        /\ Cardinality(DueBefore(first)) <= Cardinality(early)
    BY <1>6, <2>4, FS_Subset, FS_CardinalityType
  <2>6. ~(Occupancy(t) + Cardinality(DueBefore(first)) < terminals[t])
    BY <2>3 DEF Promoted
  <2> HIDE DEF early
  <2> QED
    BY <1>1, <1>2, <1>5, <1>6, <1>7, <2>5, <2>6
<1> QED
  BY <1>8, <1>9

\* A visit makes of its taxi what the closed form does, and leaves the others.
LEMMA VisitSweeps ==
  ASSUME IInv, NEW k \in 1..Len(registered)
  PROVE  Visit(AfterVisits(k - 1), registered[k]) = AfterVisits(k)
<1> DEFINE records == AfterVisits(k - 1)
<1>1. PICK b \in Badges : b = registered[k]
  BY VisitOrder
<1>2. PICK taxi \in Taxi : taxi = taxis[b]
  BY DEF IInv, TypeOK
<1>3. records[b] = taxi
  BY <1>1, <1>2, VisitOrder DEF AfterVisits
<1>4. AfterVisits(k) = [records EXCEPT ![b] = Swept(b)]
  <2>1. \A c \in Badges : c \in Visited(k) <=> c \in Visited(k - 1) \/ c = b
    BY <1>1, VisitOrder
  <2> QED
    BY <2>1 DEF AfterVisits
<1>5. records = [records EXCEPT ![b] = taxi]
  BY <1>3 DEF AfterVisits
<1>6. Due(b) <=> /\ taxi.status = "return_exempt"
                 /\ taxi.pending_return_terminal_id # None
                 /\ taxi.expected_arrival_at # None
                 /\ ~(now < taxi.expected_arrival_at - Lead * MinuteTicks)
  <2>1. b \in Registered
    BY <1>1, VisitOrder
  <2>2. now \in Nat /\ Lead * MinuteTicks \in Nat
    BY RankAssumption, TimeAssumption DEF IInv, TypeOK
  <2>3. taxi.expected_arrival_at # None => taxi.expected_arrival_at \in Nat
    BY <1>2 DEF Taxi
  <2>4. taxi.expected_arrival_at # None =>
          (now >= taxi.expected_arrival_at - Lead * MinuteTicks
             <=> ~(now < taxi.expected_arrival_at - Lead * MinuteTicks))
    BY <2>2, <2>3
  <2> QED
    BY <1>2, <2>1, <2>4 DEF Due
<1> HIDE DEF records
<1>7. CASE ~Due(b)
  <2>1. Visit(records, b) = records
    BY <1>3, <1>6, <1>7 DEF Visit
  <2>2. Swept(b) = taxi
    BY <1>2, <1>7 DEF Swept, Promoted, Stranded
  <2> QED
    BY <1>1, <1>4, <1>5, <2>1, <2>2 DEF records
<1>8. CASE Due(b)
  <2>1. PICK t \in Terminals : t = taxi.pending_return_terminal_id
    BY <1>2, <1>6, <1>8 DEF Taxi
  <2>2. Visit(records, b) =
          IF ~TerminalExists(t)
          THEN [records EXCEPT ![b].pending_return_terminal_id = None,
                               ![b].expected_arrival_at = None]
          ELSE IF OccupancyIn(records, t) >= terminals[t]
          THEN records
          ELSE [records EXCEPT ![b] = AddTaxiToTerminal(@, t)]
    BY <1>3, <1>6, <1>8, <2>1 DEF Visit
  <2>3. OccupancyIn(records, t) >= terminals[t] <=> ~Promoted(b)
    BY <1>1, <1>2, <1>8, <2>1, LoopFindsAPlace DEF records
  <2>4. ~TerminalExists(t) => ~Promoted(b)
    <3>1. Cardinality(DueBefore(b)) \in Nat /\ Occupancy(t) \in Nat
      BY RankIsFinite, RankAssumption, FS_Subset, FS_CardinalityType DEF DueBefore
    <3> QED
      BY <1>2, <2>1, <3>1 DEF Promoted, TerminalExists, IInv, TypeOK
  <2>5. CASE ~TerminalExists(t)
    <3>1. Swept(b) = [taxi EXCEPT !.pending_return_terminal_id = None,
                                  !.expected_arrival_at = None]
      BY <1>2, <1>8, <2>1, <2>4, <2>5 DEF Swept, Stranded
    <3>2. Visit(records, b) = [records EXCEPT ![b] = Swept(b)]
      BY <1>3, <2>2, <2>5, <3>1
    <3> QED
      BY <1>1, <1>4, <3>2 DEF records
  <2>6. CASE TerminalExists(t) /\ ~Promoted(b)
    <3>1. Swept(b) = taxi
      BY <1>2, <2>1, <2>6 DEF Swept, Stranded
    <3>2. Visit(records, b) = records
      BY <2>2, <2>3, <2>6
    <3> QED
      BY <1>1, <1>4, <1>5, <3>1, <3>2 DEF records
  <2>7. CASE TerminalExists(t) /\ Promoted(b)
    <3>1. Swept(b) = AddTaxiToTerminal(taxi, t)
      BY <1>2, <2>1, <2>7 DEF Swept
    <3>2. Visit(records, b) = [records EXCEPT ![b] = Swept(b)]
      BY <1>3, <2>2, <2>3, <2>7, <3>1
    <3> QED
      BY <1>1, <1>4, <3>2 DEF records
  <2> QED
    BY <2>5, <2>6, <2>7
<1> QED
  BY <1>7, <1>8

\* Whatever is due, for which terminals and in which order of registration, the
\* loop of promote_due_returns does what the closed form says.
THEOREM PassIsTheLoop == Spec => []SweepIsTheLoop
<1>1. IInv => SweepIsTheLoop
  <2> SUFFICES ASSUME IInv PROVE SweepIsTheLoop
    OBVIOUS
  <2> DEFINE n == Len(registered)
             Wrong == {k \in Nat : k <= n /\ Pass[k] # AfterVisits(k)}
  <2>1. n \in Nat
    BY DEF IInv, TypeOK
  <2>2. Pass[0] = AfterVisits(0)
    <3>1. Visited(0) = {}
      BY DEF Visited
    <3>2. taxis = AfterVisits(0)
      BY <3>1 DEF AfterVisits, IInv, TypeOK
    <3> QED
      BY <3>2, PassIsDefined
  <2>3. Wrong = {}
    <3> SUFFICES ASSUME Wrong # {} PROVE FALSE
      OBVIOUS
    <3>1. PICK k \in Wrong : \A m \in Wrong : k <= m
      <4>1. Wrong \subseteq Nat
        OBVIOUS
      <4> HIDE DEF Wrong
      <4> QED
        BY <4>1, LeastNatural
    <3>2. k \in 1..n /\ k - 1 \in Nat /\ k - 1 \notin Wrong
      BY <2>1, <2>2, <3>1
    <3>3. Pass[k - 1] = AfterVisits(k - 1)
      BY <2>1, <3>2
    <3>4. Pass[k] = Visit(AfterVisits(k - 1), registered[k])
      BY <3>2, <3>3, PassIsDefined
    <3> QED
      BY <3>1, <3>2, <3>4, VisitSweeps
  <2>4. Pass[n] = AfterVisits(n)
    BY <2>1, <2>3
  <2>5. Visited(n) = Registered
    BY DEF Visited, Registered, ToSet, IInv, TypeOK
  <2>6. ASSUME NEW b \in Badges, b \notin Registered PROVE Swept(b) = taxis[b]
    BY <2>6 DEF Swept, Promoted, Stranded, Due
  <2>7. AfterVisits(n) = [b \in Badges |-> Swept(b)]
    BY <2>5, <2>6 DEF AfterVisits
  <2> QED
    BY <2>4, <2>7 DEF SweepIsTheLoop, SweptByLoop
<1> QED
  BY <1>1, Invariance, PTL

=============================================================================
