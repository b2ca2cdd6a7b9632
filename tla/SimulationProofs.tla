--------------------------- MODULE SimulationProofs ---------------------------
(***************************************************************************)
(* Theorems about SimulationDay, for any number of drivers, terminals and  *)
(* minutes, and whatever is drawn at random.                               *)
(*                                                                         *)
(* The store keeps the invariant of TaxiRankProofs, although the day has   *)
(* other steps than the server: SimBase.  On it rest four invariants, each *)
(* of a thing the loop keeps beside the store: the lists of taxis waiting, *)
(* the fares filed, the shifts, and the returns to check.                  *)
(***************************************************************************)
EXTENDS SimulationDay, CapacityProofs

----------------------------------------------------------------------------
(***************************************************************************)
(* The lists of a set.                                                     *)
(***************************************************************************)

\* A sequence of all elements of a set, each once, is one without repetitions.
LEMMA ListOfASet ==
  ASSUME NEW S, IsFiniteSet(S), NEW s \in SetToSeqs(S)
  PROVE  /\ s \in Seq(S)
         /\ IsInjective(s)
         /\ ToSet(s) = S
<1> DEFINE n == Cardinality(S)
<1>1. n \in Nat
  BY FS_CardinalityType
<1>2. /\ s \in [1..n -> S]
      /\ \A i, j \in 1..n : i # j => s[i] # s[j]
  BY DEF SetToSeqs
<1> HIDE DEF n
<1>3. s \in Seq(S) /\ Len(s) = n /\ DOMAIN s = 1..n
  BY <1>1, <1>2
<1>4. IsInjective(s)
  BY <1>2, <1>3 DEF IsInjective
<1>5. s \in Injection(1..n, S)
  BY <1>2, <1>3, <1>4 DEF Injection
<1>6. Cardinality(1..n) = n
  BY <1>1, FS_Interval
<1>7. s \in Surjection(1..n, S)
  BY <1>5, <1>6, FS_Injection DEF n
<1>8. ToSet(s) = S
  BY <1>2, <1>3, <1>7 DEF Surjection, ToSet
<1> QED
  BY <1>3, <1>4, <1>8

\* And the other way round.
LEMMA ListIsOfItsSet ==
  ASSUME NEW S, NEW s \in Seq(S), IsInjective(s)
  PROVE  IsFiniteSet(ToSet(s)) /\ s \in SetToSeqs(ToSet(s))
<1> DEFINE n == Len(s)
           T == ToSet(s)
<1>1. n \in Nat /\ DOMAIN s = 1..n
  OBVIOUS
<1>2. \A i \in 1..n : s[i] \in T
  BY <1>1 DEF ToSet
<1>3. \A x \in T : \E i \in 1..n : s[i] = x
  BY <1>1 DEF ToSet
<1>4. s \in [1..n -> T]
  BY <1>1, <1>2
<1> HIDE DEF T
<1>5. s \in Surjection(1..n, T) /\ s \in Injection(1..n, T)
  BY <1>1, <1>3, <1>4 DEF Surjection, Injection, IsInjective
<1>6. IsFiniteSet(1..n) /\ Cardinality(1..n) = n
  BY <1>1, FS_Interval
<1>7. IsFiniteSet(T) /\ Cardinality(T) = n
  BY <1>5, <1>6, FS_Surjection
<1>8. \A i, j \in 1..n : i # j => s[i] # s[j]
  BY <1>1 DEF IsInjective
<1> QED
  BY <1>4, <1>7, <1>8 DEF SetToSeqs, T

\* Some of the taxis can be listed in the order of registration.
LEMMA RegistrationOrderExists ==
  ASSUME IInv, NEW S, S \subseteq Registered
  PROVE  \E s \in Seq(Badges) :
           /\ IsInjective(s)
           /\ ToSet(s) = S
           /\ \A i, j \in DOMAIN s : i < j => RegisteredBefore(s[i], s[j])
<1> DEFINE n == Len(registered)
           Upto(k) == {b \in S : \E i \in 1..n : i <= k /\ registered[i] = b}
           Lists(s, k) ==
             /\ s \in Seq(Badges)
             /\ IsInjective(s)
             /\ ToSet(s) = Upto(k)
             /\ \A i, j \in DOMAIN s : i < j => RegisteredBefore(s[i], s[j])
           T == {k \in 0..n : ~\E s : Lists(s, k)}
<1>1. /\ registered \in Seq(Badges)
      /\ n \in Nat
      /\ DOMAIN registered = 1..n
      /\ IsInjective(registered)
  BY DEF IInv, TypeOK, RegisteredOnce
<1>2. \A b \in S : \E i \in 1..n : registered[i] = b
  BY <1>1 DEF Registered, ToSet
<1>3. \A i \in 1..n : registered[i] \in Badges
  BY <1>1
<1> HIDE DEF n
<1>4. T = {}
  <2> SUFFICES ASSUME T # {} PROVE FALSE
    OBVIOUS
  <2>1. T \subseteq Nat
    BY <1>1
  <2>2. PICK k \in T : \A l \in T : k <= l
    <3> HIDE DEF T
    <3> QED
      BY <2>1, LeastNatural
  <2>3. k \in 0..n /\ ~\E s : Lists(s, k)
    OBVIOUS
  <2>4. CASE k = 0
    <3>1. Upto(k) = {}
      BY <1>1, <2>4
    <3>2. /\ << >> \in Seq(Badges)
          /\ DOMAIN << >> = {}
      OBVIOUS
    <3>3. IsInjective(<< >>) /\ ToSet(<< >>) = {}
      BY <3>2 DEF IsInjective, ToSet
    <3>4. Lists(<< >>, k)
      BY <3>1, <3>2, <3>3
    <3> QED
      BY <2>3, <3>4
  <2>5. CASE k > 0
    <3>1. k - 1 \in 0..n /\ k \in 1..n
      BY <1>1, <2>3, <2>5
    <3>2. k - 1 \notin T
      <4>1. ~(k <= k - 1)
        BY <3>1
      <4> HIDE DEF T
      <4> QED
        BY <2>2, <4>1
    <3>3. PICK s : Lists(s, k - 1)
      BY <3>1, <3>2
    <3> DEFINE b == registered[k]
    <3>4. b \in Badges
      BY <1>3, <3>1
    <3>5. CASE b \notin S
      <4>1. \A i \in 1..n : registered[i] \in S => (i <= k <=> i <= k - 1)
        BY <1>1, <3>1, <3>5
      <4>2. Upto(k) = Upto(k - 1)
        BY <4>1
      <4>3. Lists(s, k)
        BY <3>3, <4>2
      <4> QED
        BY <2>3, <4>3
    <3>6. CASE b \in S
      <4>1. b \notin Upto(k - 1)
        <5>1. \A i \in 1..n : registered[i] = b => i = k
          BY <1>1, <3>1 DEF IsInjective
        <5> QED
          BY <1>1, <3>1, <5>1
      <4>2. Upto(k) = Upto(k - 1) \cup {b}
        <5>1. \A i \in 1..n : i <= k <=> i <= k - 1 \/ i = k
          BY <1>1, <3>1
        <5> QED
          BY <3>1, <3>6, <5>1
      <4>3. \A c \in Upto(k - 1) : RegisteredBefore(c, b)
        <5> SUFFICES ASSUME NEW c \in Upto(k - 1) PROVE RegisteredBefore(c, b)
          OBVIOUS
        <5>1. PICK i \in 1..n : i <= k - 1 /\ registered[i] = c
          OBVIOUS
        <5>2. i < k
          BY <1>1, <3>1, <5>1
        <5> QED
          BY <1>1, <3>1, <5>1, <5>2 DEF RegisteredBefore, Before
      <4> HIDE DEF b, Upto
      <4> DEFINE r == Append(s, b)
      <4>4. /\ r \in Seq(Badges)
            /\ IsInjective(r)
            /\ ToSet(r) = Upto(k)
        BY <3>3, <3>4, <4>1, <4>2, AppendNewProperties
      <4>5. /\ Len(s) \in Nat
            /\ DOMAIN s = 1..Len(s)
            /\ DOMAIN r = 1..(Len(s) + 1)
            /\ \A i \in 1..Len(s) : r[i] = s[i]
            /\ r[Len(s) + 1] = b
        BY <3>3, <3>4, AppendProperties
      <4> HIDE DEF r
      <4>6. \A i \in DOMAIN s : s[i] \in Upto(k - 1)
        BY <3>3 DEF ToSet
      <4>7. ASSUME NEW i \in DOMAIN r, NEW j \in DOMAIN r, i < j
            PROVE  RegisteredBefore(r[i], r[j])
        <5>1. i \in DOMAIN s /\ r[i] = s[i]
          BY <4>5, <4>7
        <5>2. CASE j = Len(s) + 1
          BY <4>3, <4>5, <4>6, <5>1, <5>2
        <5>3. CASE j \in 1..Len(s)
          BY <3>3, <4>5, <4>7, <5>1, <5>3
        <5> QED
          BY <4>5, <5>2, <5>3
      <4>8. Lists(r, k)
        BY <4>4, <4>7
      <4> QED
        BY <2>3, <4>8
    <3> QED
      BY <3>5, <3>6
  <2> QED
    BY <1>1, <2>3, <2>4, <2>5
<1>5. PICK s : Lists(s, n)
  <2>1. n \in 0..n
    BY <1>1
  <2> HIDE DEF Lists
  <2> QED
    BY <1>4, <2>1
<1>6. Upto(n) = S
  BY <1>1, <1>2
<1> QED
  BY <1>5, <1>6

\* So the loop's list of some of the taxis is one of all of these, each once.
LEMMA InRegistrationOrderProperties ==
  ASSUME IInv, NEW S, S \subseteq Registered
  PROVE  /\ InRegistrationOrder(S) \in Seq(Badges)
         /\ IsInjective(InRegistrationOrder(S))
         /\ ToSet(InRegistrationOrder(S)) = S
<1> DEFINE s == InRegistrationOrder(S)
           Ordered(u) == \A i, j \in DOMAIN u : i < j => RegisteredBefore(u[i], u[j])
<1>1. S \subseteq Badges /\ IsFiniteSet(S)
  BY RankAssumption, FS_Subset DEF IInv, TypeOK, Registered, ToSet
<1>2. \E u \in SetToSeqs(S) : Ordered(u)
  <2>1. PICK u \in Seq(Badges) : IsInjective(u) /\ ToSet(u) = S /\ Ordered(u)
    BY RegistrationOrderExists
  <2>2. u \in SetToSeqs(S)
    BY <2>1, ListIsOfItsSet
  <2> QED
    BY <2>1, <2>2
<1>3. s \in SetToSeqs(S)
  <2>1. s = CHOOSE u \in SetToSeqs(S) : Ordered(u)
    BY DEF InRegistrationOrder
  <2> QED
    BY <1>2, <2>1
<1> HIDE DEF s
<1>4. s \in Seq(S) /\ IsInjective(s) /\ ToSet(s) = S
  BY <1>1, <1>3, ListOfASet
<1> QED
  BY <1>1, <1>4 DEF s

----------------------------------------------------------------------------
(***************************************************************************)
(* The invariant of the store, and the types of the loop's variables.      *)
(***************************************************************************)

Phases == {"starts", "demand", "fares", "sweep", "retries", "ends", "done", "raised"}
Counters == {"fares", "exempt_fares", "completed", "returned", "not_returned"}

SimTypeOK ==
  /\ minute \in Minutes
  /\ phase \in Phases
  /\ shift_start \in [Badges -> ShiftStarts]
  /\ shift_end \in [Badges -> Nat]
  /\ serving \in Badges \cup {None}
  /\ ending \in EndedFare \cup {None}
  /\ returning \in Returning \cup {None}
  /\ fare_complete \in [Badges -> FiledFare \cup {None}]
  /\ promote_checks \in [Minutes -> [Badges -> Nat]]
  /\ retry_counts \in [Badges -> Nat]
  /\ terminal_waiting \in [Terminals -> Seq(Badges)]
  /\ stats \in [Counters -> Nat]
  /\ counted_out \subseteq Badges

\* What the loop has in hand belongs to its phase; a driver on the way back has
\* a return to make.
LoopAgrees ==
  /\ serving # None => phase = "demand"
  /\ ending # None => phase = "fares"
  /\ returning # None => /\ ending # None
                         /\ taxis[ending.badge].status = "return_exempt"
  /\ phase = "done" => minute = LastMinute

\* The clock of the store, which decides when a return is due, shows the minute
\* whose buckets the loop goes through.
ClockAgrees == now = minute * SimMinute

SimBase ==
  /\ IInv
  /\ SimTypeOK
  /\ LoopAgrees
  /\ ClockAgrees
  /\ Registered = Badges
  /\ terminals = [t \in Terminals |-> DefaultCapacity]

\* The minutes of a day are numbers, and no bucket is filed after the last.
LEMMA MinutesAreNumbers ==
  /\ LastMinute \in Nat
  /\ LastMinute >= DayMinutes - 1
  /\ \A m \in Nat : Bucket(m) \in Minutes /\ Bucket(m) <= m
  /\ \A m \in Nat, n \in Minutes : m >= n => Bucket(m) >= n
BY SimulationAssumption DEF LastMinute, Bucket, Minutes

\* What is drawn for a fare is a destination, and how long it takes a number.
LEMMA PickFareType ==
  ASSUME NEW text \in Texts
  PROVE  /\ PickFare(text) \in SimulatedFare
         /\ OneWayMinutes(PickFare(text)) \subseteq Nat
<1>1. PickFare(text) \in SimulatedFare
  <2>1. CASE ExactMatches(text) = {}
    BY <2>1 DEF PickFare, Classified, SimulatedFare, FareClassification
  <2>2. CASE ExactMatches(text) # {}
    <3> DEFINE i == CHOOSE i \in ExactMatches(text) : TRUE
               info == KnownDestinations[i]
    <3>1. i \in ExactMatches(text)
      BY <2>2
    <3>2. i \in DOMAIN KnownDestinations
      BY <3>1 DEF ExactMatches
    <3> HIDE DEF i
    <3>3. info \in Destination
      BY <3>2, TableAssumption
    <3> HIDE DEF info
    <3>4. Classified(info.classification, info.round_trip_minutes) \in SimulatedFare
      BY <3>3 DEF Destination, Classified, SimulatedFare
    <3> QED
      BY <2>2, <3>4 DEF PickFare, info, i
  <2> QED
    BY <2>1, <2>2
<1>2. ASSUME NEW fare \in SimulatedFare PROVE OneWayMinutes(fare) \subseteq Nat
  <2>1. fare.round_trip_minutes \in Nat \cup {None}
    BY DEF SimulatedFare
  <2>2. \A m \in Nat : m \div 2 \in Nat
    OBVIOUS
  <2> QED
    BY <2>1, <2>2, SimulationAssumption DEF OneWayMinutes
<1> QED
  BY <1>1, <1>2

\* So is the time the way back takes.
LEMMA ReturnLegType ==
  ASSUME NEW fare \in SimulatedFare
  PROVE  ReturnLegMinutes(fare) \subseteq Nat
<1> DEFINE base == IF fare.round_trip_minutes = None THEN DefaultLeg
                                                     ELSE fare.round_trip_minutes \div 2
<1>1. base \in Nat
  BY SimulationAssumption DEF SimulatedFare
<1> HIDE DEF base
<1>2. ASSUME NEW jitter \in Jitters
      PROVE  (base * jitter) \div JitterBase \in Nat
  <2>1. jitter \in Nat
    BY SimulationAssumption
  <2>2. base * jitter \in Nat
    BY <1>1, <2>1, SMT
  <2> DEFINE product == base * jitter
  <2> HIDE DEF product
  <2>3. product \div JitterBase \in Nat
    BY <2>2, SimulationAssumption DEF product
  <2> QED
    BY <2>3 DEF product
<1> QED
  BY <1>2 DEF ReturnLegMinutes, base

\* A fare is filed, and a return checked, in this minute or a later one of the day.
LEMMA FiledInTheDay ==
  ASSUME SimBase
  PROVE  /\ \A leg \in Nat : /\ CompleteMinute(leg) \in Minutes
                             /\ CompleteMinute(leg) >= minute
         /\ \A eta \in Nat : /\ DueMinute(eta) \in Minutes
                             /\ DueMinute(eta) >= minute
<1>1. minute \in Minutes /\ minute \in Nat /\ now \in Nat /\ Lead \in Nat
  BY RankAssumption, MinutesAreNumbers DEF SimBase, SimTypeOK, Minutes, IInv, TypeOK
<1>2. ASSUME NEW units \in Int PROVE Rounded(units) \in Int
  <2>1. SimMinute \in Nat \ {0}
    BY SimulationAssumption
  <2>2. units \div SimMinute \in Int
    BY <2>1
  <2> DEFINE below == units \div SimMinute
  <2> HIDE DEF below
  <2>3. below \in Int /\ below + 1 \in Int
    BY <2>2 DEF below
  <2>4. Rounded(units) = below \/ Rounded(units) = below + 1
    BY DEF Rounded, below
  <2> QED
    BY <2>3, <2>4
<1>3. ASSUME NEW leg \in Nat
      PROVE  /\ CompleteMinute(leg) \in Minutes
             /\ CompleteMinute(leg) >= minute
  <2> DEFINE end == minute + Larger(1, Rounded(leg))
  <2>1. end \in Nat /\ end >= minute
    BY <1>1, <1>2 DEF Larger
  <2> HIDE DEF end
  <2> QED
    BY <1>1, <2>1, MinutesAreNumbers DEF CompleteMinute, end
<1>4. ASSUME NEW eta \in Nat
      PROVE  /\ DueMinute(eta) \in Minutes
             /\ DueMinute(eta) >= minute
  <2> DEFINE due == Rounded(now + eta - Lead)
  <2>1. due \in Int
    BY <1>1, <1>2
  <2>2. Larger(due, minute) \in Nat /\ Larger(due, minute) >= minute
    BY <1>1, <2>1 DEF Larger
  <2> QED
    BY <1>1, <2>2, MinutesAreNumbers DEF DueMinute
<1> QED
  BY <1>3, <1>4

\* The day begins with every driver registered, and nothing filed.
LEMMA SimInitIsRight == SimInit => SimBase
<1> SUFFICES ASSUME SimInit PROVE SimBase
  OBVIOUS
<1>1. registered \in Seq(Badges) /\ IsInjective(registered) /\ Registered = Badges
  BY RankAssumption, ListOfASet DEF SimInit, Registered
<1>2. TypeOK
  <2>1. taxis \in [Badges -> Taxi]
    BY NewTaxiType DEF SimInit
  <2>2. /\ fares \in [FareIds -> Fare \cup {None}]
        /\ notifications \in [Badges -> Terminals \cup {None}]
        /\ feeder_park_queue \in Seq(Badges)
        /\ rank_agents \subseteq Agents
    BY DEF SimInit
  <2>3. /\ terminals \in [Terminals -> Nat]
        /\ traffic_level \in TrafficLevels
        /\ dispatch_events \in Nat /\ now \in Nat
    BY RankAssumption DEF SimInit
  <2> QED
    BY <1>1, <2>1, <2>2, <2>3 DEF TypeOK
<1>3. /\ taxis = [b \in Badges |-> NewTaxi]
      /\ feeder_park_queue = << >>
      /\ notifications = [b \in Badges |-> None]
  BY DEF SimInit
<1>4. QueueHoldsTheWaiting
  <2>1. IsInjective(<< >>) /\ ToSet(<< >>) = {}
    BY DEF IsInjective, ToSet
  <2>2. \A b \in Badges : taxis[b].status # "in_feeder_park"
    BY <1>3 DEF NewTaxi
  <2> QED
    BY <1>1, <1>3, <2>1, <2>2 DEF QueueHoldsTheWaiting
<1>5. RecordsCoherent /\ FareLedgerAgrees /\ AssignmentIsNotified
  BY <1>3 DEF RecordsCoherent, FareLedgerAgrees, AssignmentIsNotified, NewTaxi
<1>6. IInv
  BY <1>1, <1>2, <1>4, <1>5 DEF IInv, RegisteredOnce
<1>7. SimTypeOK
  <2>1. minute \in Minutes /\ phase \in Phases
    BY MinutesAreNumbers DEF SimInit, Minutes, Phases
  <2>2. shift_start \in [Badges -> ShiftStarts]
    BY DEF SimInit, Shifts
  <2>3. shift_end \in [Badges -> Nat]
    <3>1. PICK length \in [Badges -> ShiftLengths] :
            shift_end = [b \in Badges |-> ShiftEndMinute(shift_start[b], length[b])]
      BY DEF SimInit, Shifts
    <3>2. ASSUME NEW b \in Badges
          PROVE  ShiftEndMinute(shift_start[b], length[b]) \in Nat
      <4>1. shift_start[b] \in Nat /\ length[b] \in Nat
        <5>1. shift_start[b] \in ShiftStarts /\ length[b] \in ShiftLengths
          BY <2>2, <3>1
        <5>2. ShiftStarts \subseteq Nat /\ ShiftLengths \subseteq Nat
          BY SimulationAssumption
        <5> QED
          BY <5>1, <5>2
      <4> QED
        BY <4>1, SimulationAssumption DEF ShiftEndMinute, Larger
    <3> QED
      BY <3>1, <3>2
  <2>4. /\ serving \in Badges \cup {None}
        /\ ending \in EndedFare \cup {None}
        /\ returning \in Returning \cup {None}
        /\ fare_complete \in [Badges -> FiledFare \cup {None}]
        /\ promote_checks \in [Minutes -> [Badges -> Nat]]
        /\ retry_counts \in [Badges -> Nat]
    BY DEF SimInit
  <2>5. terminal_waiting \in [Terminals -> Seq(Badges)]
    BY DEF SimInit
  <2>6. stats \in [Counters -> Nat] /\ counted_out \subseteq Badges
    BY DEF SimInit, NoStats, Counters
  <2> QED
    BY <2>1, <2>2, <2>3, <2>4, <2>5, <2>6 DEF SimTypeOK
<1>8. ClockAgrees
  <2>1. SimMinute \in Nat /\ now = 0 /\ minute = 0
    BY SimulationAssumption DEF SimInit
  <2> QED
    BY <2>1 DEF ClockAgrees
<1> QED
  BY <1>1, <1>6, <1>7, <1>8 DEF SimBase, SimInit, LoopAgrees

\* Whatever the loop does to the store, the store keeps its invariant, and no
\* driver or terminal comes or goes.
LEMMA StoreStep ==
  ASSUME SimBase, [SimNext]_simVars
  PROVE  IInv' /\ Registered' = Registered /\ terminals' = terminals
<1>1. IInv /\ TypeOK
  BY DEF SimBase, IInv
<1>2. CASE UNCHANGED vars
  <2>1. TypeOK'
    BY <1>1, <1>2 DEF TypeOK, vars, site
  <2> QED
    BY <1>1, <1>2, <2>1, SiteStepKeepsIInv DEF vars, site, Registered
<1>3. ASSUME NEW b \in Badges, ShiftStart(b) \/ FareEnds(b) \/ Retry(b) \/ ShiftEnd(b)
      PROVE  IInv' /\ Registered' = Registered /\ terminals' = terminals
  <2>1. CASE ShiftStart(b)
    BY <1>1, <2>1, JoinFeederParkKeepsIInv DEF ShiftStart, JoinFeederPark, Registered, site
  <2>2. CASE FareEnds(b)
    BY <1>1, <2>2, CompleteFareKeepsIInv DEF FareEnds, CompleteFare, Registered, site
  <2>3. CASE Retry(b)
    BY <1>2, <2>3 DEF Retry
  <2>4. CASE ShiftEnd(b)
    BY <1>1, <2>4, LeaveFeederParkKeepsIInv DEF ShiftEnd, LeaveFeederPark, Registered, site
  <2> QED
    BY <1>3, <2>1, <2>2, <2>3, <2>4
<1>4. ASSUME NEW t \in Terminals, Passenger(t) \/ PickTerminal(t) \/ TerminalFull(t)
      PROVE  IInv' /\ Registered' = Registered /\ terminals' = terminals
  <2>1. CASE Passenger(t)
    <3>1. CASE TakeFromPark(t)
      BY <1>1, <3>1, CallNextTaxiKeepsIInv DEF TakeFromPark, CallNextTaxi, Registered, site
    <3> QED
      BY <1>2, <2>1, <3>1 DEF Passenger, TakeWaiting, NoTaxi
  <2>2. CASE PickTerminal(t)
    <3>1. ending.badge \in Badges /\ returning.eta \in Nat
      BY <2>2, NoneFacts DEF PickTerminal, SimBase, SimTypeOK, LoopAgrees, EndedFare, Returning
    <3>2. ReturnToTerminal(ending.badge, t, returning.eta)
      BY <2>2 DEF PickTerminal
    <3>3. IInv'
      BY <1>1, <3>1, <3>2, ReturnToTerminalKeepsIInv
    <3> QED
      BY <3>2, <3>3 DEF ReturnToTerminal, Registered, site
  <2>3. CASE TerminalFull(t)
    BY <1>2, <2>3 DEF TerminalFull
  <2> QED
    BY <1>4, <2>1, <2>2, <2>3
<1>5. ASSUME NEW text \in Texts, NEW leg \in OneWayMinutes(PickFare(text)), Depart(text, leg)
      PROVE  IInv' /\ Registered' = Registered /\ terminals' = terminals
  <2>1. serving \in Badges
    BY <1>5 DEF Depart, SimBase, SimTypeOK
  <2>2. ASSUME NEW a \in Agents, RecordFare(serving, a, text, None, None)
        PROVE  IInv' /\ Registered' = Registered /\ terminals' = terminals
    <3>1. None \in FareClassification \cup {None} /\ None \in RoundTrips \cup {None}
      OBVIOUS
    <3>2. IInv'
      BY <1>1, <2>1, <2>2, <3>1, RecordFareKeepsIInv
    <3> QED
      BY <2>2, <3>2 DEF RecordFare, Registered, site
  <2> QED
    BY <1>2, <1>5, <2>2 DEF Depart
<1>6. CASE AfterFare
  <2>1. CASE LeaveFeederPark(ending.badge)
    <3>1. ending.badge \in Badges
      BY <1>6 DEF AfterFare, SimBase, SimTypeOK, EndedFare
    <3> QED
      BY <1>1, <2>1, <3>1, LeaveFeederParkKeepsIInv DEF LeaveFeederPark, Registered, site
  <2> QED
    BY <1>2, <1>6, <2>1 DEF AfterFare, BackInPark, NotReturning, ComesBack
<1>7. CASE SweepReturns
  BY <1>1, <1>7, PromoteDueReturnsKeepsIInv
     DEF SweepReturns, PromoteDueReturns, Registered, site
<1>8. CASE NextMinute
  <2>1. TypeOK'
    BY <1>1, <1>8, SimulationAssumption DEF NextMinute, TypeOK
  <2> QED
    BY <1>1, <1>8, <2>1, SiteStepKeepsIInv DEF NextMinute, Registered
<1>9. CASE AllTerminalsFull \/ NextPhase \/ DayOver \/ UNCHANGED simVars
  BY <1>2, <1>9 DEF AllTerminalsFull, NextPhase, DayOver, simVars
<1> QED
  BY <1>3, <1>4, <1>5, <1>6, <1>7, <1>8, <1>9 DEF SimNext

\* A counter that goes up stays a number.
LEMMA CountedProperties ==
  ASSUME SimTypeOK, NEW counter \in Counters, Counted(counter)
  PROVE  /\ stats' \in [Counters -> Nat]
         /\ stats'[counter] = stats[counter] + 1
         /\ \A c \in Counters : c # counter => stats'[c] = stats[c]
BY DEF SimTypeOK, Counted

\* So is a driver counted as not returned one of the drivers.
LEMMA NotReturnedType ==
  ASSUME SimTypeOK, NEW b \in Badges, NotReturned(b)
  PROVE  stats' \in [Counters -> Nat] /\ counted_out' \subseteq Badges
BY CountedProperties DEF SimTypeOK, NotReturned, Counters

\* Every step keeps the loop's variables in their types.
LEMMA TypeStep ==
  ASSUME SimBase, [SimNext]_simVars
  PROVE  SimTypeOK'
<1>1. /\ minute \in Minutes
      /\ phase \in Phases
      /\ shift_start \in [Badges -> ShiftStarts]
      /\ shift_end \in [Badges -> Nat]
      /\ serving \in Badges \cup {None}
      /\ ending \in EndedFare \cup {None}
      /\ returning \in Returning \cup {None}
      /\ fare_complete \in [Badges -> FiledFare \cup {None}]
      /\ promote_checks \in [Minutes -> [Badges -> Nat]]
      /\ retry_counts \in [Badges -> Nat]
      /\ terminal_waiting \in [Terminals -> Seq(Badges)]
      /\ stats \in [Counters -> Nat]
      /\ counted_out \subseteq Badges
  BY DEF SimBase, SimTypeOK
<1>2. SimTypeOK
  BY DEF SimBase
<1>3. ASSUME NEW b \in Badges, ShiftStart(b) \/ ShiftEnd(b)
      PROVE  SimTypeOK'
  BY <1>1, <1>3 DEF ShiftStart, ShiftEnd, SimTypeOK, day, jobs, buckets, counts
<1>4. ASSUME NEW b \in Badges, FareEnds(b)
      PROVE  SimTypeOK'
  <2>1. fare_complete[b] \in FiledFare
    BY <1>1, <1>4 DEF FareEnds, EndsThisMinute
  <2>2. [badge |-> b, fare |-> fare_complete[b].fare] \in EndedFare
    BY <2>1 DEF FiledFare, EndedFare
  <2>3. ending' \in EndedFare \cup {None}
    BY <1>4, <2>2 DEF FareEnds
  <2>4. fare_complete' \in [Badges -> FiledFare \cup {None}]
    BY <1>1, <1>4 DEF FareEnds
  <2>5. stats' \in [Counters -> Nat]
    BY <1>2, <1>4, CountedProperties DEF FareEnds, Counters
  <2> QED
    BY <1>1, <1>4, <2>3, <2>4, <2>5 DEF FareEnds, SimTypeOK, day
<1>5. ASSUME NEW b \in Badges, Retry(b)
      PROVE  SimTypeOK'
  <2> DEFINE visited == [promote_checks EXCEPT ![minute][b] = @ - 1]
             n == Bucket(minute + RetryDelay)
  <2>1. promote_checks[minute][b] \in Nat /\ promote_checks[minute][b] > 0
    BY <1>1, <1>5 DEF Retry, Checked
  <2>2. visited \in [Minutes -> [Badges -> Nat]]
    BY <1>1, <2>1
  <2>3. n \in Minutes
    <3>1. minute + RetryDelay \in Nat
      <4>1. minute \in Nat
        BY <1>1, MinutesAreNumbers DEF Minutes
      <4>2. RetryDelay \in Nat
        BY SimulationAssumption
      <4> QED
        BY <4>1, <4>2
    <3> QED
      BY <3>1, MinutesAreNumbers
  <2> HIDE DEF visited, n
  <2>4. [visited EXCEPT ![n][b] = @ + 1] \in [Minutes -> [Badges -> Nat]]
    BY <2>2, <2>3
  <2>5. promote_checks' \in [Minutes -> [Badges -> Nat]]
    BY <1>5, <2>2, <2>4 DEF Retry, visited, n
  <2>6. retry_counts' \in [Badges -> Nat]
    <3>1. CountRetry(b) \in [Badges -> Nat]
      BY <1>1 DEF CountRetry
    <3>2. retry_counts' = CountRetry(b) \/ retry_counts' = retry_counts
      BY <1>5 DEF Retry
    <3> QED
      BY <1>1, <3>1, <3>2
  <2>7. stats' \in [Counters -> Nat] /\ counted_out' \subseteq Badges
    <3>1. CASE UNCHANGED counts
      BY <1>1, <3>1 DEF counts
    <3>2. CASE NotReturned(b)
      BY <1>1, <1>2, <3>2, NotReturnedType
    <3> QED
      BY <1>5, <3>1, <3>2 DEF Retry, GiveUp
  <2> QED
    BY <1>1, <1>5, <2>5, <2>6, <2>7 DEF Retry, SimTypeOK, day, jobs
<1>6. ASSUME NEW t \in Terminals, Passenger(t)
      PROVE  SimTypeOK'
  <2>1. serving' \in Badges \cup {None} /\ terminal_waiting' \in [Terminals -> Seq(Badges)]
    <3>1. CASE TakeWaiting(t)
      <4>1. Head(terminal_waiting[t]) \in Badges /\ Tail(terminal_waiting[t]) \in Seq(Badges)
        BY <1>1, <3>1 DEF TakeWaiting
      <4> QED
        BY <1>1, <3>1, <4>1 DEF TakeWaiting
    <3>2. CASE TakeFromPark(t)
      <4>1. Head(feeder_park_queue) \in Badges
        BY <3>2 DEF TakeFromPark, CallNextTaxi, SimBase, IInv, TypeOK
      <4> QED
        BY <1>1, <3>2, <4>1 DEF TakeFromPark
    <3> QED
      BY <1>1, <1>6, <3>1, <3>2 DEF Passenger, NoTaxi
  <2> QED
    BY <1>1, <1>6, <2>1 DEF Passenger, SimTypeOK, day, counts
<1>7. ASSUME NEW t \in Terminals, PickTerminal(t)
      PROVE  SimTypeOK'
  <2> DEFINE b == ending.badge
             n == DueMinute(returning.eta)
  <2>1. b \in Badges /\ returning.eta \in Nat
    BY <1>1, <1>7, NoneFacts DEF PickTerminal, SimBase, LoopAgrees, EndedFare, Returning
  <2>2. n \in Minutes
    BY <2>1, FiledInTheDay
  <2> HIDE DEF b, n
  <2>3. [promote_checks EXCEPT ![n][b] = @ + 1] \in [Minutes -> [Badges -> Nat]]
    BY <1>1, <2>1, <2>2
  <2>4. [terminal_waiting EXCEPT ![t] = Append(@, b)] \in [Terminals -> Seq(Badges)]
    BY <1>1, <2>1
  <2>5. /\ promote_checks' \in [Minutes -> [Badges -> Nat]]
        /\ terminal_waiting' \in [Terminals -> Seq(Badges)]
    BY <1>1, <1>7, <2>3, <2>4 DEF PickTerminal, b, n
  <2>6. stats' \in [Counters -> Nat]
    BY <1>2, <1>7, CountedProperties DEF PickTerminal, Counters
  <2> QED
    BY <1>1, <1>7, <2>5, <2>6 DEF PickTerminal, SimTypeOK, day
<1>8. ASSUME NEW t \in Terminals, TerminalFull(t)
      PROVE  SimTypeOK'
  <2>1. returning \in Returning
    BY <1>1, <1>8 DEF TerminalFull
  <2>2. [returning EXCEPT !.full = @ \cup {t}] \in Returning
    BY <2>1 DEF Returning
  <2> QED
    BY <1>1, <1>8, <2>2 DEF TerminalFull, SimTypeOK, day, buckets, counts
<1>9. ASSUME NEW text \in Texts, NEW leg \in OneWayMinutes(PickFare(text)), Depart(text, leg)
      PROVE  SimTypeOK'
  <2> DEFINE filed == [minute |-> CompleteMinute(leg), fare |-> PickFare(text)]
  <2>1. filed \in FiledFare
    <3>1. PickFare(text) \in SimulatedFare /\ leg \in Nat
      BY PickFareType
    <3>2. CompleteMinute(leg) \in Nat
      BY <3>1, FiledInTheDay DEF Minutes
    <3> QED
      BY <3>1, <3>2 DEF FiledFare
  <2> HIDE DEF filed
  <2>2. [fare_complete EXCEPT ![serving] = filed] \in [Badges -> FiledFare \cup {None}]
    BY <1>1, <2>1
  <2>3. fare_complete' \in [Badges -> FiledFare \cup {None}]
    BY <1>1, <1>9, <2>2 DEF Depart, filed
  <2>4. stats' \in [Counters -> Nat]
    <3>1. CASE UNCHANGED stats
      BY <1>1, <3>1
    <3>2. CASE stats' = [stats EXCEPT !.fares = @ + 1,
                 !.exempt_fares =
                   IF PickFare(text).classification = "standard" THEN @ ELSE @ + 1]
      <4>1. /\ stats.fares + 1 \in Nat
            /\ (IF PickFare(text).classification = "standard"
                THEN stats.exempt_fares ELSE stats.exempt_fares + 1) \in Nat
        BY <1>1 DEF Counters
      <4>2. \A m, n \in Nat :
              [stats EXCEPT !.fares = m, !.exempt_fares = n] \in [Counters -> Nat]
        BY <1>1 DEF Counters
      <4> QED
        BY <3>2, <4>1, <4>2
    <3> QED
      BY <1>9, <3>1, <3>2 DEF Depart
  <2>5. phase' \in Phases
    BY <1>1, <1>9 DEF Depart, Phases
  <2> QED
    BY <1>1, <1>9, <2>3, <2>4, <2>5 DEF Depart, SimTypeOK, day
<1>10. CASE AfterFare
  <2>1. stats' \in [Counters -> Nat] /\ counted_out' \subseteq Badges
    <3>1. CASE UNCHANGED counts
      BY <1>1, <3>1 DEF counts
    <3>2. CASE NotReturned(ending.badge)
      <4>1. ending.badge \in Badges
        BY <1>1, <1>10 DEF AfterFare, EndedFare
      <4> QED
        BY <1>2, <3>2, <4>1, NotReturnedType
    <3> QED
      BY <1>10, <3>1, <3>2 DEF AfterFare, BackInPark, NotReturning, ComesBack
  <2>2. ending' \in EndedFare \cup {None}
    BY <1>1, <1>10 DEF AfterFare, BackInPark, NotReturning, ComesBack
  <2>3. returning' \in Returning \cup {None}
    <3>1. CASE ComesBack
      <4>1. ending.fare \in SimulatedFare
        BY <1>1, <1>10 DEF AfterFare, EndedFare
      <4>2. PICK eta \in ReturnLegMinutes(ending.fare) : returning' = [eta |-> eta, full |-> {}]
        BY <3>1 DEF ComesBack
      <4>3. eta \in Nat
        BY <4>1, <4>2, ReturnLegType
      <4> QED
        BY <4>2, <4>3 DEF Returning
    <3> QED
      BY <1>1, <1>10, <3>1 DEF AfterFare, BackInPark, NotReturning
  <2> QED
    BY <1>1, <1>10, <2>1, <2>2, <2>3 DEF AfterFare, SimTypeOK, day, buckets
<1>11. CASE AllTerminalsFull
  <2>1. ending.badge \in Badges
    BY <1>1, <1>11 DEF AllTerminalsFull, SimBase, LoopAgrees, EndedFare
  <2>2. stats' \in [Counters -> Nat] /\ counted_out' \subseteq Badges
    BY <1>2, <1>11, <2>1, NotReturnedType DEF AllTerminalsFull
  <2> QED
    BY <1>1, <1>11, <2>2 DEF AllTerminalsFull, SimTypeOK, day, buckets
<1>12. CASE SweepReturns
  <2>1. ASSUME NEW t \in Terminals
        PROVE  terminal_waiting[t] \o InRegistrationOrder(SeatedAt(t)) \in Seq(Badges)
    <3>1. SeatedAt(t) \subseteq Registered
      BY DEF SeatedAt, SimBase
    <3>2. InRegistrationOrder(SeatedAt(t)) \in Seq(Badges)
      BY <3>1, InRegistrationOrderProperties DEF SimBase
    <3> QED
      BY <1>1, <3>2
  <2>2. terminal_waiting' \in [Terminals -> Seq(Badges)]
    BY <1>12, <2>1 DEF SweepReturns
  <2> QED
    BY <1>1, <1>12, <2>2 DEF SweepReturns, SimTypeOK, day, jobs, counts, Phases
<1>13. CASE NextPhase
  BY <1>1, <1>13 DEF NextPhase, PhaseOver, SimTypeOK, day, jobs, buckets, counts, Phases
<1>14. CASE NextMinute
  <2>1. minute' \in Minutes
    BY <1>1, <1>14, MinutesAreNumbers DEF NextMinute, Minutes
  <2> QED
    BY <1>1, <1>14, <2>1 DEF NextMinute, SimTypeOK, day, jobs, buckets, counts, Phases
<1>15. CASE DayOver
  BY <1>1, <1>15 DEF DayOver, SimTypeOK, day, jobs, buckets, counts, Phases
<1>16. CASE UNCHANGED simVars
  BY <1>1, <1>16 DEF simVars, SimTypeOK, day, jobs, buckets, counts
<1> QED
  BY <1>3, <1>4, <1>5, <1>6, <1>7, <1>8, <1>9, <1>10, <1>11, <1>12, <1>13, <1>14,
     <1>15, <1>16 DEF SimNext

\* Every step leaves the loop with what belongs to the phase it is in.
LEMMA LoopStep ==
  ASSUME SimBase, [SimNext]_simVars
  PROVE  LoopAgrees'
<1>1. /\ serving # None => phase = "demand"
      /\ ending # None => phase = "fares"
      /\ returning # None => /\ ending # None
                             /\ taxis[ending.badge].status = "return_exempt"
      /\ phase = "done" => minute = LastMinute
  BY DEF SimBase, LoopAgrees
<1>2. /\ ending \in EndedFare \cup {None}
      /\ returning \in Returning \cup {None}
  BY DEF SimBase, SimTypeOK
<1>3. ASSUME NEW b \in Badges, ShiftStart(b) \/ FareEnds(b) \/ Retry(b) \/ ShiftEnd(b)
      PROVE  LoopAgrees'
  BY <1>1, <1>3 DEF ShiftStart, FareEnds, Retry, ShiftEnd, LoopAgrees, jobs
<1>4. ASSUME NEW t \in Terminals, Passenger(t) \/ PickTerminal(t) \/ TerminalFull(t)
      PROVE  LoopAgrees'
  BY <1>1, <1>4, RecordAssumption
     DEF Passenger, PickTerminal, TerminalFull, LoopAgrees, vars
<1>5. ASSUME NEW text \in Texts, NEW leg \in OneWayMinutes(PickFare(text)), Depart(text, leg)
      PROVE  LoopAgrees'
  BY <1>1, <1>5 DEF Depart, LoopAgrees
<1>6. CASE AfterFare
  <2>1. CASE BackInPark
    BY <1>1, <1>6, <2>1 DEF AfterFare, BackInPark, LoopAgrees
  <2>2. CASE NotReturning \/ ComesBack
    BY <1>1, <1>6, <2>2 DEF AfterFare, NotReturning, ComesBack, LoopAgrees, vars
  <2> QED
    BY <1>6, <2>1, <2>2 DEF AfterFare
<1>7. CASE AllTerminalsFull \/ SweepReturns
  BY <1>1, <1>7 DEF AllTerminalsFull, SweepReturns, LoopAgrees, jobs
<1>8. CASE NextPhase \/ NextMinute \/ DayOver \/ UNCHANGED simVars
  BY <1>1, <1>8 DEF NextPhase, PhaseOver, NextMinute, DayOver, MinuteOver, LoopAgrees,
                    jobs, simVars, vars
<1> QED
  BY <1>3, <1>4, <1>5, <1>6, <1>7, <1>8 DEF SimNext

\* The clock is set when the loop goes to the next minute, and at no other step.
LEMMA ClockStep ==
  ASSUME SimBase, [SimNext]_simVars
  PROVE  ClockAgrees'
<1>1. /\ now = minute * SimMinute
      /\ minute \in Nat
      /\ SimMinute \in Nat
  BY SimulationAssumption, MinutesAreNumbers DEF SimBase, ClockAgrees, SimTypeOK, Minutes
<1>2. ASSUME UNCHANGED <<now, minute>>
      PROVE  ClockAgrees'
  BY <1>1, <1>2 DEF ClockAgrees
<1>3. ASSUME NEW b \in Badges, ShiftStart(b) \/ FareEnds(b) \/ Retry(b) \/ ShiftEnd(b)
      PROVE  ClockAgrees'
  BY <1>2, <1>3 DEF ShiftStart, JoinFeederPark, FareEnds, CompleteFare, Retry, ShiftEnd,
                    LeaveFeederPark, site, vars
<1>4. ASSUME NEW t \in Terminals, Passenger(t) \/ PickTerminal(t) \/ TerminalFull(t)
      PROVE  ClockAgrees'
  BY <1>2, <1>4 DEF Passenger, TakeWaiting, TakeFromPark, CallNextTaxi, NoTaxi,
                    PickTerminal, ReturnToTerminal, TerminalFull, site, vars
<1>5. ASSUME NEW text \in Texts, NEW leg \in OneWayMinutes(PickFare(text)), Depart(text, leg)
      PROVE  ClockAgrees'
  BY <1>2, <1>5 DEF Depart, RecordFare, site, vars
<1>6. CASE AfterFare \/ AllTerminalsFull \/ SweepReturns
  BY <1>2, <1>6 DEF AfterFare, BackInPark, LeaveFeederPark, NotReturning, ComesBack,
                    AllTerminalsFull, SweepReturns, PromoteDueReturns, site, vars
<1>7. CASE NextMinute
  <2>1. now' = minute * SimMinute + SimMinute /\ minute' = minute + 1
    BY <1>1, <1>7 DEF NextMinute
  <2>2. (minute + 1) * SimMinute = minute * SimMinute + SimMinute
    BY <1>1
  <2> QED
    BY <2>1, <2>2 DEF ClockAgrees
<1>8. CASE NextPhase \/ DayOver \/ UNCHANGED simVars
  <2>1. UNCHANGED vars /\ UNCHANGED minute
    BY <1>8 DEF NextPhase, DayOver, simVars
  <2> QED
    BY <1>2, <2>1 DEF vars, site
<1> QED
  BY <1>3, <1>4, <1>5, <1>6, <1>7, <1>8 DEF SimNext

\* So whatever the day brings, the store keeps its invariant, and the minute the
\* loop is in is the time the store goes by.
THEOREM SimInvariance == SimSpec => []SimBase
<1>1. SimBase /\ [SimNext]_simVars => SimBase'
  BY StoreStep, TypeStep, LoopStep, ClockStep DEF SimBase
<1> QED
  BY SimInitIsRight, <1>1, PTL DEF SimSpec

\* A fare that is completed is the taxi's own, also in the simulation, where
\* fares end in the order of the minutes they are filed in.
THEOREM SimulatedLedgerIsRight == SimSpec => []FareLedgerAgrees
<1>1. SimBase => FareLedgerAgrees
  BY DEF SimBase, IInv
<1> QED
  BY <1>1, SimInvariance, PTL

----------------------------------------------------------------------------
(***************************************************************************)
(* What each operation of the store does to the statuses.                  *)
(***************************************************************************)

\* The status of one taxi goes from one value to another, and nothing else of
\* any taxi changes but what the operation says of that one.
Moves(b, from, to) ==
  /\ taxis[b].status = from
  /\ taxis'[b].status = to
  /\ \A c \in Badges : c # b => taxis'[c] = taxis[c]

\* A driver joins or leaves the park.
LEMMA ParkMoves ==
  ASSUME IInv, NEW b \in Badges
  PROVE  /\ JoinFeederPark(b) => Moves(b, "offline", "in_feeder_park")
         /\ LeaveFeederPark(b) => Moves(b, "in_feeder_park", "offline")
<1>1. taxis \in [Badges -> Taxi]
  BY DEF IInv, TypeOK
<1>2. ASSUME JoinFeederPark(b) PROVE Moves(b, "offline", "in_feeder_park")
  BY <1>1, <1>2 DEF JoinFeederPark, Moves, Taxi
<1>3. ASSUME LeaveFeederPark(b) PROVE Moves(b, "in_feeder_park", "offline")
  BY <1>1, <1>3 DEF LeaveFeederPark, Moves, Taxi
<1> QED
  BY <1>2, <1>3

\* The front of the park is called to a terminal.
LEMMA CallMoves ==
  ASSUME IInv, NEW t \in Terminals, CallNextTaxi(t)
  PROVE  LET b == Head(feeder_park_queue)
         IN  /\ b \in Badges
             /\ Moves(b, "in_feeder_park", "called")
             /\ taxis'[b].terminal_id = t
<1> DEFINE b == Head(feeder_park_queue)
<1>1. b \in ToSet(feeder_park_queue) /\ b \in Badges
  BY TailProperties DEF CallNextTaxi, IInv, TypeOK, QueueHoldsTheWaiting
<1>2. taxis[b].status = "in_feeder_park"
  BY <1>1 DEF IInv, QueueHoldsTheWaiting
<1>3. taxis[b] \in Taxi /\ taxis \in [Badges -> Taxi]
  BY <1>1 DEF IInv, TypeOK
<1>4. taxis' = [taxis EXCEPT ![b] = [taxis[b] EXCEPT !.status = "called", !.terminal_id = t,
                                                     !.self_checked_in = FALSE]]
  BY <1>1, <1>3 DEF CallNextTaxi
<1> HIDE DEF b
<1>5. Moves(b, "in_feeder_park", "called") /\ taxis'[b].terminal_id = t
  BY <1>1, <1>2, <1>3, <1>4 DEF Moves, Taxi
<1> QED
  BY <1>1, <1>5 DEF b

\* A taxi waiting departs.
LEMMA FareMoves ==
  ASSUME IInv, NEW b \in Badges, NEW a, NEW text, RecordFare(b, a, text, None, None)
  PROVE  Moves(b, "called", "on_fare")
<1>1. taxis \in [Badges -> Taxi]
  BY DEF IInv, TypeOK
<1>2. taxis[b].status = "called"
  BY DEF RecordFare, WaitingAtRank
<1>3. PICK f \in FareIds :
        taxis' = [taxis EXCEPT ![b].current_fare_id = f, ![b].status = "on_fare"]
  BY DEF RecordFare
<1> QED
  BY <1>1, <1>2, <1>3 DEF Moves, Taxi

\* A taxi back from its fare is in the park, or has a return to make and has not
\* chosen a terminal yet.
LEMMA CompletionMoves ==
  ASSUME IInv, NEW b \in Badges, CompleteFare(b)
  PROVE  /\ \/ Moves(b, "on_fare", "in_feeder_park")
            \/ Moves(b, "on_fare", "return_exempt")
         /\ taxis'[b].pending_return_terminal_id = None
<1> DEFINE idle == OffFare(taxis[b])
           fare == fares[taxis[b].current_fare_id]
           deadline == now + ReturnDeadlineTicks(traffic_level, fare.classification,
                                                 fare.round_trip_minutes)
<1>1. taxis \in [Badges -> Taxi] /\ taxis[b] \in Taxi
  BY DEF IInv, TypeOK
<1>2. taxis[b].status = "on_fare" /\ taxis[b].pending_return_terminal_id = None
  BY DEF CompleteFare, IInv, RecordsCoherent
<1>3. CASE fare.classification = "standard"
  <2>1. taxis' = [taxis EXCEPT ![b] = [idle EXCEPT !.status = "in_feeder_park",
                     !.exemption_type = None, !.return_deadline = None]]
    BY <1>3 DEF CompleteFare
  <2> HIDE DEF fare
  <2>2. /\ Moves(b, "on_fare", "in_feeder_park")
        /\ taxis'[b].pending_return_terminal_id = None
    BY <1>1, <1>2, <2>1 DEF Moves, OffFare, Taxi
  <2> QED
    BY <2>2
<1>4. CASE fare.classification # "standard"
  <2>1. taxis' = [taxis EXCEPT ![b] = [idle EXCEPT !.status = "return_exempt",
                     !.exemption_type = fare.classification, !.return_deadline = deadline]]
    BY <1>4 DEF CompleteFare
  <2> HIDE DEF fare, deadline
  <2>2. /\ Moves(b, "on_fare", "return_exempt")
        /\ taxis'[b].pending_return_terminal_id = None
    BY <1>1, <1>2, <2>1 DEF Moves, OffFare, Taxi
  <2> QED
    BY <2>2
<1> QED
  BY <1>3, <1>4

\* A driver close enough checks in; another stays exempt, with a terminal chosen.
LEMMA ReturnMoves ==
  ASSUME IInv, NEW b \in Badges, NEW t \in Terminals, NEW eta \in Nat,
         ReturnToTerminal(b, t, eta)
  PROVE  /\ eta <= Lead => /\ Moves(b, "return_exempt", "called")
                           /\ taxis'[b].terminal_id = t
                           /\ taxis'[b].self_checked_in
         /\ ~(eta <= Lead) => /\ Moves(b, "return_exempt", "return_exempt")
                              /\ taxis'[b].pending_return_terminal_id = t
<1>1. taxis \in [Badges -> Taxi] /\ taxis[b] \in Taxi
  BY DEF IInv, TypeOK
<1>2. taxis[b].status = "return_exempt"
  BY DEF ReturnToTerminal
<1>3. CASE eta <= Lead
  <2>1. taxis' = [taxis EXCEPT ![b] = AddTaxiToTerminal(taxis[b], t)]
    BY <1>1, <1>3 DEF ReturnToTerminal
  <2> QED
    BY <1>1, <1>2, <1>3, <2>1, AddTaxiToTerminalProperties DEF Moves
<1>4. CASE ~(eta <= Lead)
  <2> DEFINE arrival == now + eta * MinuteTicks
  <2>1. taxis' = [taxis EXCEPT ![b].pending_return_terminal_id = t,
                               ![b].expected_arrival_at = arrival]
    BY <1>4 DEF ReturnToTerminal
  <2> HIDE DEF arrival
  <2> QED
    BY <1>1, <1>2, <1>4, <2>1 DEF Moves, Taxi
<1> QED
  BY <1>3, <1>4

\* The sweep checks in those it promotes, each at its terminal; no terminal is
\* ever gone, so it changes nothing of the others.
LEMMA SweepMoves ==
  ASSUME SimBase, PromoteDueReturns, NEW b \in Badges
  PROVE  /\ Promoted(b) => /\ Pending(b)
                           /\ taxis'[b].status = "called"
                           /\ taxis'[b].terminal_id = taxis[b].pending_return_terminal_id
                           /\ taxis'[b].self_checked_in
         /\ ~Promoted(b) => taxis'[b] = taxis[b]
<1>1. IInv /\ taxis[b] \in Taxi /\ taxis'[b] = Swept(b)
  BY DEF SimBase, IInv, TypeOK, PromoteDueReturns
<1>2. ~Stranded(b)
  <2> SUFFICES ASSUME Stranded(b) PROVE FALSE
    OBVIOUS
  <2>1. taxis[b].pending_return_terminal_id \in Terminals
    BY <1>1 DEF Stranded, Due, Taxi
  <2> QED
    BY <2>1, RankAssumption DEF Stranded, TerminalExists, SimBase
<1>3. CASE Promoted(b)
  BY <1>1, <1>3, SweptProperties, AddTaxiToTerminalProperties, NoneFacts DEF Pending
<1>4. CASE ~Promoted(b)
  BY <1>1, <1>2, <1>4 DEF Swept
<1> QED
  BY <1>3, <1>4

----------------------------------------------------------------------------
(***************************************************************************)
(* Shifts: a driver in the park is on shift, but for the one whose fare    *)
(* has just ended, which the loop looks at next.                           *)
(***************************************************************************)

OnShift(b) ==
  /\ shift_end[b] >= shift_start[b]
  /\ taxis[b].status = "in_feeder_park" =>
       /\ phase # "done"
       /\ (ending # None /\ ending.badge = b) \/ shift_end[b] >= minute

ParkIsOnShift == \A b \in Badges : OnShift(b)

\* No shift ends before it starts.
LEMMA ShiftsAreRight == SimInit => ParkIsOnShift
<1> SUFFICES ASSUME SimInit, NEW b \in Badges PROVE OnShift(b)
  BY DEF ParkIsOnShift
<1>1. PICK length \in [Badges -> ShiftLengths] :
        shift_end = [c \in Badges |-> ShiftEndMinute(shift_start[c], length[c])]
  BY DEF SimInit, Shifts
<1>2. shift_start[b] \in ShiftStarts /\ length[b] \in ShiftLengths
  BY <1>1 DEF SimInit, Shifts
<1>3. shift_start[b] \in Nat /\ length[b] \in Nat /\ MinShift \in Nat /\ DayMinutes \in Nat
  <2>1. /\ ShiftStarts \subseteq Nat /\ ShiftLengths \subseteq Nat
        /\ MinShift \in Nat /\ DayMinutes \in Nat
    BY SimulationAssumption
  <2> QED
    BY <1>2, <2>1
<1>4. ShiftEndMinute(shift_start[b], length[b]) >= shift_start[b]
  BY <1>3 DEF ShiftEndMinute, Larger
<1>5. taxis[b].status # "in_feeder_park"
  BY DEF SimInit, NewTaxi
<1> QED
  BY <1>1, <1>4, <1>5 DEF OnShift

\* A shift's start puts the driver in the park in the minute it starts, a fare's
\* end only until the loop has looked at the shift, and a minute is over when
\* those have left whose shift ends in it.
LEMMA ParkStep ==
  ASSUME SimBase, ParkIsOnShift, [SimNext]_simVars
  PROVE  ParkIsOnShift'
<1> SUFFICES ASSUME NEW b \in Badges PROVE OnShift(b)'
  BY DEF ParkIsOnShift
<1>1. /\ IInv
      /\ minute \in Nat /\ minute <= LastMinute /\ LastMinute \in Nat
      /\ shift_start[b] \in Nat /\ shift_end[b] \in Nat
      /\ shift_start[b] <= LastMinute
  <2>1. minute \in Nat /\ minute <= LastMinute /\ LastMinute \in Nat
    BY MinutesAreNumbers DEF SimBase, SimTypeOK, Minutes
  <2>2. shift_start[b] \in ShiftStarts /\ shift_end[b] \in Nat
    BY DEF SimBase, SimTypeOK
  <2>3. shift_start[b] \in 0..(DayMinutes - 1) /\ DayMinutes \in Nat
    BY <2>2, SimulationAssumption
  <2>4. LastMinute >= DayMinutes - 1
    BY MinutesAreNumbers
  <2> QED
    BY <2>1, <2>2, <2>3, <2>4 DEF SimBase
<1>2. /\ OnShift(b)
      /\ ending # None => phase = "fares"
  BY DEF ParkIsOnShift, SimBase, LoopAgrees
<1>3. \A m \in Nat : m <= LastMinute => Bucket(m) = m
  BY <1>1 DEF Bucket
\* Nothing that matters to the driver changes.
<1>4. ASSUME UNCHANGED <<minute, phase, day, ending>>,
             taxis'[b].status = taxis[b].status
      PROVE  OnShift(b)'
  BY <1>2, <1>4 DEF OnShift, day
\* The driver is not in the park any more.
<1>5. ASSUME UNCHANGED day, taxis'[b].status # "in_feeder_park"
      PROVE  OnShift(b)'
  BY <1>2, <1>5 DEF OnShift, day
<1>6. ASSUME NEW c \in Badges, ShiftStart(c) PROVE OnShift(b)'
  <2>1. Moves(c, "offline", "in_feeder_park")
    BY <1>1, <1>6, ParkMoves DEF ShiftStart
  <2>2. CASE c = b
    <3>1. shift_start[b] = minute
      BY <1>1, <1>3, <1>6, <2>2 DEF ShiftStart, StartsNow
    <3> QED
      BY <1>1, <1>2, <1>6, <3>1 DEF ShiftStart, OnShift, day
  <2>3. CASE c # b
    BY <1>4, <1>6, <2>1, <2>3 DEF ShiftStart, Moves, jobs
  <2> QED
    BY <2>2, <2>3
<1>7. ASSUME NEW c \in Badges, ShiftEnd(c) PROVE OnShift(b)'
  <2>1. Moves(c, "in_feeder_park", "offline")
    BY <1>1, <1>7, ParkMoves DEF ShiftEnd
  <2> QED
    BY <1>4, <1>5, <1>7, <2>1 DEF ShiftEnd, Moves, jobs
<1>8. ASSUME NEW c \in Badges, FareEnds(c) PROVE OnShift(b)'
  <2>1. \/ Moves(c, "on_fare", "in_feeder_park")
        \/ Moves(c, "on_fare", "return_exempt")
    BY <1>1, <1>8, CompletionMoves DEF FareEnds
  <2>2. /\ ending = None
        /\ ending' = [badge |-> c, fare |-> fare_complete[c].fare]
        /\ ending' # None
    <3>1. ending' \in EndedFare \cup {None}
      BY TypeStep DEF SimTypeOK
    <3>2. ending' = [badge |-> c, fare |-> fare_complete[c].fare]
      BY <1>8 DEF FareEnds
    <3>3. fare_complete[c] \in FiledFare
      BY <1>8 DEF FareEnds, EndsThisMinute, SimBase, SimTypeOK
    <3>4. ending' \in EndedFare
      BY <3>2, <3>3 DEF EndedFare, FiledFare
    <3> QED
      BY <1>8, <3>2, <3>4, RecordAssumption DEF FareEnds
  <2>3. CASE c = b
    BY <1>2, <1>8, <2>2, <2>3 DEF FareEnds, OnShift, day
  <2>4. CASE c # b
    BY <1>2, <1>8, <2>1, <2>2, <2>4 DEF FareEnds, Moves, OnShift, day
  <2> QED
    BY <2>3, <2>4
<1>9. ASSUME UNCHANGED vars, UNCHANGED <<minute, phase, day, ending>> PROVE OnShift(b)'
  BY <1>4, <1>9 DEF vars
<1>10. ASSUME NEW t \in Terminals, Passenger(t) PROVE OnShift(b)'
  <2>1. CASE TakeFromPark(t)
    <3> DEFINE front == Head(feeder_park_queue)
    <3>1. front \in Badges /\ Moves(front, "in_feeder_park", "called")
      BY <1>1, <2>1, CallMoves DEF TakeFromPark
    <3> HIDE DEF front
    <3> QED
      BY <1>4, <1>5, <1>10, <3>1 DEF Passenger, Moves
  <2> QED
    BY <1>9, <1>10, <2>1 DEF Passenger, TakeWaiting, NoTaxi
<1>11. ASSUME NEW text \in Texts, NEW leg \in OneWayMinutes(PickFare(text)), Depart(text, leg)
       PROVE  OnShift(b)'
  <2>1. serving \in Badges
    BY <1>11 DEF Depart, SimBase, SimTypeOK
  <2>2. CASE WaitingAtRank(serving)
    <3>1. Moves(serving, "called", "on_fare")
      BY <1>1, <1>11, <2>1, <2>2, FareMoves DEF Depart
    <3> QED
      BY <1>4, <1>5, <1>11, <2>2, <3>1 DEF Depart, Moves
  <2>3. CASE ~WaitingAtRank(serving)
    BY <1>2, <1>11, <2>3 DEF Depart, OnShift, day, vars
  <2> QED
    BY <2>2, <2>3
<1>12. CASE AfterFare
  <2>1. /\ ending.badge \in Badges /\ ending # None
        /\ UNCHANGED <<minute, phase, day>>
    BY <1>12 DEF AfterFare, SimBase, SimTypeOK, EndedFare
  <2>2. CASE BackInPark
    <3>1. CASE ShiftIsOver(ending.badge)
      <4>1. Moves(ending.badge, "in_feeder_park", "offline")
        BY <1>1, <2>1, <2>2, <3>1, ParkMoves DEF BackInPark
      <4>2. CASE ending.badge = b
        BY <1>5, <2>1, <4>1, <4>2 DEF Moves
      <4>3. CASE ending.badge # b
        BY <1>2, <2>1, <4>1, <4>3 DEF Moves, OnShift, day
      <4> QED
        BY <4>2, <4>3
    <3>2. CASE ~ShiftIsOver(ending.badge)
      <4>1. UNCHANGED taxis
        BY <2>2, <3>2 DEF BackInPark, vars
      <4>2. ending.badge = b => shift_end[b] >= minute
        BY <1>1, <3>2 DEF ShiftIsOver
      <4> QED
        BY <1>2, <2>1, <4>1, <4>2 DEF OnShift, day
    <3> QED
      BY <3>1, <3>2
  <2>3. CASE NotReturning
    BY <1>2, <2>1, <2>3 DEF NotReturning, OnShift, day, vars
  <2>4. CASE ComesBack
    BY <1>9, <2>1, <2>4 DEF ComesBack
  <2> QED
    BY <1>12, <2>2, <2>3, <2>4 DEF AfterFare
<1>13. ASSUME NEW t \in Terminals, PickTerminal(t) PROVE OnShift(b)'
  <2> DEFINE c == ending.badge
             eta == returning.eta
  <2>1. c \in Badges /\ eta \in Nat /\ ending # None
    BY <1>13 DEF PickTerminal, SimBase, SimTypeOK, LoopAgrees, EndedFare, Returning
  <2>2. ReturnToTerminal(c, t, eta)
    BY <1>13 DEF PickTerminal
  <2> HIDE DEF c, eta
  <2>3. Moves(c, "return_exempt", "called") \/ Moves(c, "return_exempt", "return_exempt")
    BY <1>1, <2>1, <2>2, ReturnMoves
  <2>4. UNCHANGED <<minute, phase, day>> /\ ending' = None
    BY <1>13 DEF PickTerminal
  <2>5. CASE c = b
    BY <1>5, <2>3, <2>4, <2>5 DEF Moves
  <2>6. CASE c # b
    BY <1>2, <2>3, <2>4, <2>6 DEF Moves, OnShift, day, c
  <2> QED
    BY <2>5, <2>6
<1>14. CASE AllTerminalsFull
  <2>1. ending # None /\ taxis[ending.badge].status = "return_exempt"
    BY <1>14 DEF AllTerminalsFull, SimBase, LoopAgrees
  <2> QED
    BY <1>2, <1>14, <2>1 DEF AllTerminalsFull, OnShift, day, vars
<1>15. ASSUME NEW t \in Terminals, TerminalFull(t) PROVE OnShift(b)'
  BY <1>9, <1>15 DEF TerminalFull
<1>16. ASSUME NEW c \in Badges, Retry(c) PROVE OnShift(b)'
  BY <1>9, <1>16 DEF Retry, jobs
<1>17. CASE SweepReturns
  <2>1. Promoted(b) => taxis'[b].status = "called"
    BY <1>17, SweepMoves DEF SweepReturns
  <2>2. ~Promoted(b) => taxis'[b] = taxis[b]
    BY <1>17, SweepMoves DEF SweepReturns
  <2>3. UNCHANGED <<minute, day, ending>> /\ phase' = "retries"
    BY <1>17 DEF SweepReturns, jobs
  <2> QED
    BY <1>2, <1>5, <2>1, <2>2, <2>3 DEF OnShift, day
<1>18. CASE NextPhase
  BY <1>2, <1>18 DEF NextPhase, PhaseOver, OnShift, day, jobs, vars
<1>19. CASE MinuteOver /\ (NextMinute \/ DayOver)
  <2>1. phase = "ends" /\ ending = None
    BY <1>2, <1>19 DEF MinuteOver
  <2>2. taxis[b].status = "in_feeder_park" => shift_end[b] >= minute
    BY <1>2, <2>1 DEF OnShift
  <2>3. taxis[b].status = "in_feeder_park" => Bucket(shift_end[b]) # minute
    BY <1>19 DEF MinuteOver, EndsNow
  <2>4. taxis[b].status = "in_feeder_park" => shift_end[b] > minute /\ minute < LastMinute
    BY <1>1, <2>2, <2>3 DEF Bucket
  <2>5. CASE NextMinute
    BY <1>1, <1>2, <2>4, <2>5 DEF NextMinute, OnShift, day
  <2>6. CASE DayOver
    BY <1>1, <1>2, <2>4, <2>6 DEF DayOver, OnShift, day, vars
  <2> QED
    BY <1>19, <2>5, <2>6
<1>20. CASE UNCHANGED simVars
  BY <1>9, <1>20 DEF simVars, jobs
<1> QED
  BY <1>6, <1>7, <1>8, <1>10, <1>11, <1>12, <1>13, <1>14, <1>15, <1>16, <1>17, <1>18,
     <1>19, <1>20 DEF SimNext, NextMinute, DayOver

\* Nobody whose shift is over is in the park when a minute begins, and nobody at
\* all when the day is over, however late a fare or a return brings the driver back.
THEOREM OffShiftLeaves == SimSpec => []OffShiftLeavesThePark
<1>1. SimBase /\ ParkIsOnShift /\ [SimNext]_simVars => ParkIsOnShift'
  BY ParkStep
<1>2. SimBase /\ ParkIsOnShift => OffShiftLeavesThePark
  BY DEF ParkIsOnShift, OnShift, OffShiftLeavesThePark, SimBase, LoopAgrees
<1> QED
  BY <1>1, <1>2, ShiftsAreRight, SimInvariance, PTL DEF SimSpec

----------------------------------------------------------------------------
(***************************************************************************)
(* Fares: each taxi on a fare is filed in a minute of the day that is still *)
(* to come, and the counters differ by the number of those.                *)
(***************************************************************************)

FiledWell(b) ==
  /\ taxis[b].status = "on_fare" <=> fare_complete[b] # None
  /\ fare_complete[b] # None =>
       /\ fare_complete[b].minute \in minute..LastMinute
       /\ phase \in {"sweep", "retries", "ends", "done"} =>
            fare_complete[b].minute # minute

OnAFare == {b \in Badges : fare_complete[b] # None}

FiledFares ==
  /\ \A b \in Badges : FiledWell(b)
  /\ stats.fares = stats.completed + Cardinality(OnAFare)

\* The day begins without a fare.
LEMMA NothingIsFiled == SimInit => FiledFares
<1> SUFFICES ASSUME SimInit PROVE FiledFares
  OBVIOUS
<1>1. \A b \in Badges : FiledWell(b)
  BY DEF SimInit, FiledWell, NewTaxi
<1>2. OnAFare = {}
  BY DEF SimInit, OnAFare
<1>3. stats.fares = 0 /\ stats.completed = 0 /\ Cardinality({}) = 0
  BY FS_EmptySet DEF SimInit, NoStats
<1> QED
  BY <1>1, <1>2, <1>3 DEF FiledFares

\* A step files the fare it starts and takes off the one it ends; the loop goes on
\* to the sweep when none is left for the minute.
LEMMA FiledStep ==
  ASSUME SimBase, NEW b \in Badges, FiledWell(b), [SimNext]_simVars
  PROVE  FiledWell(b)'
<1>1. /\ IInv
      /\ minute \in Nat /\ minute <= LastMinute /\ LastMinute \in Nat
      /\ fare_complete \in [Badges -> FiledFare \cup {None}]
      /\ fare_complete[b] # None => fare_complete[b].minute \in Nat
  <2>1. IInv /\ fare_complete \in [Badges -> FiledFare \cup {None}]
    BY DEF SimBase, SimTypeOK
  <2>2. minute \in Nat /\ minute <= LastMinute /\ LastMinute \in Nat
    BY MinutesAreNumbers DEF SimBase, SimTypeOK, Minutes
  <2>3. fare_complete[b] # None => fare_complete[b] \in FiledFare
    BY <2>1
  <2> QED
    BY <2>1, <2>2, <2>3 DEF FiledFare
\* Nothing that matters to the driver changes.
<1>3. ASSUME UNCHANGED <<minute, phase>>, fare_complete'[b] = fare_complete[b],
             taxis'[b].status = "on_fare" <=> taxis[b].status = "on_fare"
      PROVE  FiledWell(b)'
  BY <1>3 DEF FiledWell
<1>4. ASSUME UNCHANGED vars, UNCHANGED <<minute, phase, fare_complete>>
      PROVE  FiledWell(b)'
  BY <1>3, <1>4 DEF vars
<1>5. ASSUME NEW c \in Badges, ShiftStart(c) \/ ShiftEnd(c) PROVE FiledWell(b)'
  <2>1. Moves(c, "offline", "in_feeder_park") \/ Moves(c, "in_feeder_park", "offline")
    BY <1>1, <1>5, ParkMoves DEF ShiftStart, ShiftEnd
  <2> QED
    BY <1>3, <1>5, <2>1 DEF ShiftStart, ShiftEnd, Moves, buckets
<1>6. ASSUME NEW c \in Badges, FareEnds(c) PROVE FiledWell(b)'
  <2>1. \/ Moves(c, "on_fare", "in_feeder_park")
        \/ Moves(c, "on_fare", "return_exempt")
    BY <1>1, <1>6, CompletionMoves DEF FareEnds
  <2>2. fare_complete' = [fare_complete EXCEPT ![c] = None] /\ UNCHANGED <<minute, phase>>
    BY <1>6 DEF FareEnds
  <2>3. CASE c = b
    BY <1>1, <2>1, <2>2, <2>3 DEF FiledWell, Moves
  <2>4. CASE c # b
    BY <1>1, <1>3, <2>1, <2>2, <2>4 DEF Moves
  <2> QED
    BY <2>3, <2>4
<1>7. ASSUME NEW t \in Terminals, Passenger(t) PROVE FiledWell(b)'
  <2>1. CASE TakeFromPark(t)
    <3> DEFINE front == Head(feeder_park_queue)
    <3>1. front \in Badges /\ Moves(front, "in_feeder_park", "called")
      BY <1>1, <2>1, CallMoves DEF TakeFromPark
    <3> HIDE DEF front
    <3> QED
      BY <1>3, <1>7, <3>1 DEF Passenger, Moves
  <2> QED
    BY <1>4, <1>7, <2>1 DEF Passenger, TakeWaiting, NoTaxi
<1>8. ASSUME NEW text \in Texts, NEW leg \in OneWayMinutes(PickFare(text)), Depart(text, leg)
      PROVE  FiledWell(b)'
  <2> DEFINE filed == [minute |-> CompleteMinute(leg), fare |-> PickFare(text)]
  <2>1. serving \in Badges
    BY <1>8 DEF Depart, SimBase, SimTypeOK
  <2>2. CASE WaitingAtRank(serving)
    <3>1. Moves(serving, "called", "on_fare")
      BY <1>1, <1>8, <2>1, <2>2, FareMoves DEF Depart
    <3>2. /\ fare_complete' = [fare_complete EXCEPT ![serving] = filed]
          /\ UNCHANGED <<minute, phase>> /\ phase = "demand"
      BY <1>8, <2>2 DEF Depart
    <3>3. CASE serving = b
      <4>1. leg \in Nat
        BY PickFareType
      <4>2. /\ CompleteMinute(leg) \in minute..LastMinute
            /\ CompleteMinute(leg) \in Nat
        BY <1>1, <4>1, FiledInTheDay DEF Minutes
      <4>3. filed \in FiledFare /\ filed.minute = CompleteMinute(leg)
        BY <4>2, PickFareType DEF FiledFare
      <4> HIDE DEF filed
      <4>4. fare_complete'[b] = filed /\ filed # None
        BY <1>1, <3>2, <3>3, <4>3, RecordAssumption
      <4> QED
        BY <3>1, <3>2, <3>3, <4>2, <4>3, <4>4 DEF FiledWell, Moves
    <3>4. CASE serving # b
      <4> HIDE DEF filed
      <4> QED
        BY <1>1, <1>3, <2>1, <3>1, <3>2, <3>4 DEF Moves
    <3> QED
      BY <3>3, <3>4
  <2>3. CASE ~WaitingAtRank(serving)
    BY <1>8, <2>3 DEF Depart, FiledWell, vars
  <2> QED
    BY <2>2, <2>3
<1>9. CASE AfterFare
  <2>1. ending.badge \in Badges /\ UNCHANGED <<minute, phase, fare_complete>>
    BY <1>9 DEF AfterFare, SimBase, SimTypeOK, EndedFare, buckets
  <2>2. CASE LeaveFeederPark(ending.badge)
    <3>1. Moves(ending.badge, "in_feeder_park", "offline")
      BY <1>1, <2>1, <2>2, ParkMoves
    <3> QED
      BY <1>3, <2>1, <3>1 DEF Moves
  <2> QED
    BY <1>4, <1>9, <2>1, <2>2 DEF AfterFare, BackInPark, NotReturning, ComesBack
<1>10. ASSUME NEW t \in Terminals, PickTerminal(t) PROVE FiledWell(b)'
  <2> DEFINE c == ending.badge
             eta == returning.eta
  <2>1. c \in Badges /\ eta \in Nat
    BY <1>10 DEF PickTerminal, SimBase, SimTypeOK, LoopAgrees, EndedFare, Returning
  <2>2. ReturnToTerminal(c, t, eta)
    BY <1>10 DEF PickTerminal
  <2> HIDE DEF c, eta
  <2>3. Moves(c, "return_exempt", "called") \/ Moves(c, "return_exempt", "return_exempt")
    BY <1>1, <2>1, <2>2, ReturnMoves
  <2> QED
    BY <1>3, <1>10, <2>3 DEF PickTerminal, Moves
<1>11. CASE AllTerminalsFull
  BY <1>4, <1>11 DEF AllTerminalsFull, buckets
<1>12. ASSUME NEW t \in Terminals, TerminalFull(t) PROVE FiledWell(b)'
  BY <1>4, <1>12 DEF TerminalFull, buckets
<1>13. ASSUME NEW c \in Badges, Retry(c) PROVE FiledWell(b)'
  BY <1>4, <1>13 DEF Retry
<1>14. CASE SweepReturns
  <2>1. Promoted(b) => taxis[b].status = "return_exempt" /\ taxis'[b].status = "called"
    BY <1>14, SweepMoves DEF SweepReturns, Pending
  <2>2. ~Promoted(b) => taxis'[b] = taxis[b]
    BY <1>14, SweepMoves DEF SweepReturns
  <2>3. UNCHANGED <<minute, fare_complete>> /\ phase = "sweep"
    BY <1>14 DEF SweepReturns
  <2> QED
    BY <2>1, <2>2, <2>3 DEF FiledWell
<1>15. CASE NextPhase
  <2>1. UNCHANGED vars /\ UNCHANGED <<minute, fare_complete>>
    BY <1>15 DEF NextPhase, buckets
  <2>2. \/ phase' \in {"demand", "fares"}
        \/ phase \in {"sweep", "retries"}
        \/ phase = "fares" /\ ~EndsThisMinute(b)
    BY <1>15 DEF NextPhase, PhaseOver
  <2> QED
    BY <2>1, <2>2 DEF FiledWell, EndsThisMinute, vars
<1>16. CASE MinuteOver /\ (NextMinute \/ DayOver)
  <2>1. phase = "ends" /\ phase' \in {"starts", "done"}
    BY <1>16 DEF MinuteOver, NextMinute, DayOver
  <2>2. UNCHANGED <<taxis, fare_complete>>
    BY <1>16 DEF NextMinute, DayOver, buckets, vars
  <2>3. fare_complete[b] # None => fare_complete[b].minute \in (minute + 1)..LastMinute
    BY <1>1, <2>1 DEF FiledWell
  <2>4. \/ minute' = minute + 1 /\ phase' = "starts"
        \/ minute' = minute
    BY <1>16 DEF NextMinute, DayOver
  <2> QED
    BY <1>1, <2>1, <2>2, <2>3, <2>4 DEF FiledWell
<1>17. CASE UNCHANGED simVars
  BY <1>4, <1>17 DEF simVars, buckets
<1> QED
  BY <1>5, <1>6, <1>7, <1>8, <1>9, <1>10, <1>11, <1>12, <1>13, <1>14, <1>15, <1>16,
     <1>17 DEF SimNext, NextMinute, DayOver

\* A fare counted as recorded and not as completed is one that is filed.
LEMMA FaresAreCounted ==
  ASSUME SimBase, FiledFares, [SimNext]_simVars
  PROVE  (stats.fares = stats.completed + Cardinality(OnAFare))'
<1>1. stats \in [Counters -> Nat]
  BY DEF SimBase, SimTypeOK
<1>2. /\ stats.fares \in Nat /\ stats.completed \in Nat
      /\ stats.fares = stats.completed + Cardinality(OnAFare)
  BY <1>1 DEF Counters, FiledFares
<1>3. IsFiniteSet(OnAFare) /\ Cardinality(OnAFare) \in Nat
  BY RankAssumption, FS_Subset, FS_CardinalityType DEF OnAFare
<1>4. fare_complete \in [Badges -> FiledFare \cup {None}]
  BY DEF SimBase, SimTypeOK
<1>5. ASSUME UNCHANGED fare_complete,
             stats'.fares = stats.fares, stats'.completed = stats.completed
      PROVE  (stats.fares = stats.completed + Cardinality(OnAFare))'
  BY <1>2, <1>5 DEF OnAFare
<1>6. ASSUME NEW c \in Counters, c \notin {"fares", "completed"}, Counted(c)
      PROVE  stats'.fares = stats.fares /\ stats'.completed = stats.completed
  BY <1>1, <1>6 DEF Counted, Counters
<1>7. ASSUME NEW b \in Badges, FareEnds(b)
      PROVE  (stats.fares = stats.completed + Cardinality(OnAFare))'
  <2>1. b \in OnAFare
    BY <1>7 DEF FareEnds, EndsThisMinute, OnAFare
  <2>2. OnAFare' = OnAFare \ {b}
    BY <1>4, <1>7 DEF FareEnds, OnAFare
  <2>3. Cardinality(OnAFare') = Cardinality(OnAFare) - 1
    BY <1>3, <2>1, <2>2, FS_RemoveElement
  <2>4. stats'.fares = stats.fares /\ stats'.completed = stats.completed + 1
    BY <1>1, <1>7 DEF FareEnds, Counted, Counters
  <2> QED
    BY <1>2, <1>3, <2>3, <2>4
<1>8. ASSUME NEW text \in Texts, NEW leg \in OneWayMinutes(PickFare(text)), Depart(text, leg)
      PROVE  (stats.fares = stats.completed + Cardinality(OnAFare))'
  <2>1. CASE WaitingAtRank(serving)
    <3> DEFINE filed == [minute |-> CompleteMinute(leg), fare |-> PickFare(text)]
               exempt == IF PickFare(text).classification = "standard"
                         THEN stats.exempt_fares ELSE stats.exempt_fares + 1
    <3>1. serving \in Badges
      BY <1>8 DEF Depart, SimBase, SimTypeOK
    <3>2. serving \notin OnAFare
      BY <2>1, <3>1 DEF FiledFares, FiledWell, OnAFare, WaitingAtRank
    <3>3. fare_complete' = [fare_complete EXCEPT ![serving] = filed]
      BY <1>8, <2>1 DEF Depart
    <3>4. filed # None
      <4>1. leg \in Nat /\ PickFare(text) \in SimulatedFare
        BY PickFareType
      <4>2. CompleteMinute(leg) \in Nat
        BY <4>1, FiledInTheDay, MinutesAreNumbers DEF Minutes
      <4>3. filed \in FiledFare
        BY <4>1, <4>2 DEF FiledFare
      <4> HIDE DEF filed
      <4> QED
        BY <4>3, RecordAssumption
    <3> HIDE DEF filed
    <3>5. OnAFare' = OnAFare \cup {serving}
      BY <1>4, <3>1, <3>3, <3>4 DEF OnAFare
    <3>6. Cardinality(OnAFare') = Cardinality(OnAFare) + 1
      BY <1>3, <3>2, <3>5, FS_AddElement
    <3>7. stats' = [stats EXCEPT !.fares = @ + 1, !.exempt_fares = exempt]
      BY <1>8, <2>1 DEF Depart
    <3> HIDE DEF exempt
    <3>8. stats'.fares = stats.fares + 1 /\ stats'.completed = stats.completed
      BY <1>1, <3>7 DEF Counters
    <3> QED
      BY <1>2, <1>3, <3>6, <3>8
  <2>2. CASE ~WaitingAtRank(serving)
    BY <1>5, <1>8, <2>2 DEF Depart
  <2> QED
    BY <2>1, <2>2
<1>9. ASSUME UNCHANGED fare_complete,
             UNCHANGED stats \/ Counted("not_returned") \/ Counted("returned")
      PROVE  (stats.fares = stats.completed + Cardinality(OnAFare))'
  BY <1>5, <1>6, <1>9 DEF Counters
<1>10. ASSUME NEW t \in Terminals, PickTerminal(t) \/ TerminalFull(t) \/ Passenger(t)
       PROVE  (stats.fares = stats.completed + Cardinality(OnAFare))'
  BY <1>9, <1>10 DEF PickTerminal, TerminalFull, Passenger, buckets, counts
<1>11. ASSUME NEW b \in Badges, ShiftStart(b) \/ Retry(b) \/ ShiftEnd(b)
       PROVE  (stats.fares = stats.completed + Cardinality(OnAFare))'
  BY <1>9, <1>11 DEF ShiftStart, Retry, GiveUp, NotReturned, ShiftEnd, buckets, counts
<1>12. CASE AfterFare \/ AllTerminalsFull \/ SweepReturns
  BY <1>9, <1>12 DEF AfterFare, BackInPark, NotReturning, ComesBack, AllTerminalsFull,
                     NotReturned, SweepReturns, buckets, counts
<1>13. CASE NextPhase \/ NextMinute \/ DayOver \/ UNCHANGED simVars
  BY <1>9, <1>13 DEF NextPhase, NextMinute, DayOver, simVars, buckets, counts
<1> QED
  BY <1>7, <1>8, <1>10, <1>11, <1>12, <1>13 DEF SimNext

\* When the day is over no taxi is on a fare, and every fare has been completed:
\* a trip that outlasts the day is filed in its last minute, not after it.
THEOREM FaresEnd == SimSpec => []FaresAllEnd
<1>1. SimBase /\ FiledFares /\ [SimNext]_simVars => FiledFares'
  BY FiledStep, FaresAreCounted DEF FiledFares
<1>2. SimBase /\ FiledFares => FaresAllEnd
  <2> SUFFICES ASSUME SimBase, FiledFares, phase = "done" PROVE
          /\ \A b \in Badges : taxis[b].status # "on_fare"
          /\ stats.fares = stats.completed
    BY DEF FaresAllEnd
  <2>1. minute = LastMinute /\ LastMinute \in Nat
    BY MinutesAreNumbers DEF SimBase, LoopAgrees
  <2>2. ASSUME NEW b \in Badges PROVE fare_complete[b] = None
    <3>1. FiledWell(b)
      BY DEF FiledFares
    <3> QED
      BY <2>1, <3>1 DEF FiledWell
  <2>3. OnAFare = {}
    BY <2>2 DEF OnAFare
  <2>4. stats.completed \in Nat /\ Cardinality({}) = 0
    BY FS_EmptySet DEF SimBase, SimTypeOK, Counters
  <2> QED
    BY <2>2, <2>3, <2>4 DEF FiledFares, FiledWell
<1> QED
  BY <1>1, <1>2, NothingIsFiled, SimInvariance, PTL DEF SimSpec

----------------------------------------------------------------------------
(***************************************************************************)
(* Returns: an exempt driver with whom the loop is through has been        *)
(* counted.  It is not through with the one whose fare has just ended, nor *)
(* with one who waits for a place and is in a bucket still to come.        *)
(***************************************************************************)

IsSettled(b) ==
  /\ taxis[b].status = "return_exempt"
  /\ ending # None => ending.badge # b
  /\ Pending(b) => \A m \in minute..LastMinute : promote_checks[m][b] = 0

SettledAreCounted == \A b \in Badges : IsSettled(b) => b \in counted_out

ReturnsAreCounted ==
  /\ SettledAreCounted
  /\ phase \in {"ends", "done"} => \A b \in Badges : promote_checks[minute][b] = 0

\* Nobody is exempt when the day begins.
LEMMA NobodyIsExempt == SimInit => ReturnsAreCounted
<1> SUFFICES ASSUME SimInit PROVE ReturnsAreCounted
  OBVIOUS
<1>1. \A b \in Badges : ~IsSettled(b)
  BY DEF SimInit, IsSettled, NewTaxi
<1> QED
  BY <1>1 DEF ReturnsAreCounted, SettledAreCounted, SimInit

\* A driver is settled by a step only if the step counts it, and stays counted as
\* long as it is settled.
Settles(b) ==
  /\ counted_out' = counted_out \cup {b}
  /\ \A c \in Badges : IsSettled(c)' => IsSettled(c) \/ c = b

SettlesNobody ==
  \A c \in Badges : IsSettled(c)' => IsSettled(c) /\ (c \in counted_out => c \in counted_out')

\* A driver stays unsettled while the loop has it in hand, is filed in a bucket
\* when it chooses a terminal, and in a later one at each retry but the last.
LEMMA SettledStep ==
  ASSUME SimBase, ReturnsAreCounted, [SimNext]_simVars
  PROVE  SettlesNobody \/ \E b \in Badges : Settles(b)
<1>1. /\ IInv
      /\ minute \in Nat /\ minute <= LastMinute /\ LastMinute \in Nat
      /\ minute \in minute..LastMinute
  BY MinutesAreNumbers DEF SimBase, SimTypeOK, Minutes
<1>2. /\ promote_checks \in [Minutes -> [Badges -> Nat]]
      /\ Minutes = 0..LastMinute
  BY DEF SimBase, SimTypeOK, Minutes
<1>3. ending # None => /\ ending.badge \in Badges
                       /\ phase = "fares"
  BY DEF SimBase, SimTypeOK, LoopAgrees, EndedFare
\* Nothing of those who are exempt afterwards changes.
<1>4. ASSUME UNCHANGED <<minute, promote_checks, ending, counted_out>>,
             \A c \in Badges : taxis'[c] = taxis[c] \/ taxis'[c].status # "return_exempt"
      PROVE  SettlesNobody
  BY <1>4 DEF SettlesNobody, IsSettled, Pending
<1>5. ASSUME UNCHANGED vars, UNCHANGED <<minute, promote_checks, ending, counted_out>>
      PROVE  SettlesNobody
  BY <1>4, <1>5 DEF vars
<1>6. ASSUME NEW c \in Badges, ShiftStart(c) \/ ShiftEnd(c) PROVE SettlesNobody
  <2>1. Moves(c, "offline", "in_feeder_park") \/ Moves(c, "in_feeder_park", "offline")
    BY <1>1, <1>6, ParkMoves DEF ShiftStart, ShiftEnd
  <2>2. \A d \in Badges : taxis'[d] = taxis[d] \/ taxis'[d].status # "return_exempt"
    BY <2>1 DEF Moves
  <2> QED
    BY <1>4, <1>6, <2>2 DEF ShiftStart, ShiftEnd, buckets, jobs, counts
<1>7. ASSUME NEW c \in Badges, FareEnds(c) PROVE SettlesNobody
  <2>1. \A d \in Badges : d # c => taxis'[d] = taxis[d]
    BY <1>1, <1>7, CompletionMoves DEF FareEnds, Moves
  <2>2. /\ ending = None
        /\ ending' # None
        /\ ending'.badge = c
    <3>1. ending' \in EndedFare \cup {None}
      BY TypeStep DEF SimTypeOK
    <3>2. ending' = [badge |-> c, fare |-> fare_complete[c].fare]
      BY <1>7 DEF FareEnds
    <3>3. fare_complete[c] \in FiledFare
      BY <1>7 DEF FareEnds, EndsThisMinute, SimBase, SimTypeOK
    <3>4. ending' \in EndedFare
      BY <3>2, <3>3 DEF EndedFare, FiledFare
    <3> QED
      BY <1>7, <3>2, <3>4, RecordAssumption DEF FareEnds
  <2>3. UNCHANGED <<minute, promote_checks>>
    BY <1>7 DEF FareEnds
  <2>4. counted_out' = counted_out \ {c}
    BY <1>7 DEF FareEnds
  <2>5. ASSUME NEW d \in Badges, IsSettled(d)' PROVE IsSettled(d) /\ d # c
    <3>1. d # c
      BY <2>2, <2>5 DEF IsSettled
    <3> QED
      BY <2>1, <2>2, <2>3, <2>5, <3>1 DEF IsSettled, Pending
  <2> QED
    BY <2>4, <2>5 DEF SettlesNobody
<1>8. ASSUME NEW t \in Terminals, Passenger(t) PROVE SettlesNobody
  <2>1. CASE TakeFromPark(t)
    <3> DEFINE front == Head(feeder_park_queue)
    <3>1. front \in Badges /\ Moves(front, "in_feeder_park", "called")
      BY <1>1, <2>1, CallMoves DEF TakeFromPark
    <3> HIDE DEF front
    <3>2. \A d \in Badges : taxis'[d] = taxis[d] \/ taxis'[d].status # "return_exempt"
      BY <3>1 DEF Moves
    <3> QED
      BY <1>4, <1>8, <3>2 DEF Passenger, counts
  <2> QED
    BY <1>5, <1>8, <2>1 DEF Passenger, TakeWaiting, NoTaxi, counts
<1>9. ASSUME NEW text \in Texts, NEW leg \in OneWayMinutes(PickFare(text)), Depart(text, leg)
      PROVE  SettlesNobody
  <2>1. serving \in Badges
    BY <1>9 DEF Depart, SimBase, SimTypeOK
  <2>2. CASE WaitingAtRank(serving)
    <3>1. Moves(serving, "called", "on_fare")
      BY <1>1, <1>9, <2>1, <2>2, FareMoves DEF Depart
    <3>2. \A d \in Badges : taxis'[d] = taxis[d] \/ taxis'[d].status # "return_exempt"
      BY <3>1 DEF Moves
    <3> QED
      BY <1>4, <1>9, <3>2 DEF Depart
  <2>3. CASE ~WaitingAtRank(serving)
    BY <1>5, <1>9, <2>3 DEF Depart
  <2> QED
    BY <2>2, <2>3
<1>10. ASSUME NEW t \in Terminals, TerminalFull(t) PROVE SettlesNobody
  BY <1>5, <1>10 DEF TerminalFull, buckets, counts
<1>11. CASE AfterFare
  <2>1. /\ ending # None /\ ending.badge \in Badges
        /\ UNCHANGED <<minute, promote_checks>>
    BY <1>3, <1>11 DEF AfterFare, buckets
  <2>2. ASSUME ending' = None, NEW c \in Badges, c # ending.badge, taxis'[c] = taxis[c],
               IsSettled(c)'
        PROVE  IsSettled(c)
    BY <2>1, <2>2 DEF IsSettled, Pending
  <2>3. CASE BackInPark
    <3>1. PICK c \in Badges : c = ending.badge
      BY <2>1
    <3>2. /\ taxis'[c].status # "return_exempt"
          /\ \A d \in Badges : d # c => taxis'[d] = taxis[d]
      <4>1. CASE LeaveFeederPark(c)
        BY <1>1, <4>1, ParkMoves DEF Moves
      <4>2. CASE UNCHANGED vars
        BY <2>3, <3>1, <4>2 DEF BackInPark, vars
      <4> QED
        BY <2>3, <3>1, <4>1, <4>2 DEF BackInPark
    <3>3. ~IsSettled(c)'
      BY <3>2 DEF IsSettled
    <3> QED
      BY <2>2, <2>3, <3>1, <3>2, <3>3 DEF BackInPark, SettlesNobody, counts
  <2>4. CASE NotReturning
    <3>1. Settles(ending.badge)
      BY <2>2, <2>4 DEF NotReturning, NotReturned, Settles, vars
    <3> QED
      BY <2>1, <3>1
  <2>5. CASE ComesBack
    BY <1>5, <2>1, <2>5 DEF ComesBack, counts
  <2> QED
    BY <1>11, <2>3, <2>4, <2>5 DEF AfterFare
<1>12. CASE AllTerminalsFull
  <2>1. /\ ending # None /\ ending.badge \in Badges /\ ending' = None
        /\ UNCHANGED <<minute, promote_checks, taxis>>
    BY <1>3, <1>12 DEF AllTerminalsFull, SimBase, LoopAgrees, buckets, vars
  <2>2. ASSUME NEW c \in Badges, c # ending.badge, IsSettled(c)' PROVE IsSettled(c)
    BY <2>1, <2>2 DEF IsSettled, Pending
  <2>3. Settles(ending.badge)
    BY <1>12, <2>2 DEF AllTerminalsFull, NotReturned, Settles
  <2> QED
    BY <2>1, <2>3
<1>13. ASSUME NEW t \in Terminals, PickTerminal(t) PROVE SettlesNobody
  <2>0. ending # None /\ returning.eta \in Nat
    BY <1>13 DEF PickTerminal, SimBase, SimTypeOK, LoopAgrees, Returning
  <2> PICK c \in Badges : c = ending.badge
    BY <1>3, <2>0
  <2> DEFINE eta == returning.eta
             n == DueMinute(eta)
  <2>1. /\ c \in Badges /\ eta \in Nat /\ ending # None
        /\ ending' = None /\ UNCHANGED minute
    BY <1>13, <2>0 DEF PickTerminal
  <2>2. ReturnToTerminal(c, t, eta)
    BY <1>13 DEF PickTerminal
  <2>3. /\ n \in Minutes /\ n >= minute /\ n \in minute..LastMinute
        /\ promote_checks[n][c] \in Nat
    <3>1. n \in Minutes /\ n >= minute
      BY <2>1, FiledInTheDay
    <3>2. n \in Nat /\ n <= LastMinute
      BY <1>1, <1>2, <3>1
    <3> HIDE DEF n
    <3>3. n \in minute..LastMinute
      BY <1>1, <3>1, <3>2
    <3>4. promote_checks[n][c] \in Nat
      BY <1>2, <2>1, <3>1
    <3> QED
      BY <3>1, <3>3, <3>4
  <2>4. IF eta <= Lead THEN UNCHANGED promote_checks
                       ELSE promote_checks' = [promote_checks EXCEPT ![n][c] = @ + 1]
    BY <1>13 DEF PickTerminal
  <2>5. ending # None => ending.badge = c
    OBVIOUS
  <2> HIDE DEF eta, n
  <2>6. \A d \in Badges : d # c => taxis'[d] = taxis[d]
    BY <1>1, <2>1, <2>2, ReturnMoves DEF Moves
  <2>7. /\ \A d \in Badges, m \in Minutes :
             d # c => promote_checks'[m][d] = promote_checks[m][d]
        /\ ~(eta <= Lead) => promote_checks'[n][c] = promote_checks[n][c] + 1
    <3>1. promote_checks \in [Minutes -> [Badges -> Nat]] /\ n \in Minutes
      BY <1>2, <2>3
    <3>2. CASE eta <= Lead
      BY <2>4, <3>2
    <3>3. CASE ~(eta <= Lead)
      <4>1. promote_checks' = [promote_checks EXCEPT ![n][c] = @ + 1]
        BY <2>4, <3>3
      <4> QED
        BY <3>1, <4>1
    <3> QED
      BY <3>2, <3>3
  <2>8. ~IsSettled(c)'
    <3>1. CASE eta <= Lead
      BY <1>1, <2>1, <2>2, <3>1, ReturnMoves DEF Moves, IsSettled
    <3>2. CASE ~(eta <= Lead)
      <4>1. taxis'[c].status = "return_exempt" /\ taxis'[c].pending_return_terminal_id = t
        BY <1>1, <2>1, <2>2, <3>2, ReturnMoves DEF Moves
      <4>2. Pending(c)'
        BY <4>1, NoneFacts DEF Pending
      <4>3. promote_checks'[n][c] = promote_checks[n][c] + 1
        BY <2>7, <3>2
      <4>4. promote_checks'[n][c] # 0 /\ n \in minute'..LastMinute
        BY <2>1, <2>3, <4>3
      <4> QED
        BY <4>2, <4>4 DEF IsSettled
    <3> QED
      BY <3>1, <3>2
  <2>9. UNCHANGED counted_out
    BY <1>13 DEF PickTerminal
  <2>10. ASSUME NEW d \in Badges, IsSettled(d)' PROVE IsSettled(d)
    <3>1. d # c
      BY <2>8, <2>10
    <3>2. taxis'[d] = taxis[d]
      BY <2>6, <3>1
    <3>3. Pending(d) => \A m \in minute..LastMinute : promote_checks[m][d] = 0
      <4>1. Pending(d)' <=> Pending(d)
        BY <3>2 DEF Pending
      <4>2. minute..LastMinute \subseteq Minutes
        BY <1>1, <1>2
      <4>3. Pending(d)' => \A m \in minute..LastMinute : promote_checks'[m][d] = 0
        BY <2>1, <2>10 DEF IsSettled
      <4> QED
        BY <2>7, <3>1, <4>1, <4>2, <4>3
    <3> QED
      BY <2>5, <2>10, <3>1, <3>2, <3>3 DEF IsSettled
  <2> QED
    BY <2>9, <2>10 DEF SettlesNobody
<1>14. CASE SweepReturns
  <2>1. \A d \in Badges : taxis'[d] = taxis[d] \/ taxis'[d].status # "return_exempt"
    BY <1>14, SweepMoves DEF SweepReturns
  <2> QED
    BY <1>4, <1>14, <2>1 DEF SweepReturns, jobs, counts
<1>15. ASSUME NEW c \in Badges, Retry(c)
       PROVE  SettlesNobody \/ Settles(c)
  <2> DEFINE visited == [promote_checks EXCEPT ![minute][c] = @ - 1]
             n == Bucket(minute + RetryDelay)
  <2>1. UNCHANGED <<taxis, minute, ending>>
    BY <1>15 DEF Retry, vars, jobs
  <2>2. \/ promote_checks' = visited
        \/ promote_checks' = [visited EXCEPT ![n][c] = @ + 1]
    BY <1>15 DEF Retry
  <2>3. n \in Minutes /\ n \in minute..LastMinute
    <3>1. minute + RetryDelay \in Nat /\ minute + RetryDelay >= minute /\ minute \in Minutes
      <4>1. RetryDelay \in Nat
        BY SimulationAssumption
      <4> QED
        BY <1>1, <1>2, <4>1
    <3>2. n \in Minutes /\ n >= minute
      BY <3>1, MinutesAreNumbers
    <3> QED
      BY <1>1, <1>2, <3>2
  <2>4. \A m \in Minutes, d \in Badges : d # c => visited[m][d] = promote_checks[m][d]
    BY <1>1, <1>2
  <2>5. /\ visited \in [Minutes -> [Badges -> Int]]
        /\ visited[n][c] >= 0
    <3>1. promote_checks[minute][c] \in Nat /\ promote_checks[minute][c] > 0
      BY <1>1, <1>2, <1>15 DEF Retry, Checked
    <3>2. promote_checks[n][c] \in Nat
      BY <1>2, <2>3
    <3>3. visited \in [Minutes -> [Badges -> Nat]]
      BY <1>1, <1>2, <3>1
    <3> HIDE DEF visited
    <3>4. visited[n][c] \in Nat
      BY <2>3, <3>3
    <3> QED
      BY <3>3, <3>4
  <2> HIDE DEF visited
  <2>6. \A m \in Minutes, d \in Badges : d # c => promote_checks'[m][d] = promote_checks[m][d]
    BY <2>2, <2>3, <2>4, <2>5
  <2>7. ASSUME NEW d \in Badges, d # c, IsSettled(d)' PROVE IsSettled(d)
    <3>1. minute..LastMinute \subseteq Minutes
      BY <1>1, <1>2
    <3>2. Pending(d)' <=> Pending(d)
      BY <2>1 DEF Pending
    <3>3. Pending(d)' => \A m \in minute..LastMinute : promote_checks'[m][d] = 0
      BY <2>1, <2>7 DEF IsSettled
    <3>4. Pending(d) => \A m \in minute..LastMinute : promote_checks[m][d] = 0
      BY <2>6, <2>7, <3>1, <3>2, <3>3
    <3> QED
      BY <2>1, <2>7, <3>4 DEF IsSettled
  <2>8. CASE Pending(c) /\ retry_counts[c] < MaxRetries
    <3>1. promote_checks' = [visited EXCEPT ![n][c] = @ + 1] /\ UNCHANGED counted_out
      BY <1>15, <2>8 DEF Retry, visited, counts
    <3>2. promote_checks'[n][c] = visited[n][c] + 1 /\ visited[n][c] \in Int
      BY <2>3, <2>5, <3>1
    <3>3. promote_checks'[n][c] # 0
      BY <2>5, <3>2
    <3>4. Pending(c)'
      BY <2>1, <2>8 DEF Pending
    <3>5. ~IsSettled(c)'
      BY <2>1, <2>3, <3>3, <3>4 DEF IsSettled
    <3> QED
      BY <2>7, <3>1, <3>5 DEF SettlesNobody
  <2>9. CASE Pending(c) /\ ~(retry_counts[c] < MaxRetries)
    <3>1. counted_out' = counted_out \cup {c}
      BY <1>15, <2>9 DEF Retry, GiveUp, NotReturned
    <3> QED
      BY <2>7, <3>1 DEF Settles
  <2>10. CASE ~Pending(c)
    <3>1. UNCHANGED counted_out
      BY <1>15, <2>10 DEF Retry, counts
    <3>2. IsSettled(c)' => IsSettled(c)
      BY <2>1, <2>10 DEF IsSettled
    <3> QED
      BY <2>7, <3>1, <3>2 DEF SettlesNobody
  <2> QED
    BY <2>8, <2>9, <2>10
<1>16. CASE NextMinute
  <2>1. /\ UNCHANGED <<taxis, promote_checks, ending, counted_out>>
        /\ minute' = minute + 1
        /\ \A b \in Badges : promote_checks[minute][b] = 0
    BY <1>16 DEF NextMinute, MinuteOver, ReturnsAreCounted, buckets, jobs, counts
  <2>2. ASSUME NEW c \in Badges, IsSettled(c)' PROVE IsSettled(c)
    <3>1. \A m \in minute..LastMinute : m = minute \/ m \in minute'..LastMinute
      BY <1>1, <2>1
    <3>2. Pending(c)' <=> Pending(c)
      BY <2>1 DEF Pending
    <3>3. Pending(c)' => \A m \in minute'..LastMinute : promote_checks[m][c] = 0
      BY <2>1, <2>2 DEF IsSettled
    <3>4. Pending(c) => \A m \in minute..LastMinute : promote_checks[m][c] = 0
      BY <2>1, <3>1, <3>2, <3>3
    <3> QED
      BY <2>1, <2>2, <3>4 DEF IsSettled
  <2> QED
    BY <2>1, <2>2 DEF SettlesNobody
<1>17. CASE NextPhase \/ DayOver \/ UNCHANGED simVars
  BY <1>5, <1>17 DEF NextPhase, DayOver, simVars, buckets, jobs, counts
<1> QED
  BY <1>6, <1>7, <1>8, <1>9, <1>10, <1>11, <1>12, <1>13, <1>14, <1>15, <1>16, <1>17
     DEF SimNext

\* The shifts end only when nobody is left in the minute's bucket, and nobody is
\* put in it any more.
LEMMA ChecksAreOver ==
  ASSUME SimBase, ReturnsAreCounted, [SimNext]_simVars
  PROVE  (phase \in {"ends", "done"} => \A b \in Badges : promote_checks[minute][b] = 0)'
<1>1. promote_checks \in [Minutes -> [Badges -> Nat]] /\ minute \in Minutes
  BY DEF SimBase, SimTypeOK
<1>2. ASSUME UNCHANGED <<minute, promote_checks>>,
             UNCHANGED phase \/ phase \in {"ends", "done"} \/ phase' \notin {"ends", "done"}
      PROVE  (phase \in {"ends", "done"} => \A b \in Badges : promote_checks[minute][b] = 0)'
  BY <1>2 DEF ReturnsAreCounted
<1>3. ASSUME phase' \notin {"ends", "done"}
      PROVE  (phase \in {"ends", "done"} => \A b \in Badges : promote_checks[minute][b] = 0)'
  BY <1>3
<1>4. ASSUME NEW b \in Badges, ShiftStart(b) \/ FareEnds(b) \/ Retry(b) \/ ShiftEnd(b)
      PROVE  (phase \in {"ends", "done"} => \A c \in Badges : promote_checks[minute][c] = 0)'
  BY <1>2, <1>3, <1>4 DEF ShiftStart, FareEnds, Retry, ShiftEnd, buckets
<1>5. ASSUME NEW t \in Terminals, Passenger(t) \/ PickTerminal(t) \/ TerminalFull(t)
      PROVE  (phase \in {"ends", "done"} => \A b \in Badges : promote_checks[minute][b] = 0)'
  BY <1>3, <1>5 DEF Passenger, PickTerminal, TerminalFull
<1>6. ASSUME NEW text \in Texts, NEW leg \in OneWayMinutes(PickFare(text)), Depart(text, leg)
      PROVE  (phase \in {"ends", "done"} => \A b \in Badges : promote_checks[minute][b] = 0)'
  BY <1>3, <1>6 DEF Depart
<1>7. CASE AfterFare \/ AllTerminalsFull \/ SweepReturns
  BY <1>3, <1>7 DEF AfterFare, AllTerminalsFull, SweepReturns
<1>8. CASE NextPhase
  <2>1. UNCHANGED <<minute, promote_checks>>
    BY <1>8 DEF NextPhase, buckets
  <2>2. phase' \in {"ends", "done"} => \A b \in Badges : ~Checked(b)
    BY <1>8 DEF NextPhase, PhaseOver
  <2>3. \A b \in Badges : promote_checks[minute][b] \in Nat
    BY <1>1
  <2> QED
    BY <2>1, <2>2, <2>3 DEF Checked
<1>9. CASE NextMinute \/ DayOver \/ UNCHANGED simVars
  BY <1>2, <1>3, <1>9 DEF NextMinute, DayOver, MinuteOver, simVars, buckets
<1> QED
  BY <1>4, <1>5, <1>6, <1>7, <1>8, <1>9 DEF SimNext

\* Each driver still exempt when the day is over was counted as not returned after
\* its last fare: the loop never loses sight of one.
THEOREM NoReturnIsLost == SimSpec => []ExemptAreCounted
<1>1. SimBase /\ ReturnsAreCounted /\ [SimNext]_simVars => ReturnsAreCounted'
  <2> SUFFICES ASSUME SimBase, ReturnsAreCounted, [SimNext]_simVars
               PROVE  ReturnsAreCounted'
    OBVIOUS
  <2>1. SettledAreCounted'
    BY SettledStep DEF ReturnsAreCounted, SettledAreCounted, SettlesNobody, Settles
  <2> QED
    BY <2>1, ChecksAreOver DEF ReturnsAreCounted
<1>2. SimBase /\ ReturnsAreCounted => ExemptAreCounted
  <2> SUFFICES ASSUME SimBase, ReturnsAreCounted, phase = "done",
                      NEW b \in Badges, taxis[b].status = "return_exempt"
               PROVE  b \in counted_out
    BY DEF ExemptAreCounted
  <2>1. minute = LastMinute /\ LastMinute \in Nat /\ ending = None
    BY MinutesAreNumbers DEF SimBase, LoopAgrees
  <2>2. \A m \in minute..LastMinute : promote_checks[m][b] = 0
    BY <2>1 DEF ReturnsAreCounted
  <2>3. IsSettled(b)
    BY <2>1, <2>2 DEF IsSettled
  <2> QED
    BY <2>3 DEF ReturnsAreCounted, SettledAreCounted
<1> QED
  BY <1>1, <1>2, NobodyIsExempt, SimInvariance, PTL DEF SimSpec

----------------------------------------------------------------------------
(***************************************************************************)
(* Lists: terminal_waiting is the rank but for the taxi that a passenger   *)
(* is about to take, and a rank is never over its capacity, because a taxi *)
(* is called to it from the park only when it is empty.                    *)
(***************************************************************************)

ListIsRank(t) ==
  /\ IsInjective(terminal_waiting[t])
  /\ ToSet(terminal_waiting[t]) = AtRank(t) \ {serving}
  /\ \A b \in AtRank(t) \ {serving} : taxis[b].self_checked_in
  /\ Occupancy(t) <= terminals[t]

RankLists ==
  /\ phase # "raised"
  /\ serving # None => WaitingAtRank(serving)
  /\ \A t \in Terminals : ListIsRank(t)

\* Nobody waits when the day begins.
LEMMA NobodyWaits == SimInit => RankLists
<1> SUFFICES ASSUME SimInit PROVE RankLists
  OBVIOUS
<1>1. \A t : AtRank(t) = {}
  <2>1. \A b \in Registered : b \in Badges
    BY SimInitIsRight DEF SimBase
  <2> QED
    BY <2>1 DEF SimInit, AtRank, NewTaxi
<1>2. \A t \in Terminals : terminal_waiting[t] = << >> /\ terminals[t] \in Nat
  BY RankAssumption DEF SimInit
<1>3. IsInjective(<< >>) /\ ToSet(<< >>) = {} /\ Cardinality({}) = 0
  BY FS_EmptySet DEF IsInjective, ToSet
<1>4. ASSUME NEW t \in Terminals PROVE ListIsRank(t)
  <2>1. AtRank(t) = {} /\ terminal_waiting[t] = << >> /\ terminals[t] \in Nat
    BY <1>1, <1>2
  <2>2. IsInjective(terminal_waiting[t]) /\ ToSet(terminal_waiting[t]) = AtRank(t) \ {serving}
    BY <1>3, <2>1
  <2>3. \A b \in AtRank(t) \ {serving} : taxis[b].self_checked_in
    BY <2>1
  <2>4. Occupancy(t) = 0
    BY <1>3, <2>1 DEF Occupancy
  <2>5. Occupancy(t) <= terminals[t]
    BY <2>1, <2>4
  <2> QED
    BY <2>2, <2>3, <2>5 DEF ListIsRank
<1> QED
  BY <1>4 DEF RankLists, SimInit

\* The ranks of a day, and who can be at them.
LEMMA RanksOfTheDay ==
  ASSUME SimBase, NEW t \in Terminals
  PROVE  /\ AtRank(t) = {b \in Badges : taxis[b].terminal_id = t /\ taxis[b].status = "called"}
         /\ IsFiniteSet(AtRank(t)) /\ Occupancy(t) = Cardinality(AtRank(t))
         /\ Occupancy(t) \in Nat
         /\ terminals[t] = DefaultCapacity /\ terminals[t] \in Nat \ {0}
         /\ TerminalExists(t)
         /\ None \notin AtRank(t)
         /\ terminal_waiting[t] \in Seq(Badges)
<1>1. Registered = Badges
  BY DEF SimBase
<1>2. AtRank(t) = {b \in Badges : taxis[b].terminal_id = t /\ taxis[b].status = "called"}
  BY <1>1 DEF AtRank
<1>3. IsFiniteSet(AtRank(t)) /\ Occupancy(t) \in Nat
  BY RankIsFinite DEF SimBase
<1>4. terminals[t] = DefaultCapacity /\ terminals[t] \in Nat \ {0}
  BY RankAssumption DEF SimBase
<1>5. terminal_waiting[t] \in Seq(Badges)
  BY DEF SimBase, SimTypeOK
<1> QED
  BY <1>2, <1>3, <1>4, <1>5, NoneFacts DEF Occupancy, TerminalExists

\* With no taxi in hand the list is the whole rank.
LEMMA ListIsWholeRank ==
  ASSUME SimBase, RankLists, serving = None, NEW t \in Terminals
  PROVE  /\ AtRank(t) \ {serving} = AtRank(t)
         /\ terminal_waiting[t] \in Seq(Badges) /\ IsInjective(terminal_waiting[t])
         /\ ToSet(terminal_waiting[t]) = AtRank(t)
         /\ \A b \in AtRank(t) : taxis[b].self_checked_in
         /\ Occupancy(t) <= terminals[t]
<1>1. serving \notin AtRank(t) /\ terminal_waiting[t] \in Seq(Badges)
  BY RanksOfTheDay
<1>2. AtRank(t) \ {serving} = AtRank(t)
  BY <1>1
<1>3. ListIsRank(t)
  BY DEF RankLists
<1> QED
  BY <1>1, <1>2, <1>3 DEF ListIsRank

\* Another rank does not notice that a taxi comes to this one or leaves it.
LEMMA OtherRank ==
  ASSUME SimBase, SimBase', NEW t \in Terminals, NEW h \in Badges,
         ~(taxis[h].terminal_id = t /\ taxis[h].status = "called"),
         ~(taxis'[h].terminal_id = t /\ taxis'[h].status = "called"),
         \A c \in Badges : c # h => taxis'[c] = taxis[c]
  PROVE  /\ AtRank(t)' = AtRank(t) /\ h \notin AtRank(t)
         /\ \A b \in AtRank(t) : taxis'[b] = taxis[b]
<1>1. AtRank(t) = {b \in Badges : taxis[b].terminal_id = t /\ taxis[b].status = "called"}
  BY RanksOfTheDay
<1>2. AtRank(t)' = {b \in Badges : taxis'[b].terminal_id = t /\ taxis'[b].status = "called"}
  BY DEF AtRank, SimBase
<1>3. h \notin AtRank(t) /\ h \notin AtRank(t)'
  BY <1>1, <1>2
<1>4. \A b \in Badges : b \in AtRank(t)' <=> b \in AtRank(t)
  <2> SUFFICES ASSUME NEW b \in Badges, b # h PROVE b \in AtRank(t)' <=> b \in AtRank(t)
    BY <1>3
  <2> QED
    BY <1>1, <1>2
<1>5. AtRank(t) \subseteq Badges /\ AtRank(t)' \subseteq Badges
  BY <1>1, <1>2
<1>6. AtRank(t)' = AtRank(t)
  BY <1>4, <1>5
<1> QED
  BY <1>3, <1>5, <1>6

\* Nothing changes at a rank and its list.
LEMMA RankIsLeft ==
  ASSUME SimBase, SimBase', NEW t \in Terminals, ListIsRank(t),
         terminal_waiting'[t] = terminal_waiting[t], AtRank(t)' = AtRank(t),
         AtRank(t) \ {serving'} = AtRank(t) \ {serving},
         \A b \in AtRank(t) : taxis'[b] = taxis[b]
  PROVE  ListIsRank(t)'
<1>1. Occupancy(t)' = Occupancy(t) /\ terminals'[t] = terminals[t]
  BY DEF Occupancy, SimBase
<1> QED
  BY <1>1 DEF ListIsRank

\* Steps in which no taxi comes to a rank or leaves one.
LEMMA RanksAreLeft ==
  ASSUME SimBase, SimBase', RankLists, UNCHANGED <<serving, terminal_waiting>>,
         phase' # "raised",
         \A b \in Badges : \/ taxis'[b] = taxis[b]
                           \/ taxis[b].status # "called" /\ taxis'[b].status # "called"
  PROVE  RankLists'
<1>1. \A t \in Terminals : /\ AtRank(t)' = AtRank(t)
                           /\ \A b \in AtRank(t) : taxis'[b] = taxis[b]
  <2> SUFFICES ASSUME NEW t \in Terminals
               PROVE  /\ AtRank(t)' = AtRank(t)
                      /\ \A b \in AtRank(t) : taxis'[b] = taxis[b]
    OBVIOUS
  <2>1. AtRank(t) = {b \in Badges : taxis[b].terminal_id = t /\ taxis[b].status = "called"}
    BY RanksOfTheDay
  <2>2. AtRank(t)' = {b \in Badges : taxis'[b].terminal_id = t /\ taxis'[b].status = "called"}
    BY DEF AtRank, SimBase
  <2> QED
    BY <2>1, <2>2
<1>2. \A t \in Terminals : ListIsRank(t)'
  BY <1>1, RankIsLeft DEF RankLists
<1>3. serving' # None => WaitingAtRank(serving)'
  <2>1. terminals' = terminals
    BY DEF SimBase
  <2>2. serving # None => /\ serving \in Badges
                          /\ taxis[serving].status = "called"
                          /\ WaitingAtRank(serving)
    BY DEF SimBase, SimTypeOK, RankLists, WaitingAtRank
  <2> QED
    BY <2>1, <2>2 DEF WaitingAtRank, TerminalExists
<1> QED
  BY <1>2, <1>3 DEF RankLists

\* A passenger takes the first of the list, or the front of the park if there is
\* none.
LEMMA PassengerKeepsLists ==
  ASSUME SimBase, SimBase', RankLists, NEW u \in Terminals, Passenger(u)
  PROVE  RankLists'
<1>1. /\ serving = None /\ phase' # "raised"
      /\ IInv /\ taxis \in [Badges -> Taxi] /\ None \notin Badges /\ None \notin Terminals
  BY NoneFacts DEF Passenger, RankLists, SimBase, IInv, TypeOK
<1>2. ASSUME NEW t \in Terminals
      PROVE  /\ ListIsRank(t)
             /\ AtRank(t) = {b \in Badges : /\ taxis[b].terminal_id = t
                                            /\ taxis[b].status = "called"}
             /\ ToSet(terminal_waiting[t]) = AtRank(t)
             /\ terminal_waiting[t] \in Seq(Badges)
             /\ TerminalExists(t)
  <2>1. ToSet(terminal_waiting[t]) = AtRank(t)
    BY <1>1, ListIsWholeRank
  <2>2. AtRank(t) = {b \in Badges : taxis[b].terminal_id = t /\ taxis[b].status = "called"}
    BY RanksOfTheDay
  <2>3. terminal_waiting[t] \in Seq(Badges) /\ TerminalExists(t)
    BY RanksOfTheDay
  <2> QED
    BY <2>1, <2>2, <2>3 DEF RankLists
<1>3. CASE TakeWaiting(u)
  <2> DEFINE s == terminal_waiting[u]
  <2>1. PICK h : h = Head(s)
    OBVIOUS
  <2>2. /\ s \in Seq(Badges) /\ IsInjective(s) /\ s # << >>
        /\ ToSet(s) = AtRank(u)
    BY <1>2, <1>3 DEF TakeWaiting, ListIsRank
  <2>3. /\ h \in ToSet(s) /\ IsInjective(Tail(s)) /\ ToSet(Tail(s)) = ToSet(s) \ {h}
    BY <2>1, <2>2, TailProperties
  <2>4. /\ serving' = h
        /\ terminal_waiting' = [terminal_waiting EXCEPT ![u] = Tail(s)]
        /\ UNCHANGED <<taxis, registered, terminals>>
    BY <1>3, <2>1 DEF TakeWaiting, vars, site
  <2> HIDE DEF s
  <2>5. h \in AtRank(u) /\ h \in Badges /\ taxis[h].status = "called" /\ taxis[h].terminal_id = u
    BY <1>2, <2>2, <2>3
  <2>6. WaitingAtRank(serving)'
    BY <1>1, <1>2, <2>4, <2>5 DEF WaitingAtRank, TerminalExists
  <2>7. \A t \in Terminals : AtRank(t)' = AtRank(t)
    BY <2>4 DEF AtRank, Registered
  <2>8. ASSUME NEW t \in Terminals, t # u PROVE ListIsRank(t)'
    <3>1. terminal_waiting'[t] = terminal_waiting[t]
      BY <2>4, <2>8 DEF SimBase, SimTypeOK
    <3>2. AtRank(t) \ {serving'} = AtRank(t) \ {serving}
      BY <1>1, <1>2, <2>4, <2>5, <2>8
    <3> QED
      BY <1>2, <2>4, <2>7, <3>1, <3>2, RankIsLeft
  <2>9. ListIsRank(u)'
    <3>1. terminal_waiting'[u] = Tail(s)
      BY <2>4 DEF SimBase, SimTypeOK
    <3>2. ToSet(Tail(s)) = AtRank(u)' \ {serving'}
      BY <2>2, <2>3, <2>4, <2>7
    <3>3. \A b \in AtRank(u)' \ {serving'} : taxis'[b].self_checked_in
      BY <1>1, <1>2, <2>4, <2>7 DEF ListIsRank
    <3>4. Occupancy(u)' <= terminals'[u]
      BY <1>2, <2>4, <2>7 DEF ListIsRank, Occupancy
    <3> QED
      BY <2>3, <3>1, <3>2, <3>3, <3>4 DEF ListIsRank
  <2> QED
    BY <1>1, <2>6, <2>8, <2>9 DEF RankLists
<1>4. CASE TakeFromPark(u)
  <2>1. PICK h : h = Head(feeder_park_queue)
    OBVIOUS
  <2>2. /\ h \in Badges
        /\ taxis[h].status = "in_feeder_park"
        /\ taxis'[h].status = "called" /\ taxis'[h].terminal_id = u
        /\ \A c \in Badges : c # h => taxis'[c] = taxis[c]
    BY <1>1, <1>4, <2>1, CallMoves DEF TakeFromPark, Moves
  <2>3. serving' = h /\ terminal_waiting' = terminal_waiting /\ terminals' = terminals
    BY <1>4, <2>1 DEF TakeFromPark, SimBase
  <2>4. WaitingAtRank(serving)'
    BY <1>1, <1>2, <2>2, <2>3 DEF WaitingAtRank, TerminalExists
  <2>5. \A t \in Terminals : AtRank(t)' = {b \in Badges : /\ taxis'[b].terminal_id = t
                                                          /\ taxis'[b].status = "called"}
    BY DEF AtRank, SimBase
  <2>6. ASSUME NEW t \in Terminals, t # u PROVE ListIsRank(t)'
    <3>1. /\ AtRank(t)' = AtRank(t) /\ h \notin AtRank(t)
          /\ \A b \in AtRank(t) : taxis'[b] = taxis[b]
      <4>1. /\ taxis[h].status # "called" /\ taxis'[h].terminal_id # t
            /\ \A c \in Badges : c # h => taxis'[c] = taxis[c]
        BY <2>2, <2>6
      <4> QED
        BY <1>1, <2>2, <4>1, OtherRank
    <3>2. AtRank(t) \ {serving'} = AtRank(t) \ {serving}
      BY <1>1, <1>2, <2>3, <3>1
    <3> QED
      BY <1>2, <2>3, <3>1, <3>2, RankIsLeft
  <2>7. ListIsRank(u)'
    <3>1. terminal_waiting[u] = << >> /\ AtRank(u) = {}
      <4>1. terminal_waiting[u] = << >>
        BY <1>4 DEF TakeFromPark
      <4>2. ToSet(<< >>) = {}
        BY DEF ToSet
      <4> QED
        BY <1>2, <4>1, <4>2
    <3>2. AtRank(u)' = {h}
      BY <1>2, <2>2, <2>5, <3>1
    <3>3. Occupancy(u)' = 1
      BY <3>2, FS_Singleton DEF Occupancy
    <3>4. terminals'[u] \in Nat \ {0}
      BY <2>3, RanksOfTheDay
    <3>5. AtRank(u)' \ {serving'} = {} /\ ToSet(terminal_waiting[u]) = {}
      BY <1>2, <2>3, <3>1, <3>2
    <3> QED
      BY <1>2, <2>3, <3>3, <3>4, <3>5 DEF ListIsRank
  <2> QED
    BY <1>1, <2>4, <2>6, <2>7 DEF RankLists
<1>5. CASE NoTaxi(u)
  BY <1>1, <1>5, RanksAreLeft DEF NoTaxi, vars
<1> QED
  BY <1>3, <1>4, <1>5 DEF Passenger

\* The taxi in hand departs: it waits at a rank that exists, so nothing is raised.
LEMMA DepartKeepsLists ==
  ASSUME SimBase, SimBase', RankLists, NEW text \in Texts, NEW leg, Depart(text, leg)
  PROVE  RankLists'
<1>1. PICK h \in Badges : h = serving
  BY DEF Depart, SimBase, SimTypeOK
<1>2. WaitingAtRank(serving)
  BY DEF Depart, RankLists
<1>3. Moves(h, "called", "on_fare")
  BY <1>1, <1>2, FareMoves DEF Depart, SimBase
<1>4. serving' = None /\ terminal_waiting' = terminal_waiting /\ phase' = phase
  BY <1>2 DEF Depart
<1>5. ASSUME NEW t \in Terminals PROVE ListIsRank(t)'
  <2>1. /\ AtRank(t) = {b \in Badges : taxis[b].terminal_id = t /\ taxis[b].status = "called"}
        /\ IsFiniteSet(AtRank(t)) /\ Occupancy(t) = Cardinality(AtRank(t))
        /\ Occupancy(t) \in Nat /\ terminals[t] \in Nat
        /\ ListIsRank(t)
    BY RanksOfTheDay DEF RankLists
  <2>2. AtRank(t)' = {b \in Badges : taxis'[b].terminal_id = t /\ taxis'[b].status = "called"}
    BY DEF AtRank, SimBase
  <2>3. AtRank(t)' = AtRank(t) \ {h}
    BY <1>3, <2>1, <2>2 DEF Moves
  <2>4. AtRank(t)' \ {serving'} = AtRank(t) \ {serving}
    BY <1>1, <1>4, <2>1, <2>3, NoneFacts
  <2>5. \A b \in AtRank(t)' \ {serving'} : taxis'[b].self_checked_in
    BY <1>1, <1>3, <2>1, <2>4 DEF ListIsRank, Moves
  <2>6. Occupancy(t)' <= Occupancy(t) /\ Occupancy(t)' \in Nat
    <3>1. Cardinality(AtRank(t)') <= Cardinality(AtRank(t)) /\ Cardinality(AtRank(t)') \in Nat
      BY <2>1, <2>3, FS_Subset, FS_CardinalityType
    <3> QED
      BY <2>1, <3>1 DEF Occupancy
  <2>7. Occupancy(t)' <= terminals'[t]
    <3>1. terminals' = terminals /\ Occupancy(t) <= terminals[t]
      BY <2>1 DEF SimBase, ListIsRank
    <3> QED
      BY <2>1, <2>6, <3>1
  <2> QED
    BY <1>4, <2>1, <2>4, <2>5, <2>7 DEF ListIsRank
<1> QED
  BY <1>4, <1>5 DEF RankLists

\* A driver who checks in goes to the end of the list of the terminal with room.
LEMMA PickKeepsLists ==
  ASSUME SimBase, SimBase', RankLists, NEW u \in Terminals, PickTerminal(u)
  PROVE  RankLists'
<1>1. /\ IInv /\ serving = None /\ serving' = None /\ phase' # "raised"
      /\ ending # None /\ returning.eta \in Nat /\ terminals' = terminals
  BY DEF PickTerminal, SimBase, SimTypeOK, LoopAgrees, RankLists, Returning
<1>2. PICK c \in Badges : c = ending.badge
  BY <1>1 DEF SimBase, SimTypeOK, EndedFare
<1>3. ReturnToTerminal(c, u, returning.eta)
  BY <1>2 DEF PickTerminal
<1>4. CASE ~(returning.eta <= Lead)
  <2>1. Moves(c, "return_exempt", "return_exempt")
    BY <1>1, <1>3, <1>4, ReturnMoves
  <2>2. UNCHANGED <<serving, terminal_waiting>>
    BY <1>4 DEF PickTerminal
  <2> QED
    BY <1>1, <2>1, <2>2, RanksAreLeft DEF Moves
<1>5. CASE returning.eta <= Lead
  <2>1. /\ Moves(c, "return_exempt", "called")
        /\ taxis'[c].terminal_id = u
        /\ taxis'[c].self_checked_in
    BY <1>1, <1>3, <1>5, ReturnMoves
  <2>2. terminal_waiting' = [terminal_waiting EXCEPT ![u] = Append(@, c)]
    BY <1>2, <1>5 DEF PickTerminal
  <2>3. \A t \in Terminals :
          /\ ListIsRank(t)
          /\ AtRank(t) = {b \in Badges : taxis[b].terminal_id = t /\ taxis[b].status = "called"}
          /\ AtRank(t)' = {b \in Badges : taxis'[b].terminal_id = t /\ taxis'[b].status = "called"}
          /\ terminal_waiting[t] \in Seq(Badges)
    BY RanksOfTheDay DEF RankLists, AtRank, SimBase
  <2>4. ASSUME NEW t \in Terminals, t # u PROVE ListIsRank(t)'
    <3>1. /\ AtRank(t)' = AtRank(t)
          /\ \A b \in AtRank(t) : taxis'[b] = taxis[b]
      <4>1. /\ taxis[c].status # "called" /\ taxis'[c].terminal_id # t
            /\ \A b \in Badges : b # c => taxis'[b] = taxis[b]
        BY <2>1, <2>4 DEF Moves
      <4> QED
        BY <4>1, OtherRank
    <3>2. terminal_waiting'[t] = terminal_waiting[t]
      BY <2>2, <2>4 DEF SimBase, SimTypeOK
    <3> QED
      BY <1>1, <2>3, <3>1, <3>2, RankIsLeft
  <2>5. ListIsRank(u)'
    <3> DEFINE s == terminal_waiting[u]
    <3>1. /\ s \in Seq(Badges) /\ IsInjective(s)
          /\ ToSet(s) = AtRank(u)
      BY <1>1, ListIsWholeRank
    <3>2. c \notin AtRank(u) /\ AtRank(u)' = AtRank(u) \cup {c}
      BY <2>1, <2>3 DEF Moves
    <3>3. terminal_waiting'[u] = Append(s, c)
      BY <2>2 DEF SimBase, SimTypeOK
    <3> HIDE DEF s
    <3>4. IsInjective(Append(s, c)) /\ ToSet(Append(s, c)) = AtRank(u) \cup {c}
      BY <3>1, <3>2, AppendNewProperties
    <3>5. Occupancy(u)' <= terminals'[u]
      <4>1. CapacityStep(c, u)
        BY <1>1, <1>3, CheckInRespectsCapacity
      <4> QED
        BY <1>1, <2>1, <4>1 DEF CapacityStep, Moves
    <3>6. \A b \in AtRank(u)' : taxis'[b].self_checked_in
      <4>1. \A b \in AtRank(u) : b # c /\ b \in Badges /\ taxis[b].self_checked_in
        BY <1>1, <2>3, <3>2, ListIsWholeRank
      <4> QED
        BY <2>1, <3>2, <4>1 DEF Moves
    <3>7. AtRank(u)' \ {serving'} = AtRank(u)'
      BY <1>1, <3>2, RanksOfTheDay, NoneFacts
    <3> QED
      BY <3>2, <3>3, <3>4, <3>5, <3>6, <3>7 DEF ListIsRank
  <2> QED
    BY <1>1, <2>4, <2>5 DEF RankLists
<1> QED
  BY <1>4, <1>5

\* The sweep's drivers go to the end of the list of their terminals, in the order
\* of registration, whichever minute's bucket made the loop sweep.
LEMMA SweepKeepsLists ==
  ASSUME SimBase, SimBase', RankLists, SweepReturns
  PROVE  RankLists'
<1>1. /\ IInv /\ serving = None /\ serving' = None /\ phase' # "raised"
      /\ PromoteDueReturns /\ terminals' = terminals
  BY DEF SweepReturns, jobs, SimBase, LoopAgrees
<1>2. \A b \in Badges :
        /\ Promoted(b) => /\ Pending(b)
                          /\ taxis'[b].status = "called"
                          /\ taxis'[b].terminal_id = taxis[b].pending_return_terminal_id
                          /\ taxis'[b].self_checked_in
        /\ ~Promoted(b) => taxis'[b] = taxis[b]
  BY <1>1, SweepMoves
<1>3. ASSUME NEW t \in Terminals PROVE ListIsRank(t)'
  <2> DEFINE s == terminal_waiting[t]
             r == InRegistrationOrder(Added(t))
  <2>1. SeatedAt(t) = Added(t)
    BY <1>2 DEF SeatedAt, Added, NewlySeated, Pending
  <2>2. terminal_waiting'[t] = s \o r
    BY <2>1 DEF SweepReturns
  <2>3. r \in Seq(Badges) /\ IsInjective(r) /\ ToSet(r) = Added(t)
    BY <1>1, InRegistrationOrderProperties DEF Added, SimBase
  <2>4. /\ AtRank(t) = {b \in Badges : taxis[b].terminal_id = t /\ taxis[b].status = "called"}
        /\ AtRank(t)' = {b \in Badges : taxis'[b].terminal_id = t /\ taxis'[b].status = "called"}
    BY RanksOfTheDay DEF AtRank, SimBase
  <2>5. /\ AtRank(t)' = AtRank(t) \cup Added(t)
        /\ AtRank(t) \cap Added(t) = {}
    <3>1. \A b \in AtRank(t) : ~Promoted(b)
      BY <1>2, <2>4 DEF Pending
    <3>2. \A b \in Added(t) : b \in AtRank(t)' /\ b \notin AtRank(t)
      BY <1>2, <2>4, <3>1 DEF Added
    <3>3. \A b \in AtRank(t) : b \in AtRank(t)'
      BY <1>2, <2>4, <3>1
    <3>4. \A b \in AtRank(t)' : b \in AtRank(t) \/ b \in Added(t)
      BY <1>2, <2>4 DEF Added
    <3> QED
      BY <3>2, <3>3, <3>4
  <2>6. /\ s \in Seq(Badges) /\ IsInjective(s) /\ ToSet(s) = AtRank(t)
        /\ \A b \in AtRank(t) : taxis[b].self_checked_in
        /\ Occupancy(t) <= terminals[t]
    BY <1>1, ListIsWholeRank
  <2> HIDE DEF s, r
  <2>7. IsInjective(s \o r) /\ ToSet(s \o r) = AtRank(t)'
    BY <2>3, <2>5, <2>6, JoinProperties
  <2>8. \A b \in AtRank(t)' : taxis'[b].self_checked_in
    BY <1>2, <2>4, <2>5, <2>6 DEF Added
  <2>9. Occupancy(t)' <= terminals'[t]
    <3>1. CASE Added(t) = {}
      <4>1. AtRank(t)' = AtRank(t)
        BY <2>5, <3>1
      <4> QED
        BY <1>1, <2>6, <4>1 DEF Occupancy
    <3>2. ASSUME NEW b \in Added(t) PROVE Occupancy(t)' <= terminals'[t]
      <4>1. CapacityStep(b, t)
        BY <1>1, PassRespectsCapacity DEF Added
      <4>2. /\ taxis[b].status = "return_exempt"
            /\ taxis'[b].status = "called"
            /\ taxis'[b].terminal_id = t
        BY <1>2 DEF Added, Pending
      <4> QED
        BY <1>1, <4>1, <4>2 DEF CapacityStep
    <3> QED
      BY <3>1, <3>2
  <2>10. AtRank(t)' \ {serving'} = AtRank(t)'
    BY <1>1, <2>4, NoneFacts
  <2> QED
    BY <2>2, <2>7, <2>8, <2>9, <2>10 DEF ListIsRank
<1> QED
  BY <1>1, <1>3 DEF RankLists

\* No other step brings a taxi to a rank or away from one.
LEMMA ListStep ==
  ASSUME SimBase, RankLists, [SimNext]_simVars
  PROVE  RankLists'
<1>1. SimBase'
  BY StoreStep, TypeStep, LoopStep, ClockStep DEF SimBase
<1>2. IInv /\ phase # "raised"
  BY DEF SimBase, RankLists
<1>3. ASSUME UNCHANGED <<serving, terminal_waiting>>, phase' # "raised",
             NEW b \in Badges, NEW from, NEW to, Moves(b, from, to),
             from # "called", to # "called"
      PROVE  RankLists'
  BY <1>1, <1>3, RanksAreLeft DEF Moves
<1>4. ASSUME UNCHANGED <<serving, terminal_waiting>>, phase' # "raised", UNCHANGED vars
      PROVE  RankLists'
  BY <1>1, <1>4, RanksAreLeft DEF vars
<1>5. ASSUME NEW b \in Badges, ShiftStart(b) \/ FareEnds(b) \/ Retry(b) \/ ShiftEnd(b)
      PROVE  RankLists'
  <2>1. UNCHANGED <<serving, terminal_waiting>> /\ phase' # "raised"
    BY <1>2, <1>5 DEF ShiftStart, FareEnds, Retry, ShiftEnd, jobs, buckets
  <2>2. CASE ShiftStart(b)
    BY <1>2, <1>3, <2>1, <2>2, ParkMoves DEF ShiftStart
  <2>3. CASE FareEnds(b)
    BY <1>2, <1>3, <2>1, <2>3, CompletionMoves DEF FareEnds
  <2>4. CASE Retry(b)
    BY <1>4, <2>1, <2>4 DEF Retry
  <2>5. CASE ShiftEnd(b)
    BY <1>2, <1>3, <2>1, <2>5, ParkMoves DEF ShiftEnd
  <2> QED
    BY <1>5, <2>2, <2>3, <2>4, <2>5
<1>6. CASE AfterFare
  <2>1. UNCHANGED <<serving, terminal_waiting>> /\ phase' # "raised"
    BY <1>2, <1>6 DEF AfterFare, buckets
  <2>2. CASE LeaveFeederPark(ending.badge)
    <3>1. ending.badge \in Badges
      BY <1>6 DEF AfterFare, SimBase, SimTypeOK, EndedFare
    <3> QED
      BY <1>2, <1>3, <2>1, <2>2, <3>1, ParkMoves
  <2> QED
    BY <1>4, <1>6, <2>1, <2>2 DEF AfterFare, BackInPark, NotReturning, ComesBack
<1>7. ASSUME NEW t \in Terminals, TerminalFull(t) PROVE RankLists'
  BY <1>2, <1>4, <1>7 DEF TerminalFull, buckets
<1>8. CASE AllTerminalsFull
  BY <1>2, <1>4, <1>8 DEF AllTerminalsFull, buckets
<1>9. CASE NextPhase \/ DayOver \/ UNCHANGED simVars
  BY <1>2, <1>4, <1>9 DEF NextPhase, PhaseOver, DayOver, simVars, jobs, buckets
<1>10. CASE NextMinute
  BY <1>1, <1>10, RanksAreLeft DEF NextMinute, jobs, buckets
<1> QED
  BY <1>1, <1>5, <1>6, <1>7, <1>8, <1>9, <1>10, PassengerKeepsLists, DepartKeepsLists,
     PickKeepsLists, SweepKeepsLists DEF SimNext

\* The lists and the ranks agree throughout the day.
THEOREM ListInvariance == SimSpec => []RankLists
<1>1. SimBase /\ RankLists /\ [SimNext]_simVars => RankLists'
  BY ListStep
<1> QED
  BY <1>1, NobodyWaits, SimInvariance, PTL DEF SimSpec

\* No passenger is given a taxi that does not wait there, so no error that the
\* loop does not catch ends the day.
THEOREM NothingIsRaised == SimSpec => []NothingRaised
<1>1. RankLists => NothingRaised
  BY DEF RankLists, NothingRaised
<1> QED
  BY <1>1, ListInvariance, PTL

\* The loop's lists are the ranks, of returned drivers only, whichever sweep added
\* the drivers.
THEOREM ListsAreRanks == SimSpec => []WaitingIsTheRank
<1>1. SimBase /\ RankLists => WaitingIsTheRank
  BY ListIsWholeRank DEF WaitingIsTheRank
<1> QED
  BY <1>1, SimInvariance, ListInvariance, PTL

\* In the simulation no rank is ever over its capacity, in a snapshot or between two.
THEOREM SnapshotsFit == SimSpec => []SnapshotsWithinCapacity
<1>1. RankLists => SnapshotsWithinCapacity
  BY DEF RankLists, ListIsRank, SnapshotsWithinCapacity
<1> QED
  BY <1>1, ListInvariance, PTL
=============================================================================
