----------------------------- MODULE ScreenProofs -----------------------------
(***************************************************************************)
(* Theorems about FeederScreen: what the screen says holds for any number  *)
(* of drivers, calls and requests that come between two of its rows, and   *)
(* for every window, default, least interval and lookahead.                *)
(*                                                                         *)
(* The argument rests on one fact about the queue under the walk: a step   *)
(* of the service takes at most one driver out, and nobody moves but those *)
(* behind, who move up by one place.                                       *)
(***************************************************************************)
EXTENDS FeederScreen, CapacityProofs

----------------------------------------------------------------------------
(***************************************************************************)
(* How a step of the service moves the queue.                              *)
(***************************************************************************)

\* In r everyone is where q has them, but for k, who is gone, and those behind.
MovesUp(q, r, k) ==
  \A p \in 1..Len(q) : p # k =>
    LET p1 == IF p < k THEN p ELSE p - 1
    IN  p1 \in 1..Len(r) /\ r[p1] = q[p]

\* What a step of the service may do to the queue.
Unmoved == feeder_park_queue' = feeder_park_queue

Grown ==
  \E b \in Badges : /\ b \notin ToSet(feeder_park_queue)
                    /\ feeder_park_queue' = Append(feeder_park_queue, b)

Shrunk ==
  \E k \in 1..Len(feeder_park_queue) : feeder_park_queue' = Cut(feeder_park_queue, k)

\* remove of a badge takes out the place it has, or nothing.
LEMMA RemovalShrinks ==
  ASSUME IInv, NEW b \in Badges, feeder_park_queue' = QueueWithout(b)
  PROVE  Unmoved \/ Shrunk
<1>1. feeder_park_queue \in Seq(Badges) /\ IsInjective(feeder_park_queue)
  BY DEF IInv, TypeOK, QueueHoldsTheWaiting
<1>2. CASE \E k \in 1..Len(feeder_park_queue) : feeder_park_queue[k] = b
  BY <1>1, <1>2, RemoveFirstIsCut DEF QueueWithout, Shrunk
<1>3. CASE ~\E k \in 1..Len(feeder_park_queue) : feeder_park_queue[k] = b
  BY <1>3 DEF QueueWithout, RemoveFirst, Unmoved
<1> QED
  BY <1>2, <1>3

\* append puts a badge there that was not.
LEMMA AppendGrows ==
  ASSUME IInv, NEW b \in Badges, taxis[b].status # "in_feeder_park",
         feeder_park_queue' = BackOfQueue(b)
  PROVE  Grown
BY DEF IInv, QueueHoldsTheWaiting, BackOfQueue, Grown

\* Each operation leaves the queue alone, appends to it, or takes one out.
LEMMA QueueAfterStep ==
  ASSUME IInv, [Next]_vars
  PROVE  Unmoved \/ Grown \/ Shrunk
<1> DEFINE P == Unmoved \/ Grown \/ Shrunk
<1>1. CASE UNCHANGED vars
  BY <1>1 DEF vars, Unmoved
<1>2. CASE AdminStep
  BY <1>2, RemovalShrinks DEF AdminStep, AddTaxi, RemoveTaxi, AddRankAgent,
       RemoveRankAgent, AddTerminal, RemoveTerminal, SetTrafficLevel, Unmoved
<1>3. ASSUME NEW b \in Badges,
             \/ JoinFeederPark(b)
             \/ LeaveFeederPark(b)
             \/ CompleteFare(b)
             \/ \E t \in Terminals, eta \in Etas : ReturnToTerminal(b, t, eta)
      PROVE  P
  <2>1. CASE JoinFeederPark(b)
    BY <2>1, AppendGrows DEF JoinFeederPark
  <2>2. CASE LeaveFeederPark(b)
    BY <2>2, RemovalShrinks DEF LeaveFeederPark
  <2>3. CASE CompleteFare(b)
    <3>1. taxis[b].status # "in_feeder_park"
      BY <2>3 DEF CompleteFare
    <3>2. feeder_park_queue' = BackOfQueue(b) \/ Unmoved
      BY <2>3 DEF CompleteFare, Unmoved
    <3> QED
      BY <3>1, <3>2, AppendGrows
  <2>4. CASE \E t \in Terminals, eta \in Etas : ReturnToTerminal(b, t, eta)
    BY <2>4 DEF ReturnToTerminal, Unmoved
  <2> QED
    BY <1>3, <2>1, <2>2, <2>3, <2>4
<1>4. CASE DriverStep
  BY <1>3, <1>4 DEF DriverStep
<1>5. ASSUME NEW t \in Terminals, CallNextTaxi(t)
      PROVE  P
  <2>1. feeder_park_queue \in Seq(Badges) /\ feeder_park_queue # << >>
    BY <1>5 DEF IInv, TypeOK, CallNextTaxi
  <2>2. feeder_park_queue' = Cut(feeder_park_queue, 1)
    BY <1>5, <2>1, TailIsCut DEF CallNextTaxi
  <2>3. 1 \in 1..Len(feeder_park_queue)
    BY <2>1, EmptySeq
  <2> QED
    BY <2>2, <2>3 DEF Shrunk
<1>6. CASE RankAgentStep
  BY <1>5, <1>6 DEF RankAgentStep, RecordFare, Unmoved
<1>7. CASE PromoteDueReturns \/ Tick
  BY <1>7 DEF PromoteDueReturns, Tick, Unmoved
<1> QED
  BY <1>1, <1>2, <1>4, <1>6, <1>7 DEF Next

\* So at most one driver departs, and nobody else falls back: k is the place of
\* the one who departs, or one behind the queue if nobody does.
LEMMA NobodyFallsBack ==
  ASSUME IInv, [Next]_vars
  PROVE  \E k \in 1..Len(feeder_park_queue) + 1 :
           /\ MovesUp(feeder_park_queue, feeder_park_queue', k)
           /\ Departed = IF k <= Len(feeder_park_queue)
                         THEN {feeder_park_queue[k]} ELSE {}
<1> DEFINE q == feeder_park_queue
           P(k) == /\ MovesUp(q, q', k)
                   /\ Departed = IF k <= Len(q) THEN {q[k]} ELSE {}
<1>1. q \in Seq(Badges) /\ IsInjective(q) /\ Len(q) \in Nat
  BY DEF IInv, TypeOK, QueueHoldsTheWaiting
<1>2. CASE Unmoved
  BY <1>1, <1>2 DEF Unmoved, MovesUp, Departed
<1>3. CASE Grown
  <2>1. PICK b \in Badges : b \notin ToSet(q) /\ q' = Append(q, b)
    BY <1>3 DEF Grown
  <2>2. ToSet(q') = ToSet(q) \cup {b}
    BY <1>1, <2>1, AppendNewProperties
  <2>3. Len(q') = Len(q) + 1 /\ \A p \in 1..Len(q) : q'[p] = q[p]
    BY <1>1, <2>1, AppendProperties
  <2>4. Departed = {}
    BY <2>2 DEF Departed
  <2>5. MovesUp(q, q', Len(q) + 1)
    BY <1>1, <2>3 DEF MovesUp
  <2> QED
    BY <1>1, <2>4, <2>5
<1>4. CASE Shrunk
  <2>1. PICK k \in 1..Len(q) : q' = Cut(q, k)
    BY <1>4 DEF Shrunk
  <2>2. /\ Len(q') = Len(q) - 1
        /\ \A i \in 1..Len(q') : q'[i] = IF i < k THEN q[i] ELSE q[i+1]
    BY <1>1, <2>1, CutProperties
  <2>3. MovesUp(q, q', k)
    BY <1>1, <2>2 DEF MovesUp
  <2>4. q[k] \in ToSet(q) /\ ToSet(q') = ToSet(q) \ {q[k]}
    <3>1. q' = RemoveFirst(q, q[k])
      BY <1>1, <2>1, RemoveFirstIsCut
    <3>2. ToSet(q') = ToSet(q) \ {q[k]}
      BY <1>1, <3>1, RemoveFirstProperties
    <3>3. q[k] \in ToSet(q)
      BY <1>1 DEF ToSet
    <3> QED
      BY <3>2, <3>3
  <2>5. Departed = {q[k]}
    BY <2>4 DEF Departed
  <2> QED
    BY <1>1, <2>3, <2>5
<1> QED
  BY <1>2, <1>3, <1>4, QueueAfterStep

----------------------------------------------------------------------------
(***************************************************************************)
(* The call interval.                                                      *)
(***************************************************************************)

\* No taxi is called in the future.
CallsArePast == \A i \in DOMAIN calls : calls[i] <= now

\* Some naturals below a bound have a greatest and a least.
LEMMA MaxAndMin ==
  ASSUME NEW T, T \subseteq Nat, T # {}, NEW n \in Nat, \A x \in T : x <= n
  PROVE  Max(T) \in T /\ Min(T) \in T
<1>1. \E x \in T : \A y \in T : x <= y
  BY LeastNatural
<1>2. \E x \in T : \A y \in T : x >= y
  <2> DEFINE gap == {n - x : x \in T}
  <2>1. gap \subseteq Nat /\ gap # {}
    <3>1. \A x \in T : n - x \in Nat
      OBVIOUS
    <3> QED
      BY <3>1
  <2> HIDE DEF gap
  <2>2. PICK g \in gap : \A h \in gap : g <= h
    BY <2>1, LeastNatural
  <2>3. PICK x \in T : g = n - x
    BY DEF gap
  <2>4. ASSUME NEW y \in T PROVE x >= y
    <3>1. n - y \in gap
      BY DEF gap
    <3> QED
      BY <2>2, <2>3, <3>1
  <2> QED
    BY <2>4
<1> QED
  BY <1>1, <1>2 DEF Max, Min

\* The interval measured spans no more than the window.
LEMMA MeasuredSpan ==
  ASSUME calls \in Seq(Nat), now \in Nat, CallsArePast,
         Cardinality(Recent) >= MinEvents
  PROVE  /\ Measured.span \in Int
         /\ 0 <= Measured.span /\ Measured.span <= Window
         /\ Measured.gaps \in Nat \ {0}
         /\ MinEvents - 1 <= Measured.gaps
<1>1. /\ MinEvents \in Nat \ {0, 1}
      /\ Window \in Nat
  BY ScreenAssumption
<1>2. IsFiniteSet(Recent) /\ Cardinality(Recent) \in Nat
  <2>1. Recent \subseteq 1..Len(calls) /\ IsFiniteSet(1..Len(calls))
    BY FS_Interval DEF Recent
  <2> QED
    BY <2>1, FS_Subset, FS_CardinalityType
<1>3. Recent # {}
  <2>1. Cardinality(Recent) # 0
    BY <1>1, <1>2
  <2> QED
    BY <2>1, FS_EmptySet
<1>4. /\ Timestamps \subseteq Nat
      /\ Timestamps # {}
      /\ \A x \in Timestamps : x <= now /\ x >= now - Window
  BY <1>1, <1>3 DEF Timestamps, Recent, CallsArePast
<1>5. Max(Timestamps) \in Timestamps /\ Min(Timestamps) \in Timestamps
  BY <1>4, MaxAndMin
<1>6. \A y \in Timestamps : Min(Timestamps) <= y
  BY <1>4, LeastNatural DEF Min
<1>7. /\ Measured.span = Max(Timestamps) - Min(Timestamps)
      /\ Measured.gaps = Cardinality(Recent) - 1
  BY DEF Measured, Gaps
<1> DEFINE latest == Max(Timestamps)
           earliest == Min(Timestamps)
<1>8. /\ latest \in Nat /\ latest <= now
      /\ earliest \in Nat /\ earliest >= now - Window
      /\ earliest <= latest
  BY <1>4, <1>5, <1>6
<1>9. Measured.span = latest - earliest
  BY <1>7
<1> HIDE DEF latest, earliest
<1>10. /\ Measured.span \in Int
       /\ 0 <= Measured.span /\ Measured.span <= Window
  BY <1>1, <1>8, <1>9
<1>11. Measured.gaps \in Nat \ {0} /\ MinEvents - 1 <= Measured.gaps
  BY <1>1, <1>2, <1>7
<1> QED
  BY <1>10, <1>11

\* The divisor is never 0, and the bounds hold, whatever the calls.
LEMMA CallIntervalProperties ==
  ASSUME calls \in Seq(Nat), now \in Nat, CallsArePast
  PROVE  /\ CallInterval \in [span : Nat, gaps : Nat \ {0}]
         /\ IntervalWithinReason
<1> DEFINE default == [span |-> DefaultInterval, gaps |-> 1]
           least == [span |-> MinInterval, gaps |-> 1]
<1>1. /\ MinEvents \in Nat \ {0, 1}
      /\ Window \in Nat /\ DefaultInterval \in Nat /\ MinInterval \in Nat
      /\ MinInterval * (MinEvents - 1) <= Window
  BY ScreenAssumption
<1>2. CASE Cardinality(Recent) < MinEvents \/ Measured.span <= 0
  <2>1. CallInterval = default
    BY <1>2 DEF CallInterval
  <2> QED
    BY <1>1, <2>1 DEF IntervalWithinReason
<1>3. CASE ~(Cardinality(Recent) < MinEvents \/ Measured.span <= 0)
  <2> DEFINE span == Measured.span
             gaps == Measured.gaps
  <2>1. Cardinality(Recent) >= MinEvents
    <3>1. Recent \subseteq 1..Len(calls) /\ IsFiniteSet(1..Len(calls))
      BY FS_Interval DEF Recent
    <3>2. Cardinality(Recent) \in Nat
      BY <3>1, FS_Subset, FS_CardinalityType
    <3> QED
      BY <1>1, <1>3, <3>2
  <2>2. /\ span \in Nat /\ span <= Window
        /\ gaps \in Nat \ {0} /\ MinEvents - 1 <= gaps
    BY <2>1, MeasuredSpan
  <2>3. CASE span < MinInterval * gaps
    <3>1. CallInterval = least
      BY <1>3, <2>3 DEF CallInterval
    <3> QED
      BY <1>1, <3>1 DEF IntervalWithinReason
  <2>4. CASE ~(span < MinInterval * gaps)
    <3>1. CallInterval = Measured
      BY <1>3, <2>4 DEF CallInterval
    <3>2. CallInterval = [span |-> span, gaps |-> gaps]
      BY <3>1 DEF Measured
    <3> HIDE DEF span, gaps
    <3>3. span * (MinEvents - 1) <= Window * gaps
      BY <1>1, <2>2, ProductIsMonotone
    <3>4. MinInterval * gaps \in Nat
      BY <1>1, <2>2, SMT
    <3>5. span >= MinInterval * gaps
      BY <2>2, <2>4, <3>4
    <3> QED
      BY <2>2, <3>2, <3>3, <3>5 DEF IntervalWithinReason
  <2> QED
    BY <2>3, <2>4
<1> QED
  BY <1>2, <1>3

----------------------------------------------------------------------------
(***************************************************************************)
(* The inductive invariant of the reading.                                 *)
(***************************************************************************)

\* The rows are in the order of their positions.
RowsInOrder ==
  \A i, j \in DOMAIN rows : i < j => rows[i].position < rows[j].position

\* During the reading each row is of a place already passed, and says what the
\* one interval of this reading makes of it.
RowsAreRead ==
  stage = "reading" =>
    \A i \in DOMAIN rows :
      /\ rows[i].position <= index
      /\ rows[i].due_soon <=> DueSoon(rows[i].position)

\* The drivers the walk has gone past without a row, waiting all along.
PassedOver ==
  {b \in waited \ {rows[i].badge_number : i \in DOMAIN rows} :
     \E p \in DOMAIN feeder_park_queue : p <= index /\ feeder_park_queue[p] = b}

OmissionsAreCounted ==
  /\ waited \subseteq ToSet(feeder_park_queue)
  /\ stage = "reading" => Cardinality(PassedOver) <= departures

ScreenIInv ==
  /\ IInv
  /\ ScreenTypeOK
  /\ CallsArePast
  /\ PositionIsABound
  /\ RowsFollowTheQueue
  /\ RowsInOrder
  /\ RowsAreRead
  /\ DueSoonComeFirst
  /\ OmissionsAreCounted

\* Nothing is read when the server starts.
LEMMA InitScreenIInv == ScreenInit => ScreenIInv
<1> SUFFICES ASSUME ScreenInit PROVE ScreenIInv
  OBVIOUS
<1>1. IInv
  BY InitIInv DEF ScreenInit
<1>2. /\ calls = << >> /\ stage = "idle" /\ rows = << >> /\ index = 0
      /\ interval = [span |-> DefaultInterval, gaps |-> 1]
      /\ kept = {} /\ waited = {} /\ departures = 0
  BY DEF ScreenInit
<1>3. << >> \in Seq(Nat) /\ << >> \in Seq(FeederParkRow) /\ DOMAIN << >> = {}
  OBVIOUS
<1>4. ScreenTypeOK
  BY <1>2, <1>3, ScreenAssumption DEF ScreenTypeOK
<1> QED
  BY <1>1, <1>2, <1>3, <1>4 DEF ScreenIInv, CallsArePast, PositionIsABound,
     RowsFollowTheQueue, RowsInOrder, RowsAreRead, DueSoonComeFirst,
     OmissionsAreCounted

\* The reading begins with no row, and with everyone in the queue waiting.
LEMMA StartReadingKeeps ==
  ASSUME ScreenIInv, StartReading
  PROVE  ScreenIInv'
<1>1. /\ UNCHANGED <<vars, calls>>
      /\ stage' = "reading" /\ interval' = CallInterval
      /\ index' = 0 /\ rows' = << >>
      /\ kept' = {} /\ waited' = ToSet(feeder_park_queue) /\ departures' = 0
  BY DEF StartReading
<1>2. IInv'
  BY <1>1, NextKeepsIInv DEF ScreenIInv
<1>3. feeder_park_queue' = feeder_park_queue /\ now' = now
  BY <1>1 DEF vars, site
<1>4. << >> \in Seq(FeederParkRow) /\ DOMAIN << >> = {}
  OBVIOUS
<1>5. CallInterval \in [span : Nat, gaps : Nat \ {0}]
  BY CallIntervalProperties DEF ScreenIInv, ScreenTypeOK, IInv, TypeOK
<1>6. ToSet(feeder_park_queue) \subseteq Badges
  BY DEF ScreenIInv, IInv, TypeOK, ToSet
<1>7. ScreenTypeOK' /\ CallsArePast'
  BY <1>1, <1>3, <1>4, <1>5, <1>6 DEF ScreenIInv, ScreenTypeOK, CallsArePast
<1>8. OmissionsAreCounted'
  <2>1. PassedOver' = {}
    <3>1. DOMAIN feeder_park_queue' \subseteq Nat \ {0}
      BY <1>3 DEF ScreenIInv, IInv, TypeOK
    <3> QED
      BY <1>1, <3>1 DEF PassedOver
  <2>2. Cardinality(PassedOver)' = 0
    BY <2>1, FS_EmptySet
  <2> QED
    BY <1>1, <1>3, <2>2 DEF OmissionsAreCounted
<1> QED
  BY <1>1, <1>2, <1>4, <1>7, <1>8 DEF ScreenIInv, PositionIsABound,
     RowsFollowTheQueue, RowsInOrder, RowsAreRead, DueSoonComeFirst

\* Whoever is shown stays shown; only the interval beside the rows is new.
LEMMA ShowScreenKeeps ==
  ASSUME ScreenIInv, ShowScreen
  PROVE  ScreenIInv'
<1>1. /\ UNCHANGED <<vars, calls, rows, kept>>
      /\ stage' = "shown" /\ interval' = CallInterval
      /\ index' = 0 /\ waited' = {} /\ departures' = 0
  BY DEF ShowScreen
<1>2. IInv'
  BY <1>1, NextKeepsIInv DEF ScreenIInv
<1>3. feeder_park_queue' = feeder_park_queue /\ now' = now
  BY <1>1 DEF vars, site
<1>4. CallInterval \in [span : Nat, gaps : Nat \ {0}]
  BY CallIntervalProperties DEF ScreenIInv, ScreenTypeOK, IInv, TypeOK
<1>5. ScreenTypeOK' /\ CallsArePast'
  BY <1>1, <1>3, <1>4 DEF ScreenIInv, ScreenTypeOK, CallsArePast
<1>6. PositionIsABound' /\ RowsFollowTheQueue'
  BY <1>1, <1>3 DEF ScreenIInv, PositionIsABound, RowsFollowTheQueue, Before
<1>7. RowsInOrder' /\ DueSoonComeFirst'
  BY <1>1 DEF ScreenIInv, RowsInOrder, DueSoonComeFirst
<1>8. RowsAreRead' /\ OmissionsAreCounted'
  BY <1>1 DEF RowsAreRead, OmissionsAreCounted
<1> QED
  BY <1>2, <1>5, <1>6, <1>7, <1>8 DEF ScreenIInv

\* Whoever is in front of a driver due soon is due soon.
LEMMA DueSoonIsDownward ==
  ASSUME interval \in [span : Nat, gaps : Nat \ {0}],
         NEW p \in Nat, NEW r \in Nat, p <= r, DueSoon(r)
  PROVE  DueSoon(p)
<1> DEFINE span == RowInterval.span
           gaps == RowInterval.gaps
<1>1. span \in Nat /\ gaps \in Nat /\ Lookahead \in Nat
  BY ScreenAssumption DEF RowInterval
<1>2. r * span <= Lookahead * gaps
  BY DEF DueSoon
<1> HIDE DEF span, gaps
<1>3. p * span <= r * span
  BY <1>1, ProductIsMonotone
<1>4. p * span \in Nat /\ r * span \in Nat /\ Lookahead * gaps \in Nat
  BY <1>1, SMT
<1>5. p * span <= Lookahead * gaps
  BY <1>2, <1>3, <1>4
<1> QED
  BY <1>5 DEF DueSoon, span, gaps

\* A row is appended for the driver the walk is at, who is always registered.
LEMMA RowIsAppended ==
  ASSUME ScreenIInv, ReadRow
  PROVE  LET b == feeder_park_queue[index + 1]
         IN  /\ b \in Badges
             /\ rows' = Append(rows, Row(b, index + 1))
             /\ kept' = kept \cup {Len(rows) + 1}
<1> DEFINE b == feeder_park_queue[index + 1]
<1>1. feeder_park_queue \in Seq(Badges) /\ index \in Nat /\ index < Len(feeder_park_queue)
  BY DEF ScreenIInv, IInv, TypeOK, ScreenTypeOK, ReadRow
<1>2. b \in Badges /\ b \in ToSet(feeder_park_queue)
  BY <1>1 DEF ToSet
<1>3. b \in Registered
  BY <1>2 DEF ScreenIInv, IInv, QueueHoldsTheWaiting
<1>4. rows' = Append(rows, Row(b, index + 1)) /\ kept' = kept \cup {Len(rows')}
  BY <1>3 DEF ReadRow
<1>5. Len(Append(rows, Row(b, index + 1))) = Len(rows) + 1
  BY DEF ScreenIInv, ScreenTypeOK
<1> QED
  BY <1>2, <1>4, <1>5

\* The new row comes behind the others in every respect: its position, its place
\* in the queue, and whether its driver is due soon.
LEMMA ReadRowKeeps ==
  ASSUME ScreenIInv, ReadRow
  PROVE  ScreenIInv'
<1> DEFINE q == feeder_park_queue
           b == q[index + 1]
           n == Len(rows)
           row == Row(b, index + 1)
<1>1. /\ stage = "reading" /\ index < Len(q)
      /\ index' = index + 1
      /\ UNCHANGED <<vars, calls, stage, interval, waited, departures>>
  BY DEF ReadRow, NextIndex
<1>2. b \in Badges /\ rows' = Append(rows, row) /\ kept' = kept \cup {n + 1}
  BY RowIsAppended
<1>3. q \in Seq(Badges) /\ index \in Nat /\ rows \in Seq(FeederParkRow) /\ n \in Nat
  BY DEF ScreenIInv, IInv, TypeOK, ScreenTypeOK
<1>4. /\ row \in FeederParkRow
      /\ row.badge_number = b /\ row.position = index + 1
      /\ row.due_soon = DueSoon(index + 1)
  BY <1>2, <1>3 DEF Row, FeederParkRow, DueSoon
<1> HIDE DEF row
<1>5. /\ rows' \in Seq(FeederParkRow)
      /\ DOMAIN rows = 1..n /\ DOMAIN rows' = 1..n+1
      /\ \A i \in 1..n : rows'[i] = rows[i]
      /\ rows'[n+1] = row
      /\ \A i \in 1..n : rows[i] \in FeederParkRow
  BY <1>2, <1>3, <1>4, AppendProperties
<1> HIDE DEF n
<1>6. q' = q /\ now' = now
  BY <1>1 DEF vars, site
<1>7. \A i \in 1..n : /\ rows[i].position \in Nat
                      /\ rows[i].position <= index
                      /\ rows[i].due_soon <=> DueSoon(rows[i].position)
  <2>1. \A i \in 1..n : rows[i].position \in Nat
    BY <1>5 DEF FeederParkRow
  <2>2. \A i \in 1..n : /\ rows[i].position <= index
                        /\ rows[i].due_soon <=> DueSoon(rows[i].position)
    BY <1>1, <1>5 DEF ScreenIInv, RowsAreRead
  <2> QED
    BY <2>1, <2>2
<1>8. kept \subseteq 1..n
  BY <1>5 DEF ScreenIInv, ScreenTypeOK
<1>9. IInv'
  BY <1>1, NextKeepsIInv DEF ScreenIInv
<1>10. ScreenTypeOK' /\ CallsArePast'
  BY <1>1, <1>2, <1>3, <1>5, <1>6, <1>8 DEF ScreenIInv, ScreenTypeOK, CallsArePast
<1>11. PositionIsABound'
  <2>1. \A i \in kept : \E p \in DOMAIN q :
          q[p] = rows[i].badge_number /\ p <= rows[i].position
    BY DEF ScreenIInv, PositionIsABound
  <2>2. \A i \in kept : \E p \in DOMAIN q :
          q[p] = rows'[i].badge_number /\ p <= rows'[i].position
    BY <1>5, <1>8, <2>1
  <2>3. index + 1 \in DOMAIN q /\ q[index + 1] = row.badge_number
    BY <1>1, <1>3, <1>4
  <2>4. rows'[n+1].badge_number = row.badge_number /\ rows'[n+1].position = index + 1
    BY <1>4, <1>5
  <2>5. \A i \in kept' : \E p \in DOMAIN q :
          q[p] = rows'[i].badge_number /\ p <= rows'[i].position
    <3>1. index + 1 <= index + 1
      BY <1>3
    <3> QED
      BY <1>2, <2>2, <2>3, <2>4, <3>1
  <2> QED
    BY <1>6, <2>5 DEF PositionIsABound
<1>12. RowsFollowTheQueue'
  <2> SUFFICES ASSUME NEW i \in kept', NEW j \in kept', i < j
               PROVE  Before(q, rows'[i].badge_number, rows'[j].badge_number)
    BY <1>6 DEF RowsFollowTheQueue, Before
  <2>1. i \in kept
    BY <1>2, <1>8, <1>3
  <2>2. CASE j \in kept
    BY <1>5, <1>8, <2>1, <2>2 DEF ScreenIInv, RowsFollowTheQueue
  <2>3. CASE j = n + 1
    <3>1. PICK p \in DOMAIN q :
            q[p] = rows[i].badge_number /\ p <= rows[i].position
      BY <2>1 DEF ScreenIInv, PositionIsABound
    <3>2. p < index + 1 /\ index + 1 \in DOMAIN q
      BY <1>1, <1>3, <1>7, <1>8, <2>1, <3>1
    <3>3. rows'[i] = rows[i] /\ rows'[j].badge_number = q[index + 1]
      BY <1>4, <1>5, <1>8, <2>1, <2>3
    <3> QED
      BY <3>1, <3>2, <3>3 DEF Before
  <2> QED
    BY <1>2, <2>2, <2>3
<1>13. RowsInOrder'
  BY <1>3, <1>4, <1>5, <1>7 DEF ScreenIInv, RowsInOrder
<1>14. RowsAreRead'
  <2> SUFFICES ASSUME NEW i \in 1..n+1
               PROVE  /\ rows'[i].position <= index + 1
                      /\ rows'[i].due_soon <=> DueSoon(rows'[i].position)
    BY <1>1, <1>5 DEF RowsAreRead, DueSoon, RowInterval
  <2> QED
    BY <1>3, <1>4, <1>5, <1>7
<1>15. DueSoonComeFirst'
  <2> SUFFICES ASSUME NEW i \in 1..n+1, NEW j \in 1..n+1, i < j, rows'[j].due_soon
               PROVE  rows'[i].due_soon
    BY <1>5 DEF DueSoonComeFirst
  <2>1. CASE j \in 1..n
    <3>1. i \in 1..n
      BY <1>3, <2>1
    <3>2. rows[j].due_soon
      BY <1>5, <2>1
    <3>3. rows[i].due_soon
      BY <1>5, <2>1, <3>1, <3>2 DEF ScreenIInv, DueSoonComeFirst
    <3> QED
      BY <1>5, <3>1, <3>3
  <2>2. CASE j = n + 1
    <3>1. DueSoon(index + 1) /\ i \in 1..n
      BY <1>3, <1>4, <1>5, <2>2
    <3>2. DueSoon(rows[i].position)
      BY <1>3, <1>7, <3>1, DueSoonIsDownward DEF ScreenIInv, ScreenTypeOK
    <3> QED
      BY <1>5, <1>7, <3>1, <3>2
  <2> QED
    BY <1>3, <2>1, <2>2
<1>16. OmissionsAreCounted'
  <2>1. PassedOver' \subseteq PassedOver
    <3> SUFFICES ASSUME NEW x \in PassedOver' PROVE x \in PassedOver
      OBVIOUS
    <3>1. PICK p \in DOMAIN q : p <= index + 1 /\ q[p] = x
      BY <1>1, <1>6 DEF PassedOver
    <3>2. /\ x \in waited
          /\ \A i \in 1..n+1 : rows'[i].badge_number # x
      BY <1>1, <1>5 DEF PassedOver
    <3>3. x # b
      BY <1>3, <1>4, <1>5, <3>2
    <3>4. p <= index
      BY <1>3, <3>1, <3>3
    <3>5. \A i \in 1..n : rows[i].badge_number # x
      BY <1>3, <1>5, <3>2
    <3> QED
      BY <1>5, <3>1, <3>2, <3>4, <3>5 DEF PassedOver
  <2>2. IsFiniteSet(PassedOver)
    BY RankAssumption, FS_Subset DEF PassedOver, ScreenIInv, ScreenTypeOK
  <2>3. /\ Cardinality(PassedOver') <= Cardinality(PassedOver)
        /\ Cardinality(PassedOver') \in Nat /\ Cardinality(PassedOver) \in Nat
    BY <2>1, <2>2, FS_Subset, FS_CardinalityType
  <2>4. Cardinality(PassedOver) <= departures /\ departures \in Nat
    BY <1>1 DEF ScreenIInv, OmissionsAreCounted, ScreenTypeOK
  <2>5. Cardinality(PassedOver') <= departures
    BY <2>3, <2>4
  <2> QED
    BY <1>1, <1>6, <2>5 DEF ScreenIInv, OmissionsAreCounted
<1> QED
  BY <1>9, <1>10, <1>11, <1>12, <1>13, <1>14, <1>15, <1>16 DEF ScreenIInv

\* Time does not run backwards.
LEMMA ClockRuns ==
  ASSUME now \in Nat, [Next]_vars
  PROVE  now' \in Nat /\ now <= now'
<1>1. now' = now \/ now' = now + 1
  BY DEF Next, AdminStep, AddTaxi, RemoveTaxi, AddRankAgent, RemoveRankAgent,
     AddTerminal, RemoveTerminal, SetTrafficLevel, DriverStep, JoinFeederPark,
     LeaveFeederPark, CompleteFare, ReturnToTerminal, RankAgentStep,
     CallNextTaxi, RecordFare, PromoteDueReturns, Tick, site, vars
<1> QED
  BY <1>1

\* A request adds to the calls, if anything, a call of this moment.
LEMMA CallsStayPast ==
  ASSUME ScreenIInv, OtherRequest
  PROVE  calls' \in Seq(Nat) /\ CallsArePast'
<1>1. calls \in Seq(Nat) /\ now \in Nat
  BY DEF ScreenIInv, ScreenTypeOK, IInv, TypeOK
<1>2. now' \in Nat /\ now <= now'
  BY <1>1, ClockRuns DEF OtherRequest
<1>3. \A i \in 1..Len(calls) : calls[i] \in Nat /\ calls[i] <= now
  BY <1>1 DEF ScreenIInv, CallsArePast
<1>4. CASE calls' = calls
  BY <1>1, <1>2, <1>3, <1>4 DEF CallsArePast
<1>5. CASE calls' = Append(calls, now)
  <2>1. /\ calls' \in Seq(Nat)
        /\ DOMAIN calls' = 1..Len(calls) + 1
        /\ \A i \in 1..Len(calls) : calls'[i] = calls[i]
        /\ calls'[Len(calls) + 1] = now
    BY <1>1, <1>5, AppendProperties
  <2>2. ASSUME NEW i \in 1..Len(calls) + 1 PROVE calls'[i] <= now'
    <3>1. CASE i \in 1..Len(calls)
      BY <1>1, <1>2, <1>3, <2>1, <3>1
    <3>2. CASE i = Len(calls) + 1
      BY <1>2, <2>1, <3>2
    <3> QED
      BY <1>1, <3>1, <3>2
  <2> QED
    BY <2>1, <2>2 DEF CallsArePast
<1> QED
  BY <1>4, <1>5 DEF OtherRequest

\* The rows of those who stay are bounds: nobody falls back.
LEMMA PositionsStayBounds ==
  ASSUME ScreenIInv, OtherRequest
  PROVE  PositionIsABound'
<1> DEFINE q == feeder_park_queue
<1>1. PICK k \in 1..Len(q) + 1 :
        /\ MovesUp(q, q', k)
        /\ Departed = IF k <= Len(q) THEN {q[k]} ELSE {}
  BY NobodyFallsBack DEF ScreenIInv, OtherRequest
<1>2. q \in Seq(Badges) /\ q' \in Seq(Badges)
  BY NextKeepsIInv DEF ScreenIInv, OtherRequest, IInv, TypeOK
<1>3. kept' = {i \in kept : rows[i].badge_number \notin Departed} /\ rows' = rows
  BY DEF OtherRequest
<1>4. SUFFICES ASSUME NEW i \in kept, rows[i].badge_number \notin Departed
               PROVE  \E p \in DOMAIN q' :
                        q'[p] = rows[i].badge_number /\ p <= rows[i].position
  BY <1>3 DEF PositionIsABound
<1>5. PICK p \in 1..Len(q) : q[p] = rows[i].badge_number /\ p <= rows[i].position
  BY <1>2 DEF ScreenIInv, PositionIsABound
<1>6. p # k
  BY <1>1, <1>4, <1>5
<1> DEFINE p1 == IF p < k THEN p ELSE p - 1
<1>7. p1 \in 1..Len(q') /\ q'[p1] = q[p]
  BY <1>1, <1>6 DEF MovesUp
<1>8. rows[i].position \in Nat
  <2>1. rows[i] \in FeederParkRow
    BY DEF ScreenIInv, ScreenTypeOK
  <2> QED
    BY <2>1 DEF FeederParkRow
<1>9. p1 <= rows[i].position
  BY <1>5, <1>8
<1> HIDE DEF p1
<1> QED
  BY <1>2, <1>5, <1>7, <1>9

\* They stay in the order of the queue.
LEMMA RowsStayInOrder ==
  ASSUME ScreenIInv, OtherRequest
  PROVE  RowsFollowTheQueue'
<1> DEFINE q == feeder_park_queue
<1>1. OrderKept(q, q')
  BY NextServesInOrder DEF ScreenIInv, OtherRequest
<1>2. kept' = {i \in kept : rows[i].badge_number \notin Departed} /\ rows' = rows
  BY DEF OtherRequest
<1>3. \A i \in kept : rows[i].badge_number \in ToSet(q)
  BY DEF ScreenIInv, PositionIsABound, ToSet
<1>4. \A i \in kept' : rows[i].badge_number \in ToSet(q) \cap ToSet(q')
  BY <1>2, <1>3 DEF Departed
<1>5. ASSUME NEW i \in kept', NEW j \in kept', i < j
      PROVE  Before(q', rows[i].badge_number, rows[j].badge_number)
  BY <1>1, <1>2, <1>4, <1>5 DEF ScreenIInv, RowsFollowTheQueue, OrderKept
<1> QED
  BY <1>2, <1>5 DEF RowsFollowTheQueue, Before

\* Whoever a step puts behind the walk without a row stood just in front of it,
\* and a driver in front of them left.
LEMMA OnePassedOverPerDeparture ==
  ASSUME ScreenIInv, OtherRequest, NEW b \in PassedOver', b \notin PassedOver
  PROVE  /\ index + 1 \in DOMAIN feeder_park_queue
         /\ b = feeder_park_queue[index + 1]
         /\ \E d \in Badges : Departed = {d}
<1> DEFINE q == feeder_park_queue
<1>1. PICK k \in 1..Len(q) + 1 :
        /\ MovesUp(q, q', k)
        /\ Departed = IF k <= Len(q) THEN {q[k]} ELSE {}
  BY NobodyFallsBack DEF ScreenIInv, OtherRequest
<1>2. q \in Seq(Badges) /\ q' \in Seq(Badges) /\ IsInjective(q') /\ index \in Nat
  BY NextKeepsIInv
  DEF ScreenIInv, OtherRequest, IInv, TypeOK, QueueHoldsTheWaiting, ScreenTypeOK
<1>3. /\ waited' = waited \ Departed
      /\ UNCHANGED <<index, rows>>
  BY DEF OtherRequest
<1>4. /\ b \in waited /\ b \notin Departed
      /\ b \notin {rows[i].badge_number : i \in DOMAIN rows}
      /\ \E p \in 1..Len(q') : p <= index /\ q'[p] = b
  BY <1>2, <1>3 DEF PassedOver
<1>5. PICK p \in 1..Len(q) : q[p] = b
  BY <1>2, <1>4 DEF ScreenIInv, OmissionsAreCounted, ToSet
<1>6. p # k
  BY <1>1, <1>4, <1>5
<1> DEFINE p1 == IF p < k THEN p ELSE p - 1
<1>7. p1 \in 1..Len(q') /\ q'[p1] = b
  BY <1>1, <1>5, <1>6 DEF MovesUp
<1>8. p1 <= index
  BY <1>2, <1>4, <1>7 DEF IsInjective
<1>9. ~(p <= index)
  BY <1>2, <1>4, <1>5 DEF PassedOver
<1>10. p = index + 1 /\ k < p
  BY <1>2, <1>6, <1>8, <1>9
<1>11. Departed = {q[k]} /\ q[k] \in Badges
  BY <1>1, <1>2, <1>10
<1> QED
  BY <1>2, <1>5, <1>10, <1>11

\* So the count of departures grows with the drivers passed over; once it counts
\* as many as there are badges it need not grow any further.
LEMMA OmissionsStayCounted ==
  ASSUME ScreenIInv, OtherRequest
  PROVE  OmissionsAreCounted'
<1> DEFINE q == feeder_park_queue
           next == q[index + 1]
<1>1. /\ waited' = waited \ Departed
      /\ departures' = IF stage = "reading" /\ departures < Cardinality(Badges)
                       THEN departures + Cardinality(Departed) ELSE departures
      /\ UNCHANGED <<stage, index, rows>>
  BY DEF OtherRequest
<1>2. waited' \subseteq ToSet(q')
  BY <1>1 DEF ScreenIInv, OmissionsAreCounted, Departed
<1>3. SUFFICES ASSUME stage = "reading" PROVE Cardinality(PassedOver') <= departures'
  BY <1>1, <1>2 DEF OmissionsAreCounted
<1>4. /\ Cardinality(PassedOver) <= departures
      /\ departures \in Nat
      /\ waited \subseteq Badges
  BY <1>3 DEF ScreenIInv, OmissionsAreCounted, ScreenTypeOK
<1>5. /\ IsFiniteSet(Badges)
      /\ PassedOver \subseteq Badges
      /\ PassedOver' \subseteq Badges
  BY <1>1, <1>4, RankAssumption DEF PassedOver
<1>6. /\ IsFiniteSet(PassedOver)
      /\ IsFiniteSet(PassedOver')
      /\ Cardinality(PassedOver) \in Nat
      /\ Cardinality(PassedOver') \in Nat
      /\ Cardinality(Badges) \in Nat
      /\ Cardinality(PassedOver') <= Cardinality(Badges)
  BY <1>5, FS_Subset, FS_CardinalityType
<1>7. Departed = {} \/ \E d \in Badges : Departed = {d}
  <2>1. PICK k \in 1..Len(q) + 1 :
          Departed = IF k <= Len(q) THEN {q[k]} ELSE {}
    BY NobodyFallsBack DEF ScreenIInv, OtherRequest
  <2>2. q \in Seq(Badges)
    BY DEF ScreenIInv, IInv, TypeOK
  <2> QED
    BY <2>1, <2>2
<1>8. Cardinality(Departed) \in Nat
  <2>1. Departed = {} => Cardinality(Departed) = 0
    BY FS_EmptySet
  <2>2. (\E d \in Badges : Departed = {d}) => Cardinality(Departed) = 1
    BY FS_Singleton
  <2> QED
    BY <1>7, <2>1, <2>2
<1>9. CASE ~(departures < Cardinality(Badges))
  <2>1. departures' = departures
    BY <1>1, <1>9
  <2> QED
    BY <1>4, <1>6, <1>9, <2>1
<1>10. CASE departures < Cardinality(Badges)
  <2>1. departures' = departures + Cardinality(Departed)
    BY <1>1, <1>3, <1>10
  <2>2. CASE PassedOver' \subseteq PassedOver
    <3>1. Cardinality(PassedOver') <= Cardinality(PassedOver)
      BY <1>6, <2>2, FS_Subset
    <3> QED
      BY <1>4, <1>6, <1>8, <2>1, <3>1
  <2>3. CASE ~(PassedOver' \subseteq PassedOver)
    <3>1. \E d \in Badges : Departed = {d}
      BY <2>3, OnePassedOverPerDeparture
    <3>2. Cardinality(Departed) = 1
      BY <3>1, FS_Singleton
    <3>3. PassedOver' \subseteq PassedOver \cup {next}
      BY OnePassedOverPerDeparture
    <3>4. /\ IsFiniteSet(PassedOver \cup {next})
          /\ Cardinality(PassedOver \cup {next}) =
               IF next \in PassedOver THEN Cardinality(PassedOver)
                                      ELSE Cardinality(PassedOver) + 1
      BY <1>6, FS_AddElement
    <3>5. Cardinality(PassedOver') <= Cardinality(PassedOver \cup {next})
      BY <3>3, <3>4, FS_Subset
    <3> QED
      BY <1>4, <1>6, <2>1, <3>2, <3>4, <3>5
  <2> QED
    BY <2>2, <2>3
<1> QED
  BY <1>9, <1>10

\* Whatever the other requests do between two rows.
LEMMA OtherRequestKeeps ==
  ASSUME ScreenIInv, OtherRequest
  PROVE  ScreenIInv'
<1>1. /\ Next
      /\ kept' \subseteq kept
      /\ waited' \subseteq waited
      /\ UNCHANGED <<stage, interval, index, rows>>
  BY DEF OtherRequest
<1>2. IInv'
  BY <1>1, NextKeepsIInv DEF ScreenIInv
<1>3. departures' \in Nat
  <2>1. Departed \subseteq Badges /\ IsFiniteSet(Badges)
    BY RankAssumption DEF Departed, ScreenIInv, IInv, TypeOK, ToSet
  <2>2. Cardinality(Departed) \in Nat
    BY <2>1, FS_Subset, FS_CardinalityType
  <2> QED
    BY <2>2 DEF OtherRequest, ScreenIInv, ScreenTypeOK
<1>4. ScreenTypeOK' /\ CallsArePast'
  BY <1>1, <1>3, CallsStayPast DEF ScreenIInv, ScreenTypeOK
<1>5. RowsInOrder' /\ DueSoonComeFirst'
  BY <1>1 DEF ScreenIInv, RowsInOrder, DueSoonComeFirst
<1>6. RowsAreRead'
  BY <1>1 DEF ScreenIInv, RowsAreRead, DueSoon, RowInterval
<1> QED
  BY <1>2, <1>4, <1>5, <1>6, PositionsStayBounds, RowsStayInOrder,
     OmissionsStayCounted DEF ScreenIInv

\* The invariant of the reading, step by step.
THEOREM ScreenInvariance == ScreenSpec => []ScreenIInv
<1>1. ScreenInit => ScreenIInv
  BY InitScreenIInv
<1>2. ScreenIInv /\ [ScreenNext]_screenVars => ScreenIInv'
  <2>1. ScreenIInv /\ UNCHANGED screenVars => ScreenIInv'
    <3> SUFFICES ASSUME ScreenIInv, UNCHANGED screenVars PROVE ScreenIInv'
      OBVIOUS
    <3>1. UNCHANGED vars /\ UNCHANGED <<calls, stage, interval, index, rows,
                                        kept, waited, departures>>
      BY DEF screenVars, history
    <3>2. IInv'
      BY <3>1, NextKeepsIInv DEF ScreenIInv
    <3> QED
      BY <3>1, <3>2 DEF vars, site, ScreenIInv, ScreenTypeOK, CallsArePast,
         PositionIsABound, RowsFollowTheQueue, Before, RowsInOrder, RowsAreRead,
         DueSoon, RowInterval, DueSoonComeFirst, OmissionsAreCounted, PassedOver
  <2> QED
    BY <2>1, StartReadingKeeps, ReadRowKeeps, ShowScreenKeeps, OtherRequestKeeps
    DEF ScreenNext
<1> QED
  BY <1>1, <1>2, PTL DEF ScreenSpec

----------------------------------------------------------------------------
(***************************************************************************)
(* What the screen promises.                                               *)
(***************************************************************************)

\* The reader's state has its types, and the interval never divides by zero.
THEOREM ScreenTypeCorrect == ScreenSpec => []ScreenTypeOK
<1>1. ScreenIInv => ScreenTypeOK
  BY DEF ScreenIInv
<1> QED
  BY <1>1, ScreenInvariance, PTL

\* However the calls fell, the interval is the default or within its bounds.
THEOREM IntervalIsReasonable == ScreenSpec => []IntervalWithinReason
<1>1. ScreenIInv => IntervalWithinReason
  BY CallIntervalProperties DEF ScreenIInv, ScreenTypeOK, IInv, TypeOK
<1> QED
  BY <1>1, ScreenInvariance, PTL

\* Nobody who stays is ever further back than the screen says.
THEOREM PositionsAreBounds == ScreenSpec => []PositionIsABound
<1>1. ScreenIInv => PositionIsABound
  BY DEF ScreenIInv
<1> QED
  BY <1>1, ScreenInvariance, PTL

\* The rows of those who stay are in the order of the queue, none twice.
THEOREM RowsAreInOrder == ScreenSpec => []RowsFollowTheQueue
<1>1. ScreenIInv => RowsFollowTheQueue
  BY DEF ScreenIInv
<1> QED
  BY <1>1, ScreenInvariance, PTL

\* Nobody shown behind another is told to get ready before them.
THEOREM DueSoonIsInOrder == ScreenSpec => []DueSoonComeFirst
<1>1. ScreenIInv => DueSoonComeFirst
  BY DEF ScreenIInv
<1> QED
  BY <1>1, ScreenInvariance, PTL

\* The screen omits no more drivers who waited than left while it was read.
THEOREM OmissionsAreBounded == ScreenSpec => []OmissionsHaveDepartures
<1>1. ScreenIInv => OmissionsHaveDepartures
  <2> SUFFICES ASSUME ScreenIInv, stage = "reading",
                      index >= Len(feeder_park_queue)
               PROVE  Cardinality(waited \ {rows[i].badge_number : i \in DOMAIN rows})
                        <= departures
    BY DEF OmissionsHaveDepartures
  <2> DEFINE missed == waited \ {rows[i].badge_number : i \in DOMAIN rows}
  <2>1. feeder_park_queue \in Seq(Badges) /\ index \in Nat
    BY DEF ScreenIInv, IInv, TypeOK, ScreenTypeOK
  <2>2. \A b \in waited : \E p \in DOMAIN feeder_park_queue :
          p <= index /\ feeder_park_queue[p] = b
    BY <2>1 DEF ScreenIInv, OmissionsAreCounted, ToSet
  <2>3. missed = PassedOver
    BY <2>2 DEF PassedOver
  <2> QED
    BY <2>3 DEF ScreenIInv, OmissionsAreCounted
<1> QED
  BY <1>1, ScreenInvariance, PTL
=============================================================================
