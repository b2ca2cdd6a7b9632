--------------------------- MODULE SimulationDay ---------------------------
(***************************************************************************)
(* The load simulation (simulation/engine.py): one thread drives the       *)
(* service layer through a day, minute by minute, without requests.        *)
(*                                                                         *)
(* Each minute has the phases of run_simulation's loop, in its order:      *)
(* "starts" (shifts), "demand" (passengers), "fares" (those that end),     *)
(* "sweep" and "retries" (pending returns), "ends" (shifts).  A phase      *)
(* takes one step per operation it calls.  What the program draws at       *)
(* random is chosen: shifts, flights and their passengers, destinations,   *)
(* the minutes of a trip, whether a driver comes back (the probability is  *)
(* never 0 or 1), the order of terminals to try.  DriverProfile.finished,  *)
(* which nothing reads, is left out, and so are the counters only printed. *)
(*                                                                         *)
(* A simulated minute is SimMinute units of TaxiRank's time: trips last    *)
(* half minutes, and the simulation rounds their ends to whole ones.       *)
(***************************************************************************)
EXTENDS TaxiRank

CONSTANTS
  SimMinute,   \* the units of time in a simulated minute: an even number
               \* represents the half minutes of trips exactly
  DayMinutes,  \* day_minutes: flights land and shifts run in these
  BufferMinutes, \* buffer_minutes, in which drivers finish their trips
  MaxDemand,   \* bound on the passengers of the day
  ReadyDelays, \* passenger_ready_delay_minutes
  StandardLegs,\* standard_one_way_minutes, in units of time
  DefaultLeg,  \* the way back from a destination without an estimate
  Jitters,     \* return_leg_jitter, in parts of JitterBase
  JitterBase,
  ShiftStarts, \* the minutes at which shifts start
  ShiftLengths,\* their length
  MinShift,    \* the least minutes of a shift, whenever it starts
  MaxRetries,  \* MAX_RETURN_RETRIES
  RetryDelay   \* RETRY_DELAY_MINUTES

ASSUME SimulationAssumption ==
  /\ SimMinute \in Nat \ {0}
  /\ DayMinutes \in Nat \ {0} /\ BufferMinutes \in Nat
  /\ StandardLegs \subseteq Nat /\ DefaultLeg \in Nat
  /\ Jitters \subseteq Nat /\ JitterBase \in Nat \ {0}
  /\ ShiftStarts \subseteq 0..(DayMinutes - 1)
  /\ ShiftLengths \subseteq Nat /\ MinShift \in Nat
  /\ {MaxRetries, RetryDelay} \subseteq Nat

VARIABLES
  minute, phase,
  shift_start, shift_end, \* of each driver
  demand,           \* the passengers so far
  serving,          \* the taxi a passenger of this minute is about to take
  ending,           \* the taxi whose fare has just ended, and that fare
  returning,        \* the minutes until it is back and the terminals it found full
  fare_complete,    \* fare_complete_buckets: a taxi's fare and when it ends
  promote_checks,   \* promote_checks: how often a taxi is in a minute's bucket
  retry_counts,
  terminal_waiting,
  stats,            \* the counters of SimulationStats that the tests relate
  counted_out       \* history: the drivers counted in not_returned since they
                    \* last ended a fare

day == <<shift_start, shift_end>>
jobs == <<serving, ending, returning>>
buckets == <<fare_complete, promote_checks, retry_counts, terminal_waiting>>
counts == <<stats, counted_out>>
simVars == <<vars, minute, phase, day, demand, jobs, buckets, counts>>

\* A destination drawn, and what the loop remembers of a fare under way, of one
\* that has ended, and of a driver who comes back.
SimulatedFare ==
  [classification : FareClassification, round_trip_minutes : Nat \cup {None}]
FiledFare == [minute : Nat, fare : SimulatedFare]
EndedFare == [badge : Badges, fare : SimulatedFare]
Returning == [eta : Nat, full : SUBSET Terminals]

ASSUME RecordAssumption == None \notin FiledFare \cup EndedFare \cup Returning

LastMinute == DayMinutes + BufferMinutes - 1
Minutes == 0..LastMinute
Bucket(m) == IF m < LastMinute THEN m ELSE LastMinute

\* round() of a time in units to a minute: of two as near, the even one.
Rounded(units) ==
  LET below == units \div SimMinute
      twice_over == 2 * (units % SimMinute)
  IN  IF \/ twice_over > SimMinute
         \/ twice_over = SimMinute /\ below % 2 = 1
      THEN below + 1
      ELSE below

NoStats == [fares |-> 0, exempt_fares |-> 0, completed |-> 0,
            returned |-> 0, not_returned |-> 0]
Counted(counter) == stats' = [stats EXCEPT ![counter] = @ + 1]
NotReturned(b) == Counted("not_returned") /\ counted_out' = counted_out \cup {b}

Larger(m, n) == IF m > n THEN m ELSE n

\* A shift is cut off in the last minute of the day, but not below the least
\* length, so one that starts late ends in the buffer.
ShiftEndMinute(start, length) ==
  Larger(IF start + length < DayMinutes THEN start + length ELSE DayMinutes - 1,
         start + MinShift)

Shifts ==
  /\ shift_start \in [Badges -> ShiftStarts]
  /\ \E length \in [Badges -> ShiftLengths] :
       shift_end = [b \in Badges |-> ShiftEndMinute(shift_start[b], length[b])]

SimInit ==
  /\ taxis = [b \in Badges |-> NewTaxi]
  /\ registered \in SetToSeqs(Badges)
  /\ terminals = [t \in Terminals |-> DefaultCapacity]
  /\ rank_agents = Agents
  /\ feeder_park_queue = << >>
  /\ fares = [f \in FareIds |-> None]
  /\ notifications = [b \in Badges |-> None]
  /\ dispatch_events = 0
  /\ traffic_level = "normal"
  /\ now = 0
  /\ minute = 0 /\ phase = "starts"
  /\ Shifts
  /\ demand = 0
  /\ serving = None /\ ending = None /\ returning = None
  /\ fare_complete = [b \in Badges |-> None]
  /\ promote_checks = [m \in Minutes |-> [b \in Badges |-> 0]]
  /\ retry_counts = [b \in Badges |-> 0]
  /\ terminal_waiting = [t \in Terminals |-> << >>]
  /\ stats = NoStats
  /\ counted_out = {}

----------------------------------------------------------------------------
(***************************************************************************)
(* Shifts.                                                                 *)
(***************************************************************************)

StartsNow(b) == Bucket(shift_start[b]) = minute /\ taxis[b].status = "offline"

ShiftStart(b) ==
  /\ phase = "starts"
  /\ StartsNow(b)
  /\ JoinFeederPark(b)
  /\ UNCHANGED <<minute, phase, day, demand, jobs, buckets, counts>>

EndsNow(b) == Bucket(shift_end[b]) = minute /\ taxis[b].status = "in_feeder_park"

ShiftEnd(b) ==
  /\ phase = "ends"
  /\ EndsNow(b)
  /\ LeaveFeederPark(b)
  /\ UNCHANGED <<minute, phase, day, demand, jobs, buckets, counts>>

----------------------------------------------------------------------------
(***************************************************************************)
(* Passengers: the taxi that has waited longest at the terminal, or one    *)
(* called from the feeder park, takes the passenger at once.               *)
(***************************************************************************)

TakeWaiting(t) ==
  /\ terminal_waiting[t] # << >>
  /\ serving' = Head(terminal_waiting[t])
  /\ terminal_waiting' = [terminal_waiting EXCEPT ![t] = Tail(@)]
  /\ UNCHANGED vars

TakeFromPark(t) ==
  /\ terminal_waiting[t] = << >>
  /\ CallNextTaxi(t)
  /\ serving' = Head(feeder_park_queue)
  /\ UNCHANGED terminal_waiting

\* Nobody is in the feeder park: the demand is unmet.
NoTaxi(t) ==
  /\ terminal_waiting[t] = << >>
  /\ feeder_park_queue = << >>
  /\ UNCHANGED <<vars, serving, terminal_waiting>>

\* Flights land in any minute of the day; their passengers are at the rank
\* after a delay, in the buffer perhaps.
PassengersReady ==
  \E landed \in 0..(DayMinutes - 1), delay \in ReadyDelays :
    Bucket(landed + delay) = minute

Passenger(t) ==
  /\ phase = "demand"
  /\ serving = None
  /\ PassengersReady
  /\ demand < MaxDemand
  /\ demand' = demand + 1
  /\ TakeWaiting(t) \/ TakeFromPark(t) \/ NoTaxi(t)
  /\ UNCHANGED <<minute, phase, day, ending, returning,
                 fare_complete, promote_checks, retry_counts, counts>>

\* Faulty variant: a trip that outlasts the day is filed after its last minute.
Bug_PastTheDay(leg) == minute + Larger(1, Rounded(leg))

CompleteMinute(leg) == Bucket(minute + Larger(1, Rounded(leg)))

\* The simulation looks a destination of its own up by its exact key; the rest
\* of its destinations are standard.
PickFare(text) ==
  IF ExactMatches(text) = {}
  THEN Classified("standard", None)
  ELSE LET info == KnownDestinations[CHOOSE i \in ExactMatches(text) : TRUE]
       IN  Classified(info.classification, info.round_trip_minutes)

\* How long it takes to the destination.
OneWayMinutes(fare) ==
  IF fare.round_trip_minutes = None THEN StandardLegs
                                    ELSE {fare.round_trip_minutes \div 2}

\* record_fare, whose ConflictError nothing catches.
Depart(text, leg) ==
  /\ phase = "demand"
  /\ serving # None
  /\ IF WaitingAtRank(serving)
     THEN /\ \E a \in Agents : RecordFare(serving, a, text, None, None)
          /\ stats' = [stats EXCEPT !.fares = @ + 1,
               !.exempt_fares =
                 IF PickFare(text).classification = "standard" THEN @ ELSE @ + 1]
          /\ fare_complete' = [fare_complete EXCEPT ![serving] =
               [minute |-> CompleteMinute(leg), fare |-> PickFare(text)]]
          /\ UNCHANGED phase
     ELSE /\ phase' = "raised"
          /\ UNCHANGED <<vars, stats, fare_complete>>
  /\ serving' = None
  /\ UNCHANGED <<minute, day, demand, ending, returning,
                 promote_checks, retry_counts, terminal_waiting, counted_out>>

----------------------------------------------------------------------------
(***************************************************************************)
(* The end of a fare.                                                      *)
(***************************************************************************)

EndsThisMinute(b) ==
  fare_complete[b] # None /\ fare_complete[b].minute = minute

FareEnds(b) ==
  /\ phase = "fares"
  /\ ending = None
  /\ EndsThisMinute(b)
  /\ CompleteFare(b)
  /\ Counted("completed")
  /\ counted_out' = counted_out \ {b}
  /\ ending' = [badge |-> b, fare |-> fare_complete[b].fare]
  /\ fare_complete' = [fare_complete EXCEPT ![b] = None]
  /\ UNCHANGED <<minute, phase, day, demand, serving, returning,
                 promote_checks, retry_counts, terminal_waiting>>

\* Faulty variant: the shift's end is left to the bucket it is filed in.
Bug_LeftToTheBucket(b) == FALSE

ShiftIsOver(b) == minute >= shift_end[b]

\* After a standard fare: leave the park again if the shift is over.
BackInPark ==
  /\ taxis[ending.badge].status = "in_feeder_park"
  /\ IF ShiftIsOver(ending.badge)
     THEN LeaveFeederPark(ending.badge)
     ELSE UNCHANGED vars
  /\ ending' = None
  /\ UNCHANGED <<returning, counts>>

\* The shift is over, or the driver is drawn not to come back.
NotReturning ==
  /\ taxis[ending.badge].status = "return_exempt"
  /\ returning = None
  /\ NotReturned(ending.badge)
  /\ ending' = None
  /\ UNCHANGED <<vars, returning>>

\* How long the way back takes.
ReturnLegMinutes(fare) ==
  LET base == IF fare.round_trip_minutes = None THEN DefaultLeg
                                                ELSE fare.round_trip_minutes \div 2
  IN  {(base * jitter) \div JitterBase : jitter \in Jitters}

ComesBack ==
  /\ taxis[ending.badge].status = "return_exempt"
  /\ returning = None
  /\ ~ShiftIsOver(ending.badge)
  /\ \E eta \in ReturnLegMinutes(ending.fare) :
       returning' = [eta |-> eta, full |-> {}]
  /\ UNCHANGED <<vars, ending, counts>>

AfterFare ==
  /\ phase = "fares"
  /\ ending # None
  /\ BackInPark \/ NotReturning \/ ComesBack
  /\ UNCHANGED <<minute, phase, day, demand, serving, buckets>>

\* The minute in which the return is checked.
DueMinute(eta) ==
  LET due == Rounded(now + eta - Lead)
  IN  Bucket(Larger(due, minute))

PickTerminal(t) ==
  /\ phase = "fares"
  /\ returning # None
  /\ HasRoom(t)
  /\ ReturnToTerminal(ending.badge, t, returning.eta)
  /\ Counted("returned")
  /\ IF returning.eta <= Lead
     THEN /\ terminal_waiting' = [terminal_waiting EXCEPT ![t] = Append(@, ending.badge)]
          /\ UNCHANGED promote_checks
     ELSE /\ promote_checks' = [promote_checks EXCEPT
                                  ![DueMinute(returning.eta)][ending.badge] = @ + 1]
          /\ UNCHANGED terminal_waiting
  /\ ending' = None /\ returning' = None
  /\ UNCHANGED <<minute, phase, day, demand, serving,
                 fare_complete, retry_counts, counted_out>>

\* Terminals are tried in a random order, each once.
TerminalFull(t) ==
  /\ phase = "fares"
  /\ returning # None
  /\ t \notin returning.full
  /\ ~HasRoom(t)
  /\ returning' = [returning EXCEPT !.full = @ \cup {t}]
  /\ UNCHANGED <<vars, minute, phase, day, demand, serving, ending,
                 buckets, counts>>

AllTerminalsFull ==
  /\ phase = "fares"
  /\ returning # None
  /\ returning.full = Terminals
  /\ NotReturned(ending.badge)
  /\ ending' = None /\ returning' = None
  /\ UNCHANGED <<vars, minute, phase, day, demand, serving, buckets>>

----------------------------------------------------------------------------
(***************************************************************************)
(* Pending returns.                                                        *)
(***************************************************************************)

Checked(b) == promote_checks[minute][b] > 0
Pending(b) ==
  taxis[b].status = "return_exempt" /\ taxis[b].pending_return_terminal_id # None

\* Faulty variants: only this minute's taxis are looked at; all are queued.
Bug_OnlyTheChecked(b) == Checked(b) /\ Pending(b) /\ taxis'[b].status = "called"
Bug_AllPending(b) == Pending(b)

\* Any pending taxi, not only those due this minute, may have been added.
NewlySeated(b) == Pending(b) /\ taxis'[b].status = "called"

\* Some of the taxis, in the order in which store.taxis yields them.
InRegistrationOrder(S) ==
  CHOOSE s \in SetToSeqs(S) :
    \A i, j \in DOMAIN s : i < j => RegisteredBefore(s[i], s[j])

SeatedAt(t) == {b \in Badges : NewlySeated(b) /\ taxis[b].pending_return_terminal_id = t}

SweepReturns ==
  /\ phase = "sweep"
  /\ \E b \in Badges : Checked(b)
  /\ PromoteDueReturns
  /\ terminal_waiting' = [t \in Terminals |->
                            terminal_waiting[t] \o InRegistrationOrder(SeatedAt(t))]
  /\ phase' = "retries"
  /\ UNCHANGED <<minute, day, demand, jobs,
                 fare_complete, promote_checks, retry_counts, counts>>

\* Faulty variant: the attempts are not counted.
Bug_Uncounted(b) == retry_counts

CountRetry(b) == [retry_counts EXCEPT ![b] = @ + 1]

\* Faulty variant: giving up is not counted.
Bug_GivesUpSilently(b) == UNCHANGED counts

GiveUp(b) == NotReturned(b)

\* The bucket grows while the loop goes through it if the delay ends in this
\* minute, as it does in the last one.
Retry(b) ==
  /\ phase = "retries"
  /\ Checked(b)
  /\ LET visited == [promote_checks EXCEPT ![minute][b] = @ - 1]
     IN  IF Pending(b) /\ retry_counts[b] < MaxRetries
         THEN /\ retry_counts' = CountRetry(b)
              /\ promote_checks' =
                   [visited EXCEPT ![Bucket(minute + RetryDelay)][b] = @ + 1]
              /\ UNCHANGED counts
         ELSE /\ promote_checks' = visited
              /\ UNCHANGED retry_counts
              /\ IF Pending(b)
                 THEN GiveUp(b)
                 ELSE UNCHANGED counts
  /\ UNCHANGED <<vars, minute, phase, day, demand, jobs, fare_complete,
                 terminal_waiting>>

----------------------------------------------------------------------------
(***************************************************************************)
(* The loop over the minutes and their phases.                             *)
(***************************************************************************)

PhaseOver ==
  \/ phase = "starts" /\ ~(\E b \in Badges : StartsNow(b)) /\ phase' = "demand"
  \/ phase = "demand" /\ serving = None /\ phase' = "fares"
  \/ /\ phase = "fares"
     /\ ending = None
     /\ ~(\E b \in Badges : EndsThisMinute(b))
     /\ phase' = "sweep"
  \/ phase = "sweep" /\ ~(\E b \in Badges : Checked(b)) /\ phase' = "ends"
  \/ phase = "retries" /\ ~(\E b \in Badges : Checked(b)) /\ phase' = "ends"

NextPhase ==
  /\ PhaseOver
  /\ UNCHANGED <<vars, minute, day, demand, jobs, buckets, counts>>

MinuteOver == phase = "ends" /\ ~(\E b \in Badges : EndsNow(b))

NextMinute ==
  /\ MinuteOver
  /\ minute < LastMinute
  /\ minute' = minute + 1
  /\ now' = now + SimMinute
  /\ phase' = "starts"
  /\ UNCHANGED <<taxis, registered, terminals, rank_agents, feeder_park_queue,
                 fares, notifications, dispatch_events, traffic_level,
                 day, demand, jobs, buckets, counts>>

DayOver ==
  /\ MinuteOver
  /\ minute = LastMinute
  /\ phase' = "done"
  /\ UNCHANGED <<vars, minute, day, demand, jobs, buckets, counts>>

SimNext ==
  \/ \E b \in Badges : ShiftStart(b) \/ FareEnds(b) \/ Retry(b) \/ ShiftEnd(b)
  \/ \E t \in Terminals : Passenger(t) \/ PickTerminal(t) \/ TerminalFull(t)
  \/ \E text \in Texts : \E leg \in OneWayMinutes(PickFare(text)) : Depart(text, leg)
  \/ AfterFare \/ AllTerminalsFull \/ SweepReturns
  \/ NextPhase \/ NextMinute \/ DayOver

\* A program that runs: it takes a step whenever it can.
SimSpec == SimInit /\ [][SimNext]_simVars /\ WF_simVars(SimNext)

----------------------------------------------------------------------------
\* The loop hands a passenger only to a taxi that waits at that terminal, so the
\* ConflictError of record_fare, which nothing catches, never ends the day.
NothingRaised == phase # "raised"

\* The program's own list of the taxis waiting at each terminal is the rank,
\* without repetitions, whichever sweep added them; and all of them are returned
\* drivers: a taxi called from the feeder park never waits (engine.py:16-20).
WaitingIsTheRank ==
  serving = None =>
    \A t \in Terminals :
      /\ IsInjective(terminal_waiting[t])
      /\ ToSet(terminal_waiting[t]) = AtRank(t)
      /\ \A b \in AtRank(t) : taxis[b].self_checked_in

\* In the simulation, unlike under an agent who calls ahead, no rank ever holds
\* more than its capacity when a snapshot is taken
\* (tests/test_simulation.py: test_terminal_occupancy_never_exceeds_capacity).
SnapshotsWithinCapacity ==
  phase = "ends" => \A t \in Terminals : Occupancy(t) <= terminals[t]

\* No taxi is left on a fare when the day is over, however late it departed, and
\* every fare recorded has been completed
\* (test_simulation_leaves_no_taxi_stuck_mid_fare,
\* test_fares_by_classification_matches_completed_total).
FaresAllEnd ==
  phase = "done" => /\ \A b \in Badges : taxis[b].status # "on_fare"
                    /\ stats.fares = stats.completed

\* A driver is in the feeder park when a minute begins only if the shift goes on:
\* however late a fare or a return brings the driver back, and whether the fare's
\* end or the shift's comes first in the minute they share.
OffShiftLeavesThePark ==
  phase \in {"starts", "done"} =>
    \A b \in Badges : taxis[b].status = "in_feeder_park" =>
      phase # "done" /\ shift_end[b] >= minute

\* Each driver who is still exempt when the day is over was counted as one who has
\* not returned after the fare that made the exemption: for having declined to come
\* back, found every terminal full, or given up waiting.  A count made for another
\* driver, or after an earlier fare, does not do.
ExemptAreCounted ==
  phase = "done" =>
    \A b \in Badges : taxis[b].status = "return_exempt" => b \in counted_out

\* The day comes to an end, although a bucket may grow while it is gone through.
DayEnds == <>(phase = "done")

----------------------------------------------------------------------------
(***************************************************************************)
(* What the tests and comments say, and the program does not do.           *)
(***************************************************************************)

\* test_exemption_outcomes_match_exempt_fare_count: "assert outcomes ==
\* exempt_fares".  A driver who picked a terminal and then gave up is counted
\* both as returned and as not returned.
OutcomesMatchExemptFares ==
  phase = "done" => stats.returned + stats.not_returned = stats.exempt_fares
=============================================================================
