---------------------------- MODULE FeederScreen ----------------------------
(***************************************************************************)
(* The feeder park screen (routers/screens.py), the rows it shows          *)
(* (queue_service.feeder_park_snapshot) and the call interval they are     *)
(* computed from (services/throughput.py).                                 *)
(*                                                                         *)
(* The screen is built without the lock: the interval is read once, then   *)
(* the list store.feeder_park_queue is walked by index while requests on   *)
(* other threads append to it and remove from it.  Each row is a step; any *)
(* operation of TaxiRank may come between two.                             *)
(*                                                                         *)
(* Intervals and waits are fractions of ticks: their rounding for display  *)
(* is left out.                                                            *)
(***************************************************************************)
EXTENDS TaxiRank

CONSTANTS
  Window,          \* THROUGHPUT_WINDOW_MINUTES
  MinEvents,       \* MIN_EVENTS_FOR_ESTIMATE
  DefaultInterval, \* DEFAULT_CALL_INTERVAL_MINUTES
  MinInterval,     \* MIN_CALL_INTERVAL_MINUTES
  Lookahead,       \* SCREEN_LOOKAHEAD_MINUTES
  MaxCalls         \* bound on the taxis called

ASSUME ScreenAssumption ==
  /\ {Window, DefaultInterval, MinInterval, Lookahead, MaxCalls} \subseteq Nat
  /\ MinEvents \in Nat \ {0, 1}
  /\ 0 < MinInterval /\ MinInterval * (MinEvents - 1) <= Window

VARIABLES
  calls,     \* store.dispatch_events: the time of each
  stage,     \* "idle", "reading" the rows, or "shown"
  interval,  \* the call interval the rows use, then the one shown with them
  index,     \* how far the queue has been walked
  rows,      \* the rows so far
  kept,      \* history: the rows whose drivers are in the queue ever since
  waited,    \* history: the drivers in the queue since the reading began
  departures \* history: how many have left the queue since then, capped

history == <<kept, waited, departures>>
screenVars == <<vars, calls, stage, interval, index, rows, history>>

FeederParkRow == [badge_number : Badges, position : Nat, due_soon : BOOLEAN]

ScreenInit ==
  /\ Init
  /\ calls = << >>
  /\ stage = "idle" /\ interval = [span |-> DefaultInterval, gaps |-> 1]
  /\ index = 0 /\ rows = << >>
  /\ kept = {} /\ waited = {} /\ departures = 0

----------------------------------------------------------------------------
(***************************************************************************)
(* The call interval.                                                      *)
(***************************************************************************)

\* Faulty variant: the history is never cut off.
Bug_AllCalls == DOMAIN calls

\* The calls since window_start.
Recent == {i \in DOMAIN calls : calls[i] >= now - Window}

Timestamps == {calls[i] : i \in Recent}

\* Faulty variant: the calls beyond the trusted number are counted, perhaps none.
Bug_BeyondTrusted == Cardinality(Recent) - MinEvents

Gaps == Cardinality(Recent) - 1

\* span / gaps is the mean time between two of the recent calls.
Measured == [span |-> Max(Timestamps) - Min(Timestamps), gaps |-> Gaps]

CallInterval ==
  IF Cardinality(Recent) < MinEvents \/ Measured.span <= 0
  THEN [span |-> DefaultInterval, gaps |-> 1]
  ELSE IF Measured.span < MinInterval * Measured.gaps
  THEN [span |-> MinInterval, gaps |-> 1]
  ELSE Measured

----------------------------------------------------------------------------
(***************************************************************************)
(* Reading the screen.                                                     *)
(***************************************************************************)

StartReading ==
  /\ stage # "reading"
  /\ stage' = "reading"
  /\ interval' = CallInterval
  /\ index' = 0 /\ rows' = << >>
  /\ kept' = {} /\ waited' = ToSet(feeder_park_queue) /\ departures' = 0
  /\ UNCHANGED <<vars, calls>>

\* Faulty variant: the interval is computed again for each row.
Bug_FreshInterval == CallInterval

RowInterval == interval

DueSoon(position) ==
  position * RowInterval.span <= Lookahead * RowInterval.gaps

Row(b, position) ==
  [badge_number |-> b, position |-> position, due_soon |-> DueSoon(position)]

\* Faulty variant: the walk takes the entry after the one it is at.
Bug_NextIndex == index + 2

NextIndex == index + 1

ReadRow ==
  /\ stage = "reading"
  /\ index < Len(feeder_park_queue)
  /\ LET b == feeder_park_queue[index + 1]
     IN  IF b \in Registered
         THEN /\ rows' = Append(rows, Row(b, index + 1))
              /\ kept' = kept \cup {Len(rows')}
         ELSE UNCHANGED <<rows, kept>>
  /\ index' = NextIndex
  /\ UNCHANGED <<vars, calls, stage, interval, waited, departures>>

\* The walk ends where the list ends at that moment.  The interval shown beside
\* the rows is not the one they were computed from: it is computed once more.
ShowScreen ==
  /\ stage = "reading"
  /\ index >= Len(feeder_park_queue)
  /\ stage' = "shown"
  /\ interval' = CallInterval
  /\ index' = 0 /\ waited' = {} /\ departures' = 0
  /\ UNCHANGED <<vars, calls, rows, kept>>

----------------------------------------------------------------------------
(***************************************************************************)
(* The other requests.                                                     *)
(***************************************************************************)

Called ==
  \E b \in Badges : taxis[b].status = "in_feeder_park" /\ taxis'[b].status = "called"

Departed == ToSet(feeder_park_queue) \ ToSet(feeder_park_queue')

OtherRequest ==
  /\ Next
  /\ calls' = IF Called THEN Append(calls, now) ELSE calls
  /\ Len(calls') <= MaxCalls
  /\ kept' = {i \in kept : rows[i].badge_number \notin Departed}
  /\ waited' = waited \ Departed
  /\ departures' = IF stage = "reading" /\ departures < Cardinality(Badges)
                   THEN departures + Cardinality(Departed) ELSE departures
  /\ UNCHANGED <<stage, interval, index, rows>>

ScreenNext == StartReading \/ ReadRow \/ ShowScreen \/ OtherRequest

ScreenSpec == ScreenInit /\ [][ScreenNext]_screenVars

----------------------------------------------------------------------------
\* The reader's state has its types; the divisor of the call interval is never 0.
ScreenTypeOK ==
  /\ calls \in Seq(Nat)
  /\ stage \in {"idle", "reading", "shown"}
  /\ interval \in [span : Nat, gaps : Nat \ {0}]
  /\ index \in Nat
  /\ rows \in Seq(FeederParkRow)
  /\ kept \subseteq DOMAIN rows
  /\ waited \subseteq Badges
  /\ departures \in Nat

\* However the history of calls runs, the interval is the default, or lies between
\* the least one and the window shared among the fewest gaps that are trusted:
\* calls at one instant do not make it zero, nor old ones make it long.
IntervalWithinReason ==
  \/ CallInterval = [span |-> DefaultInterval, gaps |-> 1]
  \/ /\ CallInterval.span >= MinInterval * CallInterval.gaps
     /\ CallInterval.span * (MinEvents - 1) <= Window * CallInterval.gaps

\* A driver who stays in the queue after the row was read is never further back
\* than the row says, during the reading and for as long as the screen is up.
PositionIsABound ==
  \A i \in kept : \E p \in DOMAIN feeder_park_queue :
    feeder_park_queue[p] = rows[i].badge_number /\ p <= rows[i].position

\* Although the queue moves under the walk, the rows of drivers who stayed are in
\* the order of the queue, none of them twice.
RowsFollowTheQueue ==
  \A i, j \in kept : i < j =>
    Before(feeder_park_queue, rows[i].badge_number, rows[j].badge_number)

\* The walk may pass over a driver who waits all along, because those behind a
\* driver who leaves move up; but it passes over no more than have left meanwhile:
\* if nobody leaves, everybody is shown.
OmissionsHaveDepartures ==
  stage = "reading" /\ index >= Len(feeder_park_queue) =>
    Cardinality(waited \ {rows[i].badge_number : i \in DOMAIN rows}) <= departures

\* The drivers due soon are the first rows: nobody is told to get ready before
\* somebody shown in front, whatever is called while the rows are read.
DueSoonComeFirst ==
  \A i, j \in DOMAIN rows : i < j /\ rows[j].due_soon => rows[i].due_soon
=============================================================================
