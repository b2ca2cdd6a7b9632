------------------------------ MODULE TaxiRank ------------------------------
(***************************************************************************)
(* The service layer over the in-memory store (store.py, services/).       *)
(*                                                                         *)
(* Every operation below takes store.lock for its whole body, so each is   *)
(* one atomic action; an operation that raises NotFoundError or            *)
(* ConflictError changes nothing, so its action is simply not enabled.     *)
(* promote_due_returns is an action like any other: the router runs it     *)
(* before each request, under its own acquisition of the lock, so with     *)
(* several requests in flight it may come between any two operations.      *)
(*                                                                         *)
(* Abstractions.  driver_name, the names of terminals and agents and the   *)
(* agent's own terminal are never read by the services.  Neither are       *)
(* feeder_park_joined_at, called_at and exemption_destination (only        *)
(* displayed), a completed fare, or any notification but the newest; they  *)
(* are left out.  The dispatch history is represented by its length,       *)
(* counted up to MaxDispatches.                                            *)
(***************************************************************************)
EXTENDS FareRules, FiniteSets

CONSTANTS
  Badges,          \* badge numbers
  Terminals,       \* terminal ids
  Agents,          \* rank agent ids
  FareIds,         \* fare ids: bounds the fares in progress at one time
  DefaultTerminals,\* the ids of config.DEFAULT_TERMINALS
  DefaultCapacity, \* DEFAULT_TERMINAL_CAPACITY
  Capacities,      \* the capacities an administrator gives a terminal
  Etas,            \* the minutes to arrival a returning driver enters
  Lead,            \* TERMINAL_ADD_LEAD_MINUTES
  MaxTime,         \* bound on the clock, in ticks
  MaxDispatches    \* bound on the counted length of the dispatch history

ASSUME RankAssumption ==
  /\ None \notin Badges \cup Terminals \cup Agents \cup FareIds
  /\ IsFiniteSet(Badges)
  /\ DefaultTerminals \subseteq Terminals
  /\ DefaultCapacity \in Nat \ {0}
  /\ Capacities \subseteq Nat \ {0}
  /\ Etas \subseteq Nat
  /\ Lead \in Nat
  /\ "normal" \in TrafficLevels
  /\ MaxTime \in Nat
  /\ MaxDispatches \in Nat

VARIABLES
  taxis,             \* store.taxis, the values: a record per badge
  registered,        \* store.taxis, the keys, in insertion order
  terminals,         \* store.terminals: the capacity of each, 0 if there is none
  rank_agents,       \* store.rank_agents, the keys
  feeder_park_queue, \* store.feeder_park_queue
  fares,             \* store.fares: the fares not completed yet
  notifications,     \* store.notifications: the terminal of the newest, per badge
  dispatch_events,   \* store.dispatch_events: how many, up to MaxDispatches
  traffic_level,     \* store.traffic_level
  now                \* clock.now(), in ticks

site == <<terminals, rank_agents, traffic_level, now>>
vars == <<taxis, registered, feeder_park_queue, fares, notifications,
          dispatch_events, site>>

TaxiStatus == {"offline", "in_feeder_park", "called", "on_fare", "return_exempt"}

Taxi ==
  [status : TaxiStatus,
   terminal_id : Terminals \cup {None},
   self_checked_in : BOOLEAN,
   current_fare_id : FareIds \cup {None},
   exemption_type : Exemption \cup {None},
   return_deadline : Nat \cup {None},
   last_return_on_time : BOOLEAN \cup {None},
   pending_return_terminal_id : Terminals \cup {None},
   expected_arrival_at : Nat \cup {None}]

Fare ==
  [taxi_badge : Badges, classification : FareClassification,
   round_trip_minutes : Nat \cup {None}]

ASSUME FareAssumption == None \notin Fare

\* A taxi as the dataclass creates it; also the value of a badge with no taxi.
NewTaxi ==
  [status |-> "offline",
   terminal_id |-> None,
   self_checked_in |-> FALSE,
   current_fare_id |-> None,
   exemption_type |-> None,
   return_deadline |-> None,
   last_return_on_time |-> None,
   pending_return_terminal_id |-> None,
   expected_arrival_at |-> None]

TypeOK ==
  /\ taxis \in [Badges -> Taxi]
  /\ registered \in Seq(Badges)
  /\ terminals \in [Terminals -> Nat]
  /\ rank_agents \subseteq Agents
  /\ feeder_park_queue \in Seq(Badges)
  /\ fares \in [FareIds -> Fare \cup {None}]
  /\ notifications \in [Badges -> Terminals \cup {None}]
  /\ dispatch_events \in Nat
  /\ traffic_level \in TrafficLevels
  /\ now \in Nat

\* The server starts with an empty store, to which lifespan (main.py) adds the
\* default terminals before the first request.
Init ==
  /\ taxis = [b \in Badges |-> NewTaxi]
  /\ registered = << >>
  /\ terminals = [t \in Terminals |-> IF t \in DefaultTerminals
                                      THEN DefaultCapacity ELSE 0]
  /\ rank_agents = {}
  /\ feeder_park_queue = << >>
  /\ fares = [f \in FareIds |-> None]
  /\ notifications = [b \in Badges |-> None]
  /\ dispatch_events = 0
  /\ traffic_level = "normal"
  /\ now = 0

----------------------------------------------------------------------------
(***************************************************************************)
(* Lookups (services/lookups.py).                                          *)
(***************************************************************************)

Registered == ToSet(registered)
TerminalExists(t) == terminals[t] # 0

\* The taxis holding a spot on a terminal's rank, and their number.
AtRank(t) ==
  {b \in Registered : taxis[b].terminal_id = t /\ taxis[b].status = "called"}
Occupancy(t) == Cardinality(AtRank(t))

\* Faulty variant: a full terminal takes one taxi more.
Bug_RoomForOneMore(t) == Occupancy(t) <= terminals[t]

HasRoom(t) == Occupancy(t) < terminals[t]

\* A list or dict yields b before c.
Before(seq, b, c) ==
  \E i, j \in DOMAIN seq : i < j /\ seq[i] = b /\ seq[j] = c

----------------------------------------------------------------------------
(***************************************************************************)
(* Administrator actions (services/admin_service.py).                      *)
(***************************************************************************)

AddTaxi(b) ==
  /\ b \notin Registered
  /\ registered' = Append(registered, b)
  /\ taxis' = [taxis EXCEPT ![b] = NewTaxi]
  /\ UNCHANGED <<feeder_park_queue, fares, notifications, dispatch_events, site>>

\* Faulty variant: the badge stays in the queue.
Bug_StaysQueued(b) == feeder_park_queue

QueueWithout(b) == RemoveFirst(feeder_park_queue, b)

\* A taxi may be removed in any status.  A fare it has in progress is left in
\* store.fares, never to be completed.
RemoveTaxi(b) ==
  /\ b \in Registered
  /\ registered' = RemoveFirst(registered, b)
  /\ feeder_park_queue' = QueueWithout(b)
  /\ taxis' = [taxis EXCEPT ![b] = NewTaxi]
  /\ notifications' = [notifications EXCEPT ![b] = None]
  /\ UNCHANGED <<fares, dispatch_events, site>>

AddRankAgent(a, t) ==
  /\ a \notin rank_agents
  /\ t # None => TerminalExists(t)
  /\ rank_agents' = rank_agents \cup {a}
  /\ UNCHANGED <<taxis, registered, feeder_park_queue, fares, notifications,
                 dispatch_events, terminals, traffic_level, now>>

RemoveRankAgent(a) ==
  /\ a \in rank_agents
  /\ rank_agents' = rank_agents \ {a}
  /\ UNCHANGED <<taxis, registered, feeder_park_queue, fares, notifications,
                 dispatch_events, terminals, traffic_level, now>>

AddTerminal(t, capacity) ==
  /\ ~TerminalExists(t)
  /\ terminals' = [terminals EXCEPT ![t] =
                     IF capacity = None THEN DefaultCapacity ELSE capacity]
  /\ UNCHANGED <<taxis, registered, feeder_park_queue, fares, notifications,
                 dispatch_events, rank_agents, traffic_level, now>>

\* Nothing is done about the taxis called to the terminal, or heading to it.
RemoveTerminal(t) ==
  /\ TerminalExists(t)
  /\ terminals' = [terminals EXCEPT ![t] = 0]
  /\ UNCHANGED <<taxis, registered, feeder_park_queue, fares, notifications,
                 dispatch_events, rank_agents, traffic_level, now>>

SetTrafficLevel(level) ==
  /\ traffic_level' = level
  /\ UNCHANGED <<taxis, registered, feeder_park_queue, fares, notifications,
                 dispatch_events, terminals, rank_agents, now>>

----------------------------------------------------------------------------
(***************************************************************************)
(* The feeder park (services/queue_service.py, dispatch_service.py).       *)
(***************************************************************************)

\* Faulty variant: a taxi back from a standard fare goes to the front.
Bug_JumpsTheQueue(b) == <<b>> \o feeder_park_queue

BackOfQueue(b) == Append(feeder_park_queue, b)

JoinFeederPark(b) ==
  /\ b \in Registered
  /\ taxis[b].status = "offline"
  /\ taxis' = [taxis EXCEPT ![b].status = "in_feeder_park"]
  /\ feeder_park_queue' = BackOfQueue(b)
  /\ UNCHANGED <<registered, fares, notifications, dispatch_events, site>>

LeaveFeederPark(b) ==
  /\ b \in Registered
  /\ taxis[b].status = "in_feeder_park"
  /\ feeder_park_queue' = QueueWithout(b)
  /\ taxis' = [taxis EXCEPT ![b].status = "offline"]
  /\ UNCHANGED <<registered, fares, notifications, dispatch_events, site>>

RecordDispatch ==
  dispatch_events' = IF dispatch_events < MaxDispatches
                     THEN dispatch_events + 1 ELSE dispatch_events

\* Faulty variants: the driver is not told; the arguments are swapped.
Bug_NotNotified(b, t) == notifications
Bug_ToldTheBadge(b, t) == [notifications EXCEPT ![b] = b]

Notified(b, t) == [notifications EXCEPT ![b] = t]

\* The capacity of the terminal is not consulted.
CallNextTaxi(t) ==
  /\ TerminalExists(t)
  /\ feeder_park_queue # << >>
  /\ LET b == Head(feeder_park_queue)
     IN  /\ taxis' = [taxis EXCEPT ![b].status = "called",
                                   ![b].terminal_id = t,
                                   ![b].self_checked_in = FALSE]
         /\ notifications' = Notified(b, t)
  /\ feeder_park_queue' = Tail(feeder_park_queue)
  /\ RecordDispatch
  /\ UNCHANGED <<registered, fares, site>>

----------------------------------------------------------------------------
(***************************************************************************)
(* Fares and the return exemption (services/fare_service.py).              *)
(***************************************************************************)

\* Faulty variant: the terminal is not looked up.
Bug_TerminalUnchecked(b) ==
  taxis[b].status = "called" /\ taxis[b].terminal_id # None

WaitingAtRank(b) ==
  /\ taxis[b].status = "called"
  /\ taxis[b].terminal_id # None
  /\ TerminalExists(taxis[b].terminal_id)

\* new_id gives the fare an id no fare has; the id of a completed fare, to
\* which nothing refers any more, stands for the next fresh one.
RecordFare(b, a, text, override, minutes) ==
  /\ b \in Registered
  /\ a \in rank_agents
  /\ WaitingAtRank(b)
  /\ \E f \in FareIds :
       LET class == ClassifyDestination(text, override, minutes)
       IN  /\ fares[f] = None
           /\ fares' = [fares EXCEPT ![f] =
                [taxi_badge |-> b, classification |-> class.classification,
                 round_trip_minutes |-> class.round_trip_minutes]]
           /\ taxis' = [taxis EXCEPT ![b].current_fare_id = f,
                                     ![b].status = "on_fare"]
  /\ UNCHANGED <<registered, feeder_park_queue, notifications, dispatch_events,
                 site>>

\* Faulty variant: the taxi keeps the fare it has completed.
Bug_KeepsFare(taxi) == [taxi EXCEPT !.terminal_id = None]

OffFare(taxi) == [taxi EXCEPT !.current_fare_id = None, !.terminal_id = None]

CompleteFare(b) ==
  /\ b \in Registered
  /\ taxis[b].status = "on_fare"
  /\ taxis[b].current_fare_id # None
  /\ LET fare == fares[taxis[b].current_fare_id]
     IN  IF fare.classification = "standard"
         THEN /\ taxis' = [taxis EXCEPT ![b] =
                   [OffFare(taxis[b]) EXCEPT !.status = "in_feeder_park",
                                             !.exemption_type = None,
                                             !.return_deadline = None]]
              /\ feeder_park_queue' = BackOfQueue(b)
         ELSE /\ taxis' = [taxis EXCEPT ![b] =
                   [OffFare(taxis[b]) EXCEPT
                      !.status = "return_exempt",
                      !.exemption_type = fare.classification,
                      !.return_deadline = now + ReturnDeadlineTicks(
                         traffic_level, fare.classification,
                         fare.round_trip_minutes)]]
              /\ UNCHANGED feeder_park_queue
  /\ fares' = [fares EXCEPT ![taxis[b].current_fare_id] = None]
  /\ UNCHANGED <<registered, notifications, dispatch_events, site>>

\* Faulty variant: the pending return survives the check-in.
Bug_StillPending(taxi, t) ==
  [taxi EXCEPT !.status = "called", !.terminal_id = t, !.self_checked_in = TRUE,
               !.exemption_type = None, !.return_deadline = None]

\* What _add_taxi_to_terminal makes of a taxi.
AddTaxiToTerminal(taxi, t) ==
  [taxi EXCEPT
     !.status = "called",
     !.terminal_id = t,
     !.self_checked_in = TRUE,
     !.last_return_on_time = \/ taxi.return_deadline = None
                             \/ now <= taxi.return_deadline,
     !.exemption_type = None,
     !.return_deadline = None,
     !.pending_return_terminal_id = None,
     !.expected_arrival_at = None]

ReturnToTerminal(b, t, eta) ==
  /\ b \in Registered
  /\ taxis[b].status = "return_exempt"
  /\ TerminalExists(t)
  /\ HasRoom(t)
  /\ IF eta <= Lead
     THEN /\ taxis' = [taxis EXCEPT ![b] = AddTaxiToTerminal(@, t)]
          /\ notifications' = Notified(b, t)
     ELSE /\ taxis' = [taxis EXCEPT
                ![b].pending_return_terminal_id = t,
                ![b].expected_arrival_at = now + eta * MinuteTicks]
          /\ UNCHANGED notifications
  /\ UNCHANGED <<registered, feeder_park_queue, fares, dispatch_events, site>>

----------------------------------------------------------------------------
(***************************************************************************)
(* promote_due_returns: one pass over store.taxis, in registration order.  *)
(* The effect of the pass is given in closed form; PromotionLoop states    *)
(* the loop itself and that the two agree.                                 *)
(***************************************************************************)

\* The taxis the pass does not skip with one of its first three continues.
Due(b) ==
  /\ b \in Registered
  /\ taxis[b].status = "return_exempt"
  /\ taxis[b].pending_return_terminal_id # None
  /\ taxis[b].expected_arrival_at # None
  /\ now >= taxis[b].expected_arrival_at - Lead * MinuteTicks

\* Faulty variant: the dict is walked from the newest key to the oldest.
Bug_NewestFirst(b, c) == Before(registered, c, b)

RegisteredBefore(b, c) == Before(registered, b, c)

\* Faulty variant: the occupancy is read once, before the pass.
Bug_StaleOccupancy(b) == {}

\* The due taxis the pass meets before b that want the same terminal.
DueBefore(b) ==
  {c \in Badges : /\ Due(c)
                  /\ RegisteredBefore(c, b)
                  /\ taxis[c].pending_return_terminal_id =
                     taxis[b].pending_return_terminal_id}

\* Faulty variant: at most one taxi is added to a terminal by a pass.
Bug_OnePerPass(b) ==
  /\ Due(b)
  /\ DueBefore(b) = {}
  /\ HasRoom(taxis[b].pending_return_terminal_id)

\* Each of them that was added took a slot, so b finds one free exactly when
\* there is one left after all of them; a terminal that is gone has none.
Promoted(b) ==
  /\ Due(b)
  /\ LET t == taxis[b].pending_return_terminal_id
     IN  Occupancy(t) + Cardinality(DueBefore(b)) < terminals[t]

\* Faulty variant: a terminal that is gone is treated as one that is full.
Bug_NeverStranded(b) == FALSE

\* The chosen terminal was removed: the driver has to pick another.
Stranded(b) == Due(b) /\ ~TerminalExists(taxis[b].pending_return_terminal_id)

\* What the pass makes of a taxi.
Swept(b) ==
  IF Promoted(b)
  THEN AddTaxiToTerminal(taxis[b], taxis[b].pending_return_terminal_id)
  ELSE IF Stranded(b)
  THEN [taxis[b] EXCEPT !.pending_return_terminal_id = None,
                        !.expected_arrival_at = None]
  ELSE taxis[b]

PromoteDueReturns ==
  /\ taxis' = [b \in Badges |-> Swept(b)]
  /\ notifications' = [b \in Badges |->
       IF Promoted(b) THEN taxis[b].pending_return_terminal_id
                      ELSE notifications[b]]
  /\ UNCHANGED <<registered, feeder_park_queue, fares, dispatch_events, site>>

\* The clock advances (clock.py).
Tick ==
  /\ now < MaxTime
  /\ now' = now + 1
  /\ UNCHANGED <<taxis, registered, feeder_park_queue, fares, notifications,
                 dispatch_events, terminals, rank_agents, traffic_level>>

----------------------------------------------------------------------------
AdminStep ==
  \/ \E b \in Badges : AddTaxi(b) \/ RemoveTaxi(b)
  \/ \E a \in Agents : \/ \E t \in Terminals \cup {None} : AddRankAgent(a, t)
                       \/ RemoveRankAgent(a)
  \/ \E t \in Terminals : \/ \E c \in Capacities \cup {None} : AddTerminal(t, c)
                          \/ RemoveTerminal(t)
  \/ \E level \in TrafficLevels : SetTrafficLevel(level)

DriverStep ==
  \E b \in Badges : \/ JoinFeederPark(b)
                    \/ LeaveFeederPark(b)
                    \/ CompleteFare(b)
                    \/ \E t \in Terminals, eta \in Etas : ReturnToTerminal(b, t, eta)

RankAgentStep ==
  \/ \E t \in Terminals : CallNextTaxi(t)
  \/ \E b \in Badges, a \in Agents, text \in Texts,
        override \in FareClassification \cup {None},
        minutes \in RoundTrips \cup {None} :
       RecordFare(b, a, text, override, minutes)

Next == AdminStep \/ DriverStep \/ RankAgentStep \/ PromoteDueReturns \/ Tick

Spec == Init /\ [][Next]_vars

----------------------------------------------------------------------------
(***************************************************************************)
(* Safety.                                                                 *)
(***************************************************************************)

\* The feeder park queue holds each taxi whose status is in_feeder_park, once,
\* and no other badge.  call_next_taxi relies on it: it pops a badge before it
\* indexes store.taxis with it, so a badge with no taxi would be lost.
QueueHoldsTheWaiting ==
  /\ IsInjective(feeder_park_queue)
  /\ ToSet(feeder_park_queue) =
       {b \in Registered : taxis[b].status = "in_feeder_park"}

\* The fields of a taxi agree with its status, as models.py comments them: it
\* has a terminal exactly while called or on a fare, an exemption and a deadline
\* exactly while it has a return to make, and an expected arrival exactly when
\* it has chosen the terminal of that return.  Nothing of a removed taxi stays.
RecordsCoherent ==
  \A b \in Badges :
    /\ taxis[b].terminal_id # None <=> taxis[b].status \in {"called", "on_fare"}
    /\ taxis[b].exemption_type # None <=> taxis[b].status = "return_exempt"
    /\ taxis[b].return_deadline # None <=> taxis[b].status = "return_exempt"
    /\ taxis[b].pending_return_terminal_id # None <=>
         taxis[b].expected_arrival_at # None
    /\ taxis[b].pending_return_terminal_id # None =>
         taxis[b].status = "return_exempt"
    /\ b \notin Registered => taxis[b] = NewTaxi /\ notifications[b] = None

\* A taxi is on a fare exactly when it refers to one, and that fare is in
\* progress and its own: complete_fare never closes another driver's fare, and
\* never looks up a fare that is not there.
FareLedgerAgrees ==
  \A b \in Badges :
    /\ taxis[b].status = "on_fare" <=> taxis[b].current_fare_id # None
    /\ taxis[b].current_fare_id # None =>
         /\ fares[taxis[b].current_fare_id] # None
         /\ fares[taxis[b].current_fare_id].taxi_badge = b

\* A driver with a terminal has been told of it, and of none since: whichever of
\* the three operations assigned it, the newest notification names it.
AssignmentIsNotified ==
  \A b \in Badges :
    taxis[b].terminal_id # None => notifications[b] = taxis[b].terminal_id

\* The feeder park is first come, first served: no step changes the order of the
\* taxis that stay, a taxi enters behind all of them, and the taxi called from
\* the park is the one that was at its front.
FirstComeFirstServed ==
  [][/\ \A b, c \in ToSet(feeder_park_queue) \cap ToSet(feeder_park_queue') :
          Before(feeder_park_queue, b, c) => Before(feeder_park_queue', b, c)
     /\ \A b \in ToSet(feeder_park_queue') \ ToSet(feeder_park_queue),
           c \in ToSet(feeder_park_queue) \cap ToSet(feeder_park_queue') :
          Before(feeder_park_queue', c, b)
     /\ \A b \in Badges :
          /\ taxis[b].status = "in_feeder_park"
          /\ taxis'[b].status = "called"
          => b = Head(feeder_park_queue)]_vars

\* However many returning drivers are added to a rank in one step, the terminal
\* holds no more taxis after it than its capacity (none, if it was removed).
ReturnsRespectCapacity ==
  [][\A b \in Badges, t \in Terminals :
       /\ taxis[b].status = "return_exempt"
       /\ taxis'[b].status = "called"
       /\ taxis'[b].terminal_id = t
       => Occupancy(t)' <= terminals[t]]_vars

\* promote_due_returns leaves a driver whose time has come behind only at a
\* terminal that is open and full.
SweepLeavesNobodyBehind ==
  [][PromoteDueReturns =>
       \A b \in Badges : Due(b)' =>
         \E t \in Terminals :
           /\ taxis[b].pending_return_terminal_id = t
           /\ TerminalExists(t)
           /\ Occupancy(t)' >= terminals[t]]_vars

\* An exemption grants at least the floor for its type, and nothing the driver
\* does while it lasts (choosing a terminal, choosing another) moves its deadline.
DeadlineIsFirm ==
  [][\A b \in Badges : taxis'[b].status = "return_exempt" =>
       IF taxis[b].status = "return_exempt"
       THEN taxis'[b].return_deadline = taxis[b].return_deadline
       ELSE taxis'[b].return_deadline >=
              now + Floor[taxis'[b].exemption_type] * MinuteTicks]_vars

\* A taxi called to a terminal that has since been removed can do nothing (no
\* fare can be recorded for it) until that terminal is added again, or it is
\* itself removed.
ClosedRankHoldsItsTaxis ==
  [][\A b \in Badges :
       LET t == taxis[b].terminal_id
       IN  /\ taxis[b].status = "called"
           /\ ~TerminalExists(t)
           => taxis'[b] = taxis[b] \/ b \notin Registered']_vars

----------------------------------------------------------------------------
(***************************************************************************)
(* What the documentation says of the program and the program does not do. *)
(***************************************************************************)

\* README.md: "each terminal holds at most 15 taxis at once (configurable per
\* terminal by an admin)".  call_next_taxi never looks at the capacity.
OccupancyWithinCapacity ==
  \A t \in Terminals : TerminalExists(t) => Occupancy(t) <= terminals[t]

\* README.md: "a rank agent can always override the classification and
\* round-trip estimate for a destination that isn't in the table".
\* classify_destination drops an estimate given without a classification.
RoundTripOverrideIsKept ==
  [][\A b \in Badges, a \in Agents, text \in Texts,
        override \in FareClassification \cup {None}, minutes \in RoundTrips :
       /\ FindDestination(text) = None
       /\ RecordFare(b, a, text, override, minutes)
       => fares'[taxis'[b].current_fare_id].round_trip_minutes = minutes]_vars
=============================================================================
