\* Three taxis that join, leave and are called; no fares.
CONSTANTS
  None = None
  Badges = {b1, b2, b3}
  Terminals = {t1}
  Agents = {}
  FareIds = {f1}
  DefaultTerminals = {t1}
  DefaultCapacity = 1
  Capacities = {}
  KnownDestinations <- NoDestinations
  Texts = {}
  Overlaps = {}
  RoundTrips = {}
  TrafficLevels = {"normal"}
  TrafficMultiplier <- MCTrafficMultiplier
  Floor <- MCFloor
  MinuteTicks = 1
  Etas = {}
  Lead = 0
  MaxTime = 2
  MaxDispatches = 0
  Window = 1
  MinEvents = 2
  DefaultInterval = 3
  MinInterval = 1
  Lookahead = 2
  MaxCalls = 3
SPECIFICATION ScreenSpec
SYMMETRY Symmetry
INVARIANTS
  ScreenTypeOK
  IntervalWithinReason
  PositionIsABound
  RowsFollowTheQueue
  OmissionsHaveDepartures
  DueSoonComeFirst
\* The server may run out of the bounds above, and then nothing happens.
CHECK_DEADLOCK FALSE
