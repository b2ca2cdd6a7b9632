\* Three taxis may be due in one pass of promote_due_returns, for one place or two.
CONSTANTS
  None = None
  Badges = {b1, b2, b3}
  Terminals = {t1}
  Agents = {a1}
  FareIds = {f1}
  DefaultTerminals = {t1}
  DefaultCapacity = 1
  Capacities = {2}
  KnownDestinations <- LocalTable
  Texts = {"kensington"}
  Overlaps = {}
  RoundTrips = {}
  TrafficLevels = {"normal"}
  TrafficMultiplier <- MCTrafficMultiplier
  Floor <- MCFloor
  MinuteTicks = 1
  Etas = {2}
  Lead = 1
  MaxTime = 1
  MaxDispatches = 0
SPECIFICATION Spec
SYMMETRY Symmetry
INVARIANTS
  TypeOK
  QueueHoldsTheWaiting
  SweepIsTheLoop
PROPERTIES
  FirstComeFirstServed
  ReturnsRespectCapacity
  SweepLeavesNobodyBehind
\* The server may run out of the bounds above, and then nothing happens.
CHECK_DEADLOCK FALSE
