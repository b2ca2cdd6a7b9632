\* The smallest instance in which a terminal with one place is sent two taxis.
CONSTANTS
  None = None
  Badges = {b1, b2}
  Terminals = {t1}
  Agents = {a1}
  FareIds = {f1, f2}
  DefaultTerminals = {t1}
  DefaultCapacity = 1
  Capacities = {}
  KnownDestinations <- LocalTable
  Texts = {"kensington"}
  Overlaps = {}
  RoundTrips = {}
  TrafficLevels = {"normal"}
  TrafficMultiplier <- MCTrafficMultiplier
  Floor <- MCFloor
  MinuteTicks = 1
  Etas = {0, 2}
  Lead = 1
  MaxTime = 1
  MaxDispatches = 0
SPECIFICATION Spec
SYMMETRY Symmetry
INVARIANTS
  OccupancyWithinCapacity
\* The server may run out of the bounds above, and then nothing happens.
CHECK_DEADLOCK FALSE
