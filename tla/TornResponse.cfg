\* One taxi and one request for its status.
CONSTANTS
  None = None
  Badges = {b1}
  Terminals = {t1}
  Agents = {a1}
  FareIds = {f1}
  DefaultTerminals = {t1}
  DefaultCapacity = 1
  Capacities = {}
  KnownDestinations <- NoDestinations
  Texts = {"kensington"}
  Overlaps = {}
  RoundTrips = {}
  TrafficLevels = {"normal"}
  TrafficMultiplier <- MCTrafficMultiplier
  Floor <- MCFloor
  MinuteTicks = 1
  Etas = {0, 2}
  Lead = 1
  MaxTime = 1
  MaxDispatches = 0
SPECIFICATION ResponseSpec
INVARIANTS
  ResponseIsOneState
\* The server may run out of the bounds above, and then nothing happens.
CHECK_DEADLOCK FALSE
