\* Three taxis and two requests at a time.
CONSTANTS
  None = None
  Badges = {b1, b2, b3}
  Terminals = {t1}
  Agents = {a1}
  FareIds = {f1}
  DefaultTerminals = {t1}
  DefaultCapacity = 1
  Capacities = {}
  KnownDestinations <- MCKnownDestinations
  Texts = {"kensington"}
  Overlaps = {}
  RoundTrips = {}
  TrafficLevels = {"normal"}
  TrafficMultiplier <- MCTrafficMultiplier
  Floor <- MCFloor
  MinuteTicks = 1
  Etas = {0, 2}
  Lead = 1
  MaxTime = 1
  MaxDispatches = 0
  Requests = {r1, r2}
SPECIFICATION RequestSpec
SYMMETRY Symmetry
PROPERTIES
  PlaceGoesToTheDue
\* The server may run out of the bounds above, and then nothing happens.
CHECK_DEADLOCK FALSE
