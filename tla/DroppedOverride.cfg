\* One taxi, a place in the table and one that is not, an estimate of 3 minutes.
CONSTANTS
  None = None
  Badges = {b1}
  Terminals = {t1}
  Agents = {a1}
  FareIds = {f1}
  DefaultTerminals = {t1}
  DefaultCapacity = 1
  Capacities = {}
  KnownDestinations <- LocalTable
  Texts = {"kensington", "manchester"}
  Overlaps = {}
  RoundTrips = {3}
  TrafficLevels = {"normal"}
  TrafficMultiplier <- MCTrafficMultiplier
  Floor <- MCFloor
  MinuteTicks = 1
  Etas = {0, 2}
  Lead = 1
  MaxTime = 1
  MaxDispatches = 0
SPECIFICATION Spec
SYMMETRY Symmetry
PROPERTIES
  RoundTripOverrideIsKept
\* The server may run out of the bounds above, and then nothing happens.
CHECK_DEADLOCK FALSE
