\* One taxi; an estimate of 9 minutes is past the last date, one of 1 is not.
CONSTANTS
  None = None
  Badges = {b1}
  Terminals = {t1}
  Agents = {a1}
  FareIds = {f1}
  DefaultTerminals = {t1}
  DefaultCapacity = 1
  Capacities = {}
  KnownDestinations <- LocalTable
  Texts = {"kensington"}
  Overlaps = {}
  RoundTrips = {1, 9}
  TrafficLevels = {"normal"}
  TrafficMultiplier <- MCTrafficMultiplier
  Floor <- MCFloor
  MinuteTicks = 1
  Etas = {0, 2, 9}
  Lead = 1
  MaxTime = 1
  MaxDispatches = 0
  LastDate = 6
SPECIFICATION RangeSpec
INVARIANTS
  ExemptionsAreDated
\* The server may run out of the bounds above, and then nothing happens.
CHECK_DEADLOCK FALSE
