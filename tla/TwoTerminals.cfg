\* Two taxis, two terminals that are removed and added again at any time, every override.
CONSTANTS
  None = None
  Badges = {b1, b2}
  Terminals = {t1, t2}
  Agents = {a1}
  FareIds = {f1}
  DefaultTerminals = {t1}
  DefaultCapacity = 1
  Capacities = {}
  KnownDestinations <- LocalTable
  Texts = {"kensington"}
  Overlaps = {}
  RoundTrips = {1}
  TrafficLevels = {"normal"}
  TrafficMultiplier <- MCTrafficMultiplier
  Floor <- MCFloor
  MinuteTicks = 1
  Etas = {0, 2}
  Lead = 1
  MaxTime = 1
  MaxDispatches = 0
SPECIFICATION Spec
SYMMETRY Symmetry
INVARIANTS
  RecordsCoherent
  FareLedgerAgrees
  AssignmentIsNotified
PROPERTIES
  DeadlineIsFirm
  ClosedRankHoldsItsTaxis
  ImplementsService
\* The server may run out of the bounds above, and then nothing happens.
CHECK_DEADLOCK FALSE
