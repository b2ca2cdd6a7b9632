\* Two drivers and a rank of one place, over nine minutes; four passengers.
CONSTANTS
  None = None
  Badges = {b1, b2}
  Terminals = {t1}
  Agents = {a1}
  FareIds = {f1, f2}
  DefaultTerminals = {t1}
  DefaultCapacity = 1
  Capacities = {}
  KnownDestinations <- MCKnownDestinations
  Texts = {"kensington", "manchester"}
  Overlaps = {}
  RoundTrips = {}
  TrafficLevels = {"normal"}
  TrafficMultiplier <- MCTrafficMultiplier
  Floor <- MCFloor
  MinuteTicks = 1
  Etas = {}
  Lead = 2
  MaxTime = 0
  MaxDispatches = 0
  SimMinute = 2
  DayMinutes = 8
  BufferMinutes = 1
  MaxDemand = 4
  ReadyDelays = {1, 2}
  StandardLegs = {3, 6}
  DefaultLeg = 1
  Jitters = {2, 3, 4}
  JitterBase = 1
  ShiftStarts = {0, 7}
  ShiftLengths = {1, 9}
  MinShift = 1
  MaxRetries = 1
  RetryDelay = 1
SPECIFICATION SimSpec
INVARIANTS
  NothingRaised
  WaitingIsTheRank
  SnapshotsWithinCapacity
  FareLedgerAgrees
  FaresAllEnd
  OffShiftLeavesThePark
  ExemptAreCounted
PROPERTIES
  DayEnds
\* The program ends when the day is over.
CHECK_DEADLOCK FALSE
