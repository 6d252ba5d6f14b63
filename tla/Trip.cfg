SPECIFICATION FairSpec
CONSTANTS
  LineEnd = 5
  FollowDistance = 1
  None = None
  SegmentLength = 3
  ArrivalRadius = 0
  SegmentRadius = 1
  Tolerance = 2
  MaxReplans = 1
  MaxFaults = 1
  MaxTrips = 2
  Destinations = {5}
  Spots = {0}
INVARIANTS
  TypeOK
  NoSearchAfterwards
  FollowsItsRoute
PROPERTIES
  EndsStandingStill
  HopelessEnds
CHECK_DEADLOCK FALSE
