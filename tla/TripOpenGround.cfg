SPECIFICATION OpenGroundSpec
CONSTANTS
  LineEnd = 8
  FollowDistance = 1
  None = None
  SegmentLength = 4
  ArrivalRadius = 0
  SegmentRadius = 1
  Tolerance = 2
  MaxReplans = 2
  MaxFaults = 0
  MaxTrips = 1
  Destinations = {8}
  Spots = {}
INVARIANT
  OpenGroundHasARoute
CHECK_DEADLOCK FALSE
