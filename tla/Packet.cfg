CONSTANTS
  WordMax = 7
  None = None
  Addrs = {2, 5}
  Ports = {1, 6}
  Data = {0, 3}
  MaxBody = 2
  Rooms = {0, 2, 3}
  MaxWrapped = 5
  MaxArrived = 3
SPECIFICATION Spec
INVARIANTS EmittedIsWhole OffsetsHold ChecksumsFollow LengthsAgree WellShapedSurvives
CHECK_DEADLOCK FALSE
