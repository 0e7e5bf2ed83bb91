\* At most one outage of the local broker or restart of the bridge, at any point.
SPECIFICATION Scenarios
CONSTANTS
  NumControls = 2
  Values <- SwitchAndSensor
  Unexported = {2}
  Commanded = {1}
  Old = {1}
  MaxOutages = 1
  MaxInbox = 0
  Empty = Empty
  None = None
INVARIANTS TypeOK TokenUsable ConnectedIsTrue
PROPERTIES ExportRespected CloudFollows StatusSettles
