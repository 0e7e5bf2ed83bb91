\* Outages and ends of the process at any point; a scan waits for the broker.
SPECIFICATION LiveSpec
CONSTANTS
  Sensors = {s1, s2}
  Files <- SensorFiles
  Outages = TRUE
  Crashes = TRUE
  MaxUp = 0
  None = None
INVARIANTS TypeOK RetainedIsKnown
PROPERTIES AbsentCleared PresentPublished
