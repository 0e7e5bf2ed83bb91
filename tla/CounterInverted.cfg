\* An inverted counter with clean pulses and reads that succeed.
SPECIFICATION Spec
CONSTANTS
  ConfigEdge = "both"
  Inverted = TRUE
  Spacing = "clean"
  MaxEdges = 4
  MaxFailures = 0
INVARIANT OneCountPerImpulse
\* The line may have used up its changes.
CHECK_DEADLOCK FALSE
