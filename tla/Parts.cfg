\* A counter without a configured edge, with bounces, lost interrupts and two
\* reads that fail; a log of two lines for two topics.
SPECIFICATION PartsSpec
CONSTANTS
  ConfigEdge = "both"
  Inverted = FALSE
  Spacing = "bouncing"
  MaxEdges = 4
  MaxFailures = 2
  Topics = {t1, t2}
  MaxLines = 2
  Number = 3
  MaxMessages = 4
  MaxEnds = 2
  Levels = {1, 4095}
  Limit = 4095
  Refused = Refused
  NoNumber = NoNumber
  Written <- AroundBoundaries
  Roots <- ModbusRoots
  Files <- ModbusTemplates
  AdcFiles <- AdcRoots
  BlockId <- BlockB1
  Names <- SampleNames
  None = None
  Nothing = Nothing
  Channels <- VoltageAndResistance
INVARIANTS
  CountsAreEdges OnlyDroppedAreLost CacheIsPublished
  Congruent
  ChannelsAreUniform CommandsReachPublisher
  RingIsWindow OwnInput VoltageWithoutCurrent OwnSettings
  OldestGoesFirst LogTellsState RotationsArePaid
  FrameIsAccepted
PROPERTY CommandComesBack
\* The line of the counter may have used up its changes, and the world around the
\* logger its bounds.
CHECK_DEADLOCK FALSE
