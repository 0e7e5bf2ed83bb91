\* Commands, polls, failures, stops and starts of three registers.
SPECIFICATION LiveSpec
CONSTANTS
  NumRegs = 3
  RegType <- ThreeType
  RegFormat <- ThreeFormat
  RegPoll <- ThreePoll
  Commands <- ThreeCommands
  SlaveWords <- ThreeWords
  InitWrites <- ThreeInit
  None = None
INVARIANTS OwedValueKept LatestCommandAttempted
PROPERTIES DeliverySafe CacheSettles DeliveryLive
