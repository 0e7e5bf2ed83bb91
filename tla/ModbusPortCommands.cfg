SPECIFICATION PortSpec
CONSTANTS
  NumRegs = 2
  RegType <- PairType
  RegFormat <- PairFormat
  RegPoll <- PairPoll
  Commands <- PairCommands
  SlaveWords <- PairWords
  InitWrites <- PairInit
  None = None
  Channels <- PairChannels
  Registers <- PairRegisters
  OnValue <- PairOnValue
  Messages <- PairMessages
  SetupItems <- PairSetup
  LinkFails = TRUE
INVARIANT PlaceholderNeverPublished
