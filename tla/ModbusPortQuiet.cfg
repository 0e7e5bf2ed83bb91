SPECIFICATION PortLiveSpec
CONSTANTS
  NumRegs = 3
  RegType <- ThreeType
  RegFormat <- ThreeFormat
  RegPoll <- ThreePoll
  Commands <- NoCommands
  SlaveWords <- ThreeWords
  InitWrites <- ThreeInit
  None = None
  Channels <- ThreeChannels
  Registers <- ThreeRegisters
  OnValue <- ThreeOnValue
  Messages <- NoMessages
  SetupItems <- ThreeSetup
  LinkFails = FALSE
INVARIANT RetainedCurrent
PROPERTIES SetupGoesOn TopicSettles
