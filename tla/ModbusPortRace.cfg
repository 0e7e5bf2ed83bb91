SPECIFICATION PortLiveSpec
CONSTANTS
  NumRegs = 1
  RegType <- OneType
  RegFormat <- OneFormat
  RegPoll <- OnePoll
  Commands <- OneCommands
  SlaveWords <- OneWords
  InitWrites <- NoInit
  None = None
  Channels <- OneChannels
  Registers <- OneRegisters
  OnValue <- OneOnValue
  Messages <- OneMessages
  SetupItems <- NoSetup
  LinkFails = FALSE
PROPERTY TopicSettles
