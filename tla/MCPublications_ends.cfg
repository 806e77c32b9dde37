CONSTANTS
  Actor = {1, 2}
  NoActor = NoActor
  NoPort = NoPort
  NoSub = NoSub
  NoPublication = NoPublication
  Port = {p}
  Links <- FanOut
  Deadlines = {1, 2}
  Activated = {2}
  Publishers = {1}
  Scope <- Apart
  LastRoute = 1
  LastId = 3
  MaxTime = 1
  TicketLimit = 2
  PerSource = 2
  MaxSubscriptions = 1
  MailboxCapacity = 1
  BatchSize = 1
  MaxFanout = 1
  MaxSnapshot = 1
SPECIFICATION FairSpec
PROPERTIES
  EveryPublicationEnds
