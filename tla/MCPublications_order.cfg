CONSTANTS
  Actor = {1, 2}
  NoActor = NoActor
  NoPort = NoPort
  NoSub = NoSub
  NoPublication = NoPublication
  Port = {p}
  Links <- FanOut
  Deadlines = {1, 2}
  Activated = {2}
  Publishers = {1}
  Scope <- Apart
  LastRoute = 2
  LastId = 3
  MaxTime = 1
  TicketLimit = 2
  PerSource = 2
  MaxSubscriptions = 2
  MailboxCapacity = 1
  BatchSize = 1
  MaxFanout = 2
  MaxSnapshot = 2
SPECIFICATION Spec
INVARIANTS
  RouteIndexExact TableIndexExact StoppedHasNoRoutes SourceFifo DrainCutoff ReportExact
