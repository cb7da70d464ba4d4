SPECIFICATION ServerSpec
CONSTANTS
  Coroutines = {s1, r1, r2, r3}
  Fds = {3, 5, 6}
  NULL = NULL
  Servers = {s1}
  ListenFd <- ListenFdOf
  Clients = {c1, c2}
  FdLimits = {1, 2}
  MaxBytes <- Bytes
  Port <- PortOf
  c1 = c1
  s1 = s1
  SendBuffer = 1
INVARIANTS SchedulerIsConsistent ConnectionsHaveReaders EchoConserved
PROPERTIES StartedOnce EchoArrives FdsComeBack
