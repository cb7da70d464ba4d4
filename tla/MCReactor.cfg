SPECIFICATION Spec
CONSTANTS
  NULL = NULL
  Clients = {c1, c2}
  Polite = {c2}
  ConnFds = {5, 6}
  FdLimits = {1, 2}
  MaxBytes <- Bytes
  SendBuffer = 1
  Programs = {"plain", "mulcb", "singecb", "c1000k", "http", "websocket"}
INVARIANTS EntriesMatchEpoll AnswersConserved
PROPERTIES AnswersArrive FdsComeBack
