SPECIFICATION WorkSpec
CONSTANTS
  Workers = {w1, w2}
  Main = main
  TaskNum = 3
  Timed = {1}
  Patient = {TRUE, FALSE}
  Pools = {shared, w1, w2}
  Users = {main, w1, w2}
  Conns = {1, 2, 3}
  NULL = NULL
  MIN_DB_CONN_CNT = 1
  MaxConns = {1, 2}
  Shared = shared
  Programs = {"use pool", "no pool"}
INVARIANTS TasksConserved NobodyStranded ConnectionsAccounted NoStrandedWaiter
           EverythingGivenBack
PROPERTY ProgramReturns
