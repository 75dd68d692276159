SPECIFICATION Spec
CONSTANTS
  NoMsg = NoMsg
  Messages = {1, 2}
  Workers = {w1, w2}
  HistoryLimit = 20
  MaxStaff = 0
  MaxAborts = 0
INVARIANTS EveryMessageAnswered
CHECK_DEADLOCK FALSE
