SPECIFICATION FairSpec
CONSTANTS
  NoMsg = NoMsg
  Messages = {1, 2}
  Workers = {w1, w2}
  HistoryLimit = 2
  MaxStaff = 1
  MaxAborts = 1
INVARIANTS TypeOK PassedOverRightly OneAnswerEach
PROPERTIES EveryMessageSettles
CHECK_DEADLOCK FALSE
