SPECIFICATION FairSpec
CONSTANTS
  Skilled = {m1}
  NoOne = NoOne  NoConv = NoConv  NoEsc = NoEsc  NoEvent = NoEvent  NoTask = NoTask
  Escalations = {1, 2}
  Conversations = {c1}
  Members = {m1}
  Handlers = {h1}
  Workers = {w1}
  Match <- MCMatch
  MaxPatches = 1
  MaxAborts = 1
PROPERTIES EndedIsClosed
CHECK_DEADLOCK FALSE
