SPECIFICATION Spec
CONSTANTS
  Skilled = {m1, m2}
  NoOne = NoOne  NoConv = NoConv  NoEsc = NoEsc  NoEvent = NoEvent  NoTask = NoTask
  Escalations = {1, 2}
  Conversations = {c1}
  Members = {m1, m2}
  Handlers = {h1, h2}
  Workers = {w1}
  Match <- MCMatch
  MaxPatches = 1
  MaxAborts = 0
SYMMETRY Symmetry
VIEW WithoutHistory
INVARIANTS TypeOK OneActive QueuedIsFlagged
PROPERTIES DrainedOnce
CHECK_DEADLOCK FALSE
