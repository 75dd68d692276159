SPECIFICATION FairSpec
CONSTANTS
  r1 = r1  r2 = r2  c1 = c1

  NoReq = NoReq  NoRow = NoRow  NoConv = NoConv  NoOne = NoOne
  Requests = {r1, r2}
  Conversations = {c1}
  ConvOf <- MCConvOf
  Staff = {d1}
  Sweepers = {s1}
  Workers = {w1}
  MaxToolCalls = 2
  MaxAborts = 0
PROPERTIES ApprovalWindowCloses EveryDecisionFollowedUp
CHECK_DEADLOCK FALSE
