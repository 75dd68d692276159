SPECIFICATION Spec
CONSTANTS
  r1 = r1  r2 = r2  c1 = c1

  NoReq = NoReq  NoRow = NoRow  NoConv = NoConv  NoOne = NoOne
  Requests = {r1, r2}
  Conversations = {c1}
  ConvOf <- MCConvOf
  Staff = {d1, d2}
  Sweepers = {s1}
  Workers = {w1, w2}
  MaxToolCalls = 2
  MaxAborts = 1
SYMMETRY Symmetry
VIEW WithoutHistory
INVARIANTS TypeOK IndInv AtMostOneExecution OnlyApprovedRuns ClaimsExclusive
PROPERTIES SettledForEver ImplementsProtocol
CHECK_DEADLOCK FALSE
