SPECIFICATION MCSpec
CONSTANTS
  Nobody = Nobody
  Users = {u1, u2}
  Staff = {s1}
  Roles = {"owner", "agent"}
  Invitations = {i1, i2}
  Requests = {r1, r2}
  Tools = {t1, t2}
  Names = {b1, n1, n2}
  Builtins = {b1}
  MustApprove = {b1}
  NoTool = NoTool
  NoName = NoName
  Admins = {h1, h2}
  MaxRequests = 3
  Plans = {p0, p1, p2}
  Default = p0
  Limited = {p0, p1}
  Limit = 2
  CappedPlans = {p1}
  Cap = 1
  NoPlan = NoPlan
  Operators = {o1, o2}
  Responders = {x1, x2}
  MaxAssigned = 4
  MaxMonths = 2
  MaxUsed = 4
  MaxConversations = 1
  Window = 2
  Budget = 2
  Checks = {k1, k2}
  MaxTime = 3
  MaxCount = 2
  MaxOutages = 1
  Overrides = {1, 5}
  MaxOverride = 4
  Preset = 2
  Ttl = 2
  Askers = {q1, q2}
  MaxSeconds = 4
  MaxEdits = 2
  MaxReading = 1
  Slots = {1, 2}
  MaxTexts = 1
SYMMETRY Symmetry
INVARIANTS TypesOK MembersAreInvited ToolCallsAreSound LimitsHold
PROPERTIES OwnerRemains JoinsAreFinal PlansAreKept
CHECK_DEADLOCK FALSE
