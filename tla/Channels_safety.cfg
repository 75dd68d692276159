SPECIFICATION Spec
CONSTANTS
  Requests = {r1, r2}
  Deliveries = {d1}
  MaxChanges = 3
  NoMessage = NoMessage
  Replies = {o1}
  Notices = {n1}
  Senders = {s1, s2}
  Hooks = {k1}
  Webhooks = {h1, h2}
  MaxDeaths = 1
  Wamids = {w1, w2, w3, w4}
  Illustrated = {w1}
  MaxChangesInTraffic = 1
  Fetchers = {f1, f2}
  MaxFetches = 2
  MaxLapses = 1
  Sessions = {g1}
  Customers = {c1, c2}
  Numbers = {t1}
  Conversations = {v1, v2}
  Ratings = {a1, a2}
  Handlers = {b1, b2}
  MaxStaffActs = 3
  Nobody = Nobody
  Members = {m1, m2}
  Streams = {l1, l2}
  NoMember = NoMember
  MaxToggles = 2
  MaxConnects = 3
  MaxRestarts = 1
  Talks = 3
  MaxWrites = 5
  PageLimit = 1
  MaxClock = 1
  MaxPatches = 1
INVARIANTS TypeOK OnlyWhileConnected 
PROPERTIES EveryTransferEnds VisitorKeepsPlace
CHECK_DEADLOCK FALSE
