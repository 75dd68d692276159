SPECIFICATION Spec
CONSTANTS
  Requests = {r1}
  Deliveries = {d1}
  MaxChanges = 1
  NoMessage = NoMessage
  Replies = {o1}
  Notices = {}
  Senders = {s1}
  Hooks = {k1, k2}
  Webhooks = {h1}
  MaxDeaths = 0
  Wamids = {w1}
  Illustrated = {w1}
  MaxChangesInTraffic = 1
  Fetchers = {f1}
  MaxFetches = 2
  MaxLapses = 0
  Sessions = {g1}
  Customers = {c1, c2}
  Numbers = {t1}
  Conversations = {v1, v2}
  Ratings = {a1, a2}
  Handlers = {b1, b2}
  MaxStaffActs = 3
  Nobody = Nobody
  Members = {m1, m2}
  Streams = {l1, l2}
  NoMember = NoMember
  MaxToggles = 2
  MaxConnects = 3
  MaxRestarts = 1
  Talks = 3
  MaxWrites = 5
  PageLimit = 1
  MaxClock = 1
  MaxPatches = 1
PROPERTIES StatusNeverRegresses
CHECK_DEADLOCK FALSE
