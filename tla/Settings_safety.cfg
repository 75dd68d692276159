SPECIFICATION Spec
CONSTANTS
  Articles = {a1}
  Documents = {d1}
  Texts = {t1, Bare}
  Bare = Bare
  NoText = NoText
  Editors = {e1}
  Indexers = {x1, x2}
  MaxRetries = 2
  MaxEvents = 2
  MaxStops = 1
  Writers = {w1, w2, w3}
  Contents = {c1, c2}
  Free = Free
  MaxVersions = 3
  Providers = {p1, p2}
  Nobody = Nobody
  Tries = 2
  MaxSent = 2
  MaxChanges = 3
INVARIANTS TypeOK IndexTellsTruth NothingOverwritten StreamIsCoherent
PROPERTIES EveryRequestEnds
CHECK_DEADLOCK FALSE
