SPECIFICATION FairSpec
CONSTANTS
  NoMail = NoMail
  Mails = {m1, m2}
  Senders = {s1, s2}
  Configured = {s1}
  MaxAttempts = 3
  MaxDeaths = 1
  Nobody = Nobody
  Members = {a1, a2}
  Escalations = {e1}
  Tools = {t1}
  Conversations = {c1}
  Workers = {w1, w2}
  MaxEvents = 3
  MaxMishaps = 1
INVARIANTS TypeOK StatusTellsTheRow
PROPERTIES EveryMailEnds InboxSettles EverybodyIsTold
CHECK_DEADLOCK FALSE
