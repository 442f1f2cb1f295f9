SPECIFICATION FairSpec
CONSTANTS
  Threads = {t1, t2}
  Chunks = {b1, b2, b3}
  Null = Null
  MaxSaid = 4
INVARIANTS DamageNeedsOldNext OneSendPerMessage
PROPERTIES QueueEmpties QueueUnlessRecycled
CHECK_DEADLOCK FALSE
