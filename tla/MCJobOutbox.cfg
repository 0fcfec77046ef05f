SPECIFICATION FairSpec
CONSTANTS
  e1 = e1
  e2 = e2
  c = c
  user = user
  event = event
  s1 = s1
  s2 = s2
  NoKey = NoKey
  NoPass = NoPass
  Message = {e1, e2, c}
  OrderingKey <- MCOrderingKey
  DedupKey <- MCDedupKey
  Relay = {s1, s2}
  BatchSize = 2
  NoMessage = NoMessage
  MaxTrouble = 1
INVARIANTS
  FirstPublishIsAlone
  NothingForgotten
  OneMessagePerKey
  DuplicatesHaveCauses
PROPERTY
  PromiseIsKept
CHECK_DEADLOCK FALSE
