SPECIFICATION FairSpec
CONSTANTS
  chat = chat
  advert = advert
  NoIndex = NoIndex
  Message = {chat, advert}
  Control = {advert}
  Quota = 3
  ReadBatch = 2
  MaxLog = 3
  MaxTrouble = 1
INVARIANTS
  AckedIsSettled
  ShownOnce
  PushesCoverTheRest
 
CHECK_DEADLOCK FALSE
