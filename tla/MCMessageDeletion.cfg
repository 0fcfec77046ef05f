SPECIFICATION Spec
CONSTANTS
  chat = chat
  advert = advert
  NoIndex = NoIndex
  Message = {chat, advert}
  Control = {advert}
  Quota = 3
  ReadBatch = 2
  MaxLog = 3
  MaxTrouble = 1
INVARIANTS
  AckedIsProcessed
CHECK_DEADLOCK FALSE
