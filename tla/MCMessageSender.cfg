SPECIFICATION Spec
CONSTANTS
  m1 = m1
  m2 = m2
  NoMessage = NoMessage
  Message = {m1, m2}
  Quota = 2
  MaxLog = 3
  MaxTrouble = 3
SYMMETRY Symmetry
INVARIANTS
  AcceptedIsStored
  NoFalseAlarm
CHECK_DEADLOCK FALSE
