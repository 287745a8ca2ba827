SPECIFICATION StreamerSpec
CONSTANTS
  Tasks = {t1, t2}
  Backends = {b1, b2}
  MaxCalls = 4
  None = none
INVARIANT NoStrayConnection
PROPERTIES EndIsTold
CHECK_DEADLOCK FALSE
