CONSTANTS
  Tasks = {t1}
  Sockets = {s1, s2}
  Codes = {"normal"}
  None = none
SPECIFICATION Spec
INVARIANT RefusedWhenConnected
