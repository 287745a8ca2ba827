CONSTANTS
  Tasks = {t1}
  Sockets = {s1}
  Codes = {"normal"}
  None = none
SPECIFICATION Spec
PROPERTY FullIsSurfaced
