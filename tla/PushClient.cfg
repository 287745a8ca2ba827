CONSTANTS
  Tasks = {t1, t2}
  Sockets = {s1}
  Codes = {"normal", "ended"}
  None = none
SPECIFICATION Spec
INVARIANT OpenIsWatched
PROPERTIES LoopStopped EndIsTold DisposeReturns
